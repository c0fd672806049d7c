-------------------------- MODULE AnswerPipelineProofs --------------------------
(****************************************************************************)
(* What shaping makes of an answer, for any depth, value and response_shape *)
(* section, and what the exits of call_tool promise, for any texts, filter  *)
(* options and answers.                                                     *)
(*                                                                          *)
(* The functions of the shaper are recursive.  None of them is expanded     *)
(* more than once here: a lemma per function gives, for every depth, what   *)
(* it makes of a value from what it makes of the parts (its levels), and    *)
(* every fact about it follows by induction over the depth (NatInduct).     *)
(****************************************************************************)
EXTENDS AnswerPipeline, SequenceTheorems, WellFoundedInduction, TLAPS

-----------------------------------------------------------------------------
(* Recursion over how deep a value is nested.                               *)

\* Induction over the natural numbers, on a set.
LEMMA NatInduct ==
  ASSUME NEW P, P \subseteq Nat, 0 \in P, \A n \in P : n + 1 \in P
  PROVE  P = Nat
<1> DEFINE R == OpToRel(<, Nat)
<1>1. SUFFICES ASSUME Nat \ P # {}
               PROVE  FALSE
  OBVIOUS
<1>2. PICK m \in Nat \ P : \A k \in Nat \ P : <<k, m>> \notin R
  <2>. HIDE DEF R
  <2>1. IsWellFoundedOn(R, Nat)
    BY NatLessThanWellFounded DEF R
  <2>. QED  BY <2>1, <1>1, WFMin
<1>3. \A k \in Nat \ P : ~(k < m)
  BY <1>2 DEF OpToRel
<1>4. m # 0 /\ m - 1 \in Nat /\ m - 1 < m
  OBVIOUS
<1>. QED  BY <1>3, <1>4

\* f begins with base and goes on by the steps G[n], up to k.
Follows(f, base, G, k) ==
  f[0] = base /\ \A n \in Nat : n < k => f[n + 1] = G[n][f[n]]

Recursive(f, X, base, G) ==
  f[0] = base /\ \A n \in Nat : f[n] \in X[n] /\ f[n + 1] = G[n][f[n]]

\* Recursion over the natural numbers, where the n-th result is in X[n].
LEMMA Recursion ==
  ASSUME NEW X, NEW base \in X[0], NEW G,
         \A n \in Nat : \A x \in X[n] : G[n][x] \in X[n + 1]
  PROVE  \E f : Recursive(f, X, base, G)
<1> DEFINE P == {k \in Nat : \E f : Follows(f, base, G, k)}
           Same == {k \in Nat : \A f, g : Follows(f, base, G, k) /\ Follows(g, base, G, k)
                                            => f[k] = g[k]}
           F(k) == CHOOSE f : Follows(f, base, G, k)
           h == [n \in Nat |-> F(n)[n]]
<1>0. ASSUME NEW k \in Nat, NEW f, Follows(f, base, G, k + 1)
      PROVE  Follows(f, base, G, k) /\ f[k + 1] = G[k][f[k]]
  BY <1>0 DEF Follows
<1>1. 0 \in P
  <2> DEFINE f == [n \in Nat |-> base]
  <2>1. Follows(f, base, G, 0)
    BY DEF Follows
  <2>. QED  BY <2>1
<1>2. ASSUME NEW k \in P
      PROVE  k + 1 \in P
  <2>1. PICK f : Follows(f, base, G, k) /\ k \in Nat
    OBVIOUS
  <2> DEFINE g == [n \in Nat |-> IF n = k + 1 THEN G[k][f[k]] ELSE f[n]]
  <2>2. /\ \A n \in Nat : n < k + 1 => g[n] = f[n]
        /\ g[k + 1] = G[k][f[k]]
    BY <2>1
  <2> HIDE DEF g
  <2>3. ASSUME NEW n \in Nat, n < k + 1
        PROVE  g[n + 1] = G[n][g[n]]
    <3>1. CASE n = k
      BY <2>1, <2>2, <3>1
    <3>2. CASE n # k
      <4>1. n < k /\ n + 1 < k + 1
        BY <2>1, <2>3, <3>2
      <4>2. f[n + 1] = G[n][f[n]]
        BY <2>1, <4>1 DEF Follows
      <4>. QED  BY <2>2, <2>3, <4>1, <4>2
    <3>. QED  BY <3>1, <3>2
  <2>4. g[0] = base
    BY <2>1, <2>2 DEF Follows
  <2>5. Follows(g, base, G, k + 1)
    BY <2>3, <2>4 DEF Follows
  <2>. QED  BY <2>1, <2>5
<1>3. P = Nat
  <2> HIDE DEF P
  <2> P \subseteq Nat  BY DEF P
  <2> QED  BY <1>1, <1>2, NatInduct
<1>4. \A k \in Nat : Follows(F(k), base, G, k)
  BY <1>3
<1>5. Same = Nat
  <2>1. 0 \in Same
    BY DEF Follows
  <2>2. ASSUME NEW k \in Same
        PROVE  k + 1 \in Same
    BY <1>0
  <2> HIDE DEF Same
  <2> Same \subseteq Nat  BY DEF Same
  <2> QED  BY <2>1, <2>2, NatInduct
<1>6. h[0] = base
  <2> HIDE DEF F
  <2> QED  BY <1>4 DEF Follows
<1>7. ASSUME NEW n \in Nat
      PROVE  h[n + 1] = G[n][h[n]]
  <2> HIDE DEF F
  <2>1. /\ Follows(F(n), base, G, n) /\ Follows(F(n + 1), base, G, n)
        /\ F(n + 1)[n + 1] = G[n][F(n + 1)[n]]
    BY <1>0, <1>4
  <2>2. F(n)[n] = F(n + 1)[n]
    BY <1>5, <2>1
  <2>. QED  BY <2>1, <2>2
<1>8. \A n \in Nat : h[n] \in X[n]
  <2> DEFINE T == {n \in Nat : h[n] \in X[n]}
  <2> HIDE DEF h
  <2>1. T = Nat
    <3>1. 0 \in T
      BY <1>6
    <3>2. \A n \in T : n + 1 \in T
      BY <1>7
    <3> HIDE DEF T
    <3> T \subseteq Nat  BY DEF T
    <3> QED  BY <3>1, <3>2, NatInduct
  <2>. QED  BY <2>1
<1>. QED  BY <1>6, <1>7, <1>8 DEF Recursive

-----------------------------------------------------------------------------
(* The values.                                                              *)

\* What can be nested once more.
Up(S) == Scalars \cup Lists(S) \cup Dicts(S)

\* f has the values by how deep they are nested, up to k.
Levels(f, k) == f[0] = Scalars /\ \A n \in Nat : n < k => f[n + 1] = Up(f[n])

\* The recursion that defines Json.  (Not an instance of Recursion: no set is
\* known to contain the values before they are defined.)
LEMMA JsonLevels == Json[0] = Scalars /\ \A n \in Nat : Json[n + 1] = Up(Json[n])
<1> DEFINE P == {k \in Nat : \E f : Levels(f, k)}
           Same == {k \in Nat : \A f, g : Levels(f, k) /\ Levels(g, k) => f[k] = g[k]}
           F(k) == CHOOSE f : Levels(f, k)
           h == [n \in Nat |-> F(n)[n]]
           IsJson(f) == f = [n \in Nat |-> Scalars \cup IF n = 0 THEN {}
                                            ELSE Lists(f[n - 1]) \cup Dicts(f[n - 1])]
<1>0. ASSUME NEW k \in Nat, NEW f, Levels(f, k + 1)
      PROVE  Levels(f, k) /\ f[k + 1] = Up(f[k])
  BY <1>0 DEF Levels
<1>1. 0 \in P
  <2> DEFINE f == [n \in Nat |-> Scalars]
  <2>1. Levels(f, 0)
    BY DEF Levels
  <2>. QED  BY <2>1
<1>2. ASSUME NEW k \in P
      PROVE  k + 1 \in P
  <2>1. PICK f : Levels(f, k) /\ k \in Nat
    OBVIOUS
  <2> DEFINE g == [n \in Nat |-> IF n = k + 1 THEN Up(f[k]) ELSE f[n]]
  <2>2. /\ \A n \in Nat : n < k + 1 => g[n] = f[n]
        /\ g[k + 1] = Up(f[k])
    BY <2>1
  <2> HIDE DEF g
  <2>3. ASSUME NEW n \in Nat, n < k + 1
        PROVE  g[n + 1] = Up(g[n])
    <3>1. CASE n = k
      BY <2>1, <2>2, <3>1
    <3>2. CASE n # k
      <4>1. n < k /\ n + 1 < k + 1
        BY <2>1, <2>3, <3>2
      <4>2. f[n + 1] = Up(f[n])
        BY <2>1, <4>1 DEF Levels
      <4>. QED  BY <2>2, <2>3, <4>1, <4>2
    <3>. QED  BY <3>1, <3>2
  <2>4. g[0] = Scalars
    BY <2>1, <2>2 DEF Levels
  <2>5. Levels(g, k + 1)
    BY <2>3, <2>4 DEF Levels
  <2>. QED  BY <2>1, <2>5
<1>3. P = Nat
  <2> HIDE DEF P
  <2> P \subseteq Nat  BY DEF P
  <2> QED  BY <1>1, <1>2, NatInduct
<1>4. \A k \in Nat : Levels(F(k), k)
  BY <1>3
<1>5. Same = Nat
  <2>1. 0 \in Same
    BY DEF Levels
  <2>2. ASSUME NEW k \in Same
        PROVE  k + 1 \in Same
    BY <1>0
  <2> HIDE DEF Same
  <2> Same \subseteq Nat  BY DEF Same
  <2> QED  BY <2>1, <2>2, NatInduct
<1>6. h[0] = Scalars
  <2> HIDE DEF F
  <2> QED  BY <1>4 DEF Levels
<1>7. ASSUME NEW n \in Nat
      PROVE  h[n + 1] = Up(h[n])
  <2> HIDE DEF F
  <2>1. /\ Levels(F(n), n) /\ Levels(F(n + 1), n)
        /\ F(n + 1)[n + 1] = Up(F(n + 1)[n])
    BY <1>0, <1>4
  <2>2. F(n)[n] = F(n + 1)[n]
    BY <1>5, <2>1
  <2>. QED  BY <2>1, <2>2
<1>8. IsJson(h)
  <2> SUFFICES ASSUME NEW n \in Nat
               PROVE  h[n] = Scalars \cup IF n = 0 THEN {}
                                          ELSE Lists(h[n - 1]) \cup Dicts(h[n - 1])
    OBVIOUS
  <2> HIDE DEF h
  <2>1. CASE n = 0
    BY <1>6, <2>1
  <2>2. CASE n # 0
    <3>1. n - 1 \in Nat /\ (n - 1) + 1 = n
      BY <2>2
    <3>2. h[n] = Up(h[n - 1])
      BY <1>7, <3>1
    <3>. QED  BY <2>2, <3>2 DEF Up
  <2>. QED  BY <2>1, <2>2
<1>9. IsJson(Json)
  <2>1. Json = CHOOSE f : IsJson(f)
    BY DEF Json
  <2> HIDE DEF IsJson, h
  <2>. QED  BY <1>8, <2>1
<1>10. Json[0] = Scalars
  BY <1>9
<1>11. ASSUME NEW n \in Nat
       PROVE  Json[n + 1] = Up(Json[n])
  <2>1. n + 1 \in Nat /\ n + 1 # 0 /\ (n + 1) - 1 = n
    OBVIOUS
  <2>. QED  BY <1>9, <2>1 DEF Up
<1>. QED  BY <1>10, <1>11

\* A value is a scalar, a list or a dict.
LEMMA Kinds ==
  ASSUME NEW S, NEW v \in Up(S)
  PROVE  \/ v \in Scalars /\ v.type \notin {"list", "dict"}
         \/ v \in Lists(S) /\ v.type = "list" /\ v.items \in Seq(S) /\ v = List(v.items)
         \/ /\ v \in Dicts(S) /\ v.type = "dict" /\ v = Dict(v.fields)
            /\ v.fields \subseteq STRING \X S
            /\ \A f, g \in v.fields : f[1] = g[1] => f = g
BY DEF Up, Scalars, Lists, Dicts, List, Dict

\* Scalars are neither lists nor dicts, and values of every depth.
LEMMA ScalarType ==
  ASSUME NEW v \in Scalars
  PROVE  v.type \notin {"list", "dict"} /\ \A S : v \in Up(S)
BY DEF Up, Scalars

\* A list of values, and its parts.
LEMMA ListType ==
  ASSUME NEW S, NEW s \in Seq(S)
  PROVE  /\ List(s) \in Up(S) /\ List(s).type = "list" /\ List(s).items = s
         /\ Parts(List(s)) = {s[i] : i \in 1..Len(s)}
BY DEF Up, Lists, List, Parts, Range

\* A dict of values, its fields and its parts.
LEMMA DictType ==
  ASSUME NEW S, NEW F \in SUBSET (STRING \X S), \A f, g \in F : f[1] = g[1] => f = g
  PROVE  /\ Dict(F) \in Up(S) /\ Dict(F).type = "dict" /\ Dict(F).fields = F
         /\ Parts(Dict(F)) = {f[2] : f \in F}
BY DEF Up, Dicts, Dict, Parts

\* The parts of a value, and what is made of them.
Maps(g, S, T) == \A p \in S : g[p] \in T

\* What has g[p] in the place of each part p: its kind, its parts and its fields.
LEMMA Mapped ==
  ASSUME NEW S, NEW T, NEW g, Maps(g, S, T), NEW v \in Up(S)
  PROVE  /\ MapParts(g, v) \in Up(T)
         /\ MapParts(g, v).type = v.type
         /\ Parts(v) \subseteq S
         /\ Parts(MapParts(g, v)) = {g[p] : p \in Parts(v)}
         /\ v.type \notin {"list", "dict"} => Parts(v) = {} /\ MapParts(g, v) = v
         /\ v.type = "dict" => MapParts(g, v).fields = {<<f[1], g[f[2]]>> : f \in v.fields}
<1> USE DEF Maps
<1>1. CASE v \in Scalars /\ v.type \notin {"list", "dict"}
  BY <1>1, ScalarType DEF MapParts, Parts
<1>2. CASE v.type = "list" /\ v.items \in Seq(S) /\ v = List(v.items)
  <2> DEFINE s == v.items
             t == [i \in DOMAIN s |-> g[s[i]]]
  <2>0. DOMAIN s = 1..Len(s) /\ \A i \in 1..Len(s) : s[i] \in S
    BY <1>2
  <2>1. t \in Seq(T) /\ Len(t) = Len(s) /\ \A i \in 1..Len(s) : t[i] = g[s[i]]
    <3>1. t = [i \in 1..Len(s) |-> g[s[i]]] /\ Len(s) \in Nat
      BY <1>2, <2>0
    <3>. QED  BY <2>0, <3>1
  <2>2. MapParts(g, v) = List(t)
    BY <1>2 DEF MapParts
  <2>3. Parts(v) = {s[i] : i \in 1..Len(s)}
    BY <1>2, ListType
  <2> HIDE DEF t
  <2>4. MapParts(g, v) \in Up(T) /\ MapParts(g, v).type = "list"
    BY <2>1, <2>2, ListType
  <2>5. Parts(MapParts(g, v)) = {t[i] : i \in 1..Len(t)}
    BY <2>1, <2>2, ListType
  <2>6. Parts(MapParts(g, v)) = {g[p] : p \in Parts(v)}
    BY <2>1, <2>3, <2>5
  <2>7. Parts(v) \subseteq S
    BY <2>0, <2>3
  <2>. QED  BY <1>2, <2>4, <2>6, <2>7
<1>3. CASE /\ v.type = "dict" /\ v = Dict(v.fields)
           /\ v.fields \subseteq STRING \X S
           /\ \A f, h \in v.fields : f[1] = h[1] => f = h
  <2> DEFINE F == {<<f[1], g[f[2]]>> : f \in v.fields}
  <2>1. F \subseteq STRING \X T /\ \A f, h \in F : f[1] = h[1] => f = h
    BY <1>3
  <2>2. MapParts(g, v) = Dict(F)
    BY <1>3 DEF MapParts
  <2>3. Parts(v) = {f[2] : f \in v.fields}
    BY <1>3 DEF Parts
  <2>5. {f[2] : f \in F} = {g[p] : p \in Parts(v)}
    <3>1. ASSUME NEW f \in v.fields
          PROVE  g[f[2]] \in {h[2] : h \in F}
      <4>1. <<f[1], g[f[2]]>> \in F
        OBVIOUS
      <4> HIDE DEF F
      <4>. QED  BY <4>1
    <3>. QED  BY <2>3, <3>1
  <2> HIDE DEF F
  <2>4. /\ MapParts(g, v) \in Up(T) /\ MapParts(g, v).type = "dict"
        /\ MapParts(g, v).fields = F
        /\ Parts(MapParts(g, v)) = {f[2] : f \in F}
    BY <2>1, <2>2, DictType
  <2>6. Parts(v) \subseteq S
    BY <1>3, <2>3
  <2>. QED  BY <1>3, <2>4, <2>5, <2>6 DEF F
<1>. QED  BY <1>1, <1>2, <1>3, Kinds

\* A value without fields is of the same kind and has the other fields.
LEMMA FieldsGone ==
  ASSUME NEW S, NEW v \in Up(S), NEW names
  PROVE  /\ WithoutFields(v, names) \in Up(S)
         /\ WithoutFields(v, names).type = v.type
         /\ v.type # "dict" => WithoutFields(v, names) = v
         /\ v.type = "dict" =>
              WithoutFields(v, names).fields = {f \in v.fields : f[1] \notin names}
<1>1. CASE v.type # "dict"
  BY <1>1 DEF WithoutFields
<1>2. CASE v.type = "dict"
  <2>1. v.fields \subseteq STRING \X S /\ \A f, h \in v.fields : f[1] = h[1] => f = h
    BY <1>2, Kinds
  <2> DEFINE F == {f \in v.fields : f[1] \notin names}
  <2>2. F \subseteq STRING \X S /\ \A f, h \in F : f[1] = h[1] => f = h
    BY <2>1
  <2>3. WithoutFields(v, names) = Dict(F)
    BY <1>2 DEF WithoutFields
  <2> HIDE DEF F
  <2>4. Dict(F) \in Up(S) /\ Dict(F).type = "dict" /\ Dict(F).fields = F
    BY <2>2, DictType
  <2>. QED  BY <1>2, <2>3, <2>4 DEF F
<1>. QED  BY <1>1, <1>2

\* A concatenation has the elements of its parts.
LEMMA Flattened ==
  ASSUME NEW S, NEW e \in Seq(Seq(S))
  PROVE  /\ FlattenSeq(e) \in Seq(S)
         /\ Range(FlattenSeq(e)) = UNION {Range(e[i]) : i \in 1..Len(e)}
<1> DEFINE N == Len(e)
<1>0. N \in Nat /\ \A i \in 1..N : e[i] \in Seq(S)
  OBVIOUS
<1>1. CASE N = 0
  <2>1. e = << >> /\ FlattenSeq(e) = << >>
    BY <1>1 DEF FlattenSeq
  <2>2. Range(<< >>) = {} /\ << >> \in Seq(S)
    BY DEF Range
  <2>3. UNION {Range(e[i]) : i \in 1..N} = {}
    <3> HIDE DEF N
    <3>1. 1..N = {}
      BY <1>1
    <3>. QED  BY <3>1
  <2>. QED  BY <2>1, <2>2, <2>3
<1>2. CASE N # 0
  <2> DEFINE Flat(h) == h = [i \in 1..N |-> IF i = 1 THEN e[i] ELSE h[i - 1] \o e[i]]
             f == CHOOSE h : Flat(h)
             X == [n \in Nat |-> Seq(S)]
             G == [n \in Nat |-> [x \in Seq(S) |-> IF n + 2 \in 1..N THEN x \o e[n + 2] ELSE x]]
  <2>1. FlattenSeq(e) = f[N]
    BY <1>2 DEF FlattenSeq
  <2> HIDE DEF N
  <2>2. PICK r : Recursive(r, X, e[1], G)
    <3>1. e[1] \in X[0]
      BY <1>0, <1>2
    <3>2. \A n \in Nat : \A x \in X[n] : G[n][x] \in X[n + 1]
      <4> SUFFICES ASSUME NEW n \in Nat, NEW x \in X[n]
                   PROVE  G[n][x] \in X[n + 1]
        OBVIOUS
      <4>1. x \in Seq(S) /\ n + 1 \in Nat
        OBVIOUS
      <4>2. (IF n + 2 \in 1..N THEN x \o e[n + 2] ELSE x) \in Seq(S)
        BY <1>0, <4>1, ConcatProperties
      <4>. QED  BY <4>1, <4>2
    <3> HIDE DEF X, G
    <3>. QED  BY <3>1, <3>2, Recursion
  <2>3. /\ r[0] = e[1]
        /\ \A n \in Nat : r[n] \in Seq(S) /\ (n + 2 \in 1..N => r[n + 1] = r[n] \o e[n + 2])
    BY <2>2 DEF Recursive
  <2> HIDE DEF X, G, f
  <2>4. Flat([i \in 1..N |-> r[i - 1]])
    <3> DEFINE g == [i \in 1..N |-> r[i - 1]]
    <3> SUFFICES ASSUME NEW i \in 1..N
                 PROVE  r[i - 1] = IF i = 1 THEN e[i] ELSE g[i - 1] \o e[i]
      OBVIOUS
    <3>1. CASE i = 1
      BY <2>3, <3>1
    <3>2. CASE i # 1
      <4>1. PICK m \in Nat : i = m + 2
        BY <1>0, <3>2
      <4>2. i - 1 = m + 1 /\ m + 1 \in 1..N /\ m + 1 - 1 = m
        BY <1>0, <4>1
      <4>3. g[m + 1] = r[m + 1 - 1]
        BY <4>2
      <4>4. r[m + 1] = r[m] \o e[m + 2]
        BY <2>3, <4>1
      <4> HIDE DEF g
      <4>. QED  BY <3>2, <4>1, <4>2, <4>3, <4>4
    <3>. QED  BY <3>1, <3>2
  <2>5. f[1] = e[1] /\ \A i \in 1..N : i # 1 => f[i] = f[i - 1] \o e[i]
    <3>1. Flat(f)
      <4> HIDE DEF Flat
      <4> QED  BY <2>4 DEF f
    <3>2. 1 \in 1..N
      BY <1>0, <1>2
    <3>. QED  BY <3>1, <3>2
  <2> DEFINE Upto(i) == UNION {Range(e[j]) : j \in 1..i}
             P == {n \in Nat : n + 1 \in 1..N => /\ f[n + 1] \in Seq(S)
                                                 /\ Range(f[n + 1]) = Upto(n + 1)}
  <2>6. 0 \in P
    <3>1. Upto(1) = Range(e[1]) /\ 1 \in 1..N
      BY <1>0, <1>2
    <3>. QED  BY <1>0, <2>5, <3>1
  <2>7. ASSUME NEW n \in P
        PROVE  n + 1 \in P
    <3>0. n \in Nat /\ n + 1 + 1 = n + 2
      OBVIOUS
    <3> SUFFICES ASSUME n + 2 \in 1..N
                 PROVE  f[n + 2] \in Seq(S) /\ Range(f[n + 2]) = Upto(n + 2)
      BY <3>0
    <3>1. /\ n \in Nat /\ n + 2 \in 1..N /\ n + 1 \in 1..N /\ n + 2 # 1
          /\ (n + 2) - 1 = n + 1
      BY <1>0
    <3>2. f[n + 2] = f[n + 1] \o e[n + 2]
      BY <2>5, <3>1
    <3>3. f[n + 1] \in Seq(S) /\ Range(f[n + 1]) = Upto(n + 1) /\ e[n + 2] \in Seq(S)
      BY <1>0, <3>1
    <3>4. Upto(n + 2) = Upto(n + 1) \cup Range(e[n + 2])
      <4>1. 1..(n + 2) = (1..(n + 1)) \cup {n + 2}
        BY <3>1
      <4>. QED  BY <4>1
    <3> HIDE DEF Upto, P
    <3>5. Range(f[n + 1] \o e[n + 2]) = Range(f[n + 1]) \cup Range(e[n + 2])
      BY <3>3, RangeConcatenation
    <3>. QED  BY <3>2, <3>3, <3>4, <3>5
  <2>8. P = Nat
    <3> HIDE DEF P
    <3> P \subseteq Nat  BY DEF P
    <3> QED  BY <2>6, <2>7, NatInduct
  <2>9. N - 1 \in Nat /\ N \in 1..N /\ (N - 1) + 1 = N
    BY <1>0, <1>2
  <2>10. f[N] \in Seq(S) /\ Range(f[N]) = Upto(N)
    <3>1. \A n \in Nat : n + 1 \in 1..N => f[n + 1] \in Seq(S) /\ Range(f[n + 1]) = Upto(n + 1)
      BY <2>8
    <3> HIDE DEF Upto, P
    <3>. QED  BY <2>9, <3>1
  <2>. QED  BY <2>1, <2>10 DEF N
<1>. QED  BY <1>1, <1>2

\* Nothing else can follow the steps.
LEMMA OnlyRecursive ==
  ASSUME NEW X, NEW base, NEW G, NEW r, Recursive(r, X, base, G),
         NEW f, f[0] = base, \A n \in Nat : f[n] = r[n] => f[n + 1] = G[n][r[n]]
  PROVE  \A n \in Nat : f[n] = r[n]
<1> DEFINE P == {n \in Nat : f[n] = r[n]}
<1>1. 0 \in P /\ \A n \in P : n + 1 \in P
  BY DEF Recursive
<1>2. P = Nat
  <2> HIDE DEF P
  <2> P \subseteq Nat  BY DEF P
  <2> QED  BY <1>1, NatInduct
<1>. QED  BY <1>2

\* A value without its empty parts is of the same kind and has the other parts.
LEMMA EmptiesGone ==
  ASSUME NEW S, NEW v \in Up(S)
  PROVE  /\ WithoutEmpties(v) \in Up(S)
         /\ WithoutEmpties(v).type = v.type
         /\ Parts(WithoutEmpties(v)) = {p \in Parts(v) : ~IsEmpty(p)}
         /\ v.type \notin {"list", "dict"} => WithoutEmpties(v) = v
         /\ v.type = "dict" =>
              WithoutEmpties(v).fields = {f \in v.fields : ~IsEmpty(f[2])}
<1>1. CASE v.type \notin {"list", "dict"}
  <2>1. WithoutEmpties(v) = v
    BY <1>1 DEF WithoutEmpties
  <2>2. Parts(v) = {}
    BY <1>1 DEF Parts
  <2>. QED  BY <1>1, <2>1, <2>2
<1>2. CASE v.type = "list"
  <2> DEFINE s == v.items
             e == [i \in DOMAIN s |-> IF IsEmpty(s[i]) THEN << >> ELSE <<s[i]>>]
  <2>1. s \in Seq(S) /\ v = List(s)
    BY <1>2, Kinds
  <2>2. Parts(v) = {s[i] : i \in 1..Len(s)}
    BY <2>1, ListType
  <2>3. /\ e \in Seq(Seq(S)) /\ Len(e) = Len(s)
        /\ \A i \in 1..Len(s) : Range(e[i]) = {s[i]} \ {p \in {s[i]} : IsEmpty(p)}
    <3>1. /\ Len(s) \in Nat /\ DOMAIN s = 1..Len(s)
          /\ \A i \in 1..Len(s) : s[i] \in S
      BY <2>1
    <3>2. ASSUME NEW i \in 1..Len(s)
          PROVE  e[i] \in Seq(S) /\ Range(e[i]) = {s[i]} \ {p \in {s[i]} : IsEmpty(p)}
      <4>1. /\ << >> \in Seq(S) /\ Range(<< >>) = {}
            /\ <<s[i]>> \in Seq(S) /\ Range(<<s[i]>>) = {s[i]}
        BY <3>1 DEF Range
      <4>2. e[i] = IF IsEmpty(s[i]) THEN << >> ELSE <<s[i]>>
        BY <3>1
      <4> HIDE DEF e, s
      <4>. QED  BY <4>1, <4>2
    <3>3. e = [i \in 1..Len(s) |-> e[i]]
      BY <3>1
    <3> HIDE DEF e, s
    <3>4. e \in [1..Len(s) -> Seq(S)]
      BY <3>2, <3>3
    <3>. QED  BY <3>1, <3>2, <3>4
  <2>4. WithoutEmpties(v) = List(FlattenSeq(e))
    BY <1>2 DEF WithoutEmpties
  <2> HIDE DEF e, s
  <2> DEFINE t == FlattenSeq(e)
  <2>5. t \in Seq(S) /\ Range(t) = UNION {Range(e[i]) : i \in 1..Len(e)}
    BY <2>3, Flattened
  <2> HIDE DEF t
  <2>6. /\ List(t) \in Up(S) /\ List(t).type = "list"
        /\ Parts(List(t)) = {t[i] : i \in 1..Len(t)}
    BY <2>5, ListType
  <2>7. Range(t) = {t[i] : i \in 1..Len(t)}
    BY <2>5, RangeEquality
  <2>8. UNION {Range(e[i]) : i \in 1..Len(e)} = {p \in Parts(v) : ~IsEmpty(p)}
    <3>1. ASSUME NEW i \in 1..Len(s), ~IsEmpty(s[i])
          PROVE  s[i] \in UNION {Range(e[j]) : j \in 1..Len(e)}
      <4>1. s[i] \in Range(e[i]) /\ i \in 1..Len(e)
        BY <2>3, <3>1
      <4>. QED  BY <4>1
    <3>2. ASSUME NEW i \in 1..Len(e), NEW p \in Range(e[i])
          PROVE  p \in Parts(v) /\ ~IsEmpty(p)
      BY <2>2, <2>3
    <3>. QED  BY <2>2, <3>1, <3>2
  <2>. QED  BY <1>2, <2>4, <2>5, <2>6, <2>7, <2>8 DEF t
<1>3. CASE v.type = "dict"
  <2>1. v.fields \subseteq STRING \X S /\ \A f, h \in v.fields : f[1] = h[1] => f = h
    BY <1>3, Kinds
  <2> DEFINE F == {f \in v.fields : ~IsEmpty(f[2])}
  <2>2. F \subseteq STRING \X S /\ \A f, h \in F : f[1] = h[1] => f = h
    BY <2>1
  <2>3. WithoutEmpties(v) = Dict(F)
    BY <1>3 DEF WithoutEmpties
  <2>4. Parts(v) = {f[2] : f \in v.fields}
    BY <1>3 DEF Parts
  <2>5. {f[2] : f \in F} = {p \in Parts(v) : ~IsEmpty(p)}
    BY <2>4
  <2> HIDE DEF F
  <2>6. /\ Dict(F) \in Up(S) /\ Dict(F).type = "dict" /\ Dict(F).fields = F
        /\ Parts(Dict(F)) = {f[2] : f \in F}
    BY <2>2, DictType
  <2>. QED  BY <1>3, <2>3, <2>5, <2>6 DEF F
<1>. QED  BY <1>1, <1>2, <1>3

\* A reference stands for a text.
LEMMA Descriptor ==
  ASSUME NEW S, NEW v \in Up(S), IsRef(v)
  PROVE  v.type = "dict" /\ At(v, "descriptor") \in S /\ At(v, "descriptor").type = "text"
<1>1. v.type = "dict" /\ At(v, "descriptor").type = "text" /\ "descriptor" \in KeysOf(v)
  BY DEF IsRef
<1>2. v.fields \subseteq STRING \X S
  BY <1>1, Kinds
<1>3. \E f \in v.fields : f[1] = "descriptor"
  BY <1>1 DEF KeysOf
<1>4. At(v, "descriptor") \in S
  BY <1>2, <1>3 DEF At
<1>. QED  BY <1>1, <1>4

\* Scalars are nested 0 deep, and so any number deep at most.
LEMMA ScalarLevels ==
  ASSUME NEW n \in Nat
  PROVE  /\ Scalars \subseteq Json[n]
         /\ \A v \in Json[n] : v.type \notin {"list", "dict"} => v \in Scalars
<1>1. CASE n = 0
  BY <1>1, JsonLevels
<1>2. CASE n # 0
  <2>1. n - 1 \in Nat /\ (n - 1) + 1 = n
    BY <1>2
  <2>2. Json[n] = Up(Json[n - 1])
    BY <2>1, JsonLevels
  <2>. QED  BY <2>2, Kinds, ScalarType
<1>. QED  BY <1>1, <1>2

-----------------------------------------------------------------------------
(* The recursive functions of the shaper, by their levels: what each makes  *)
(* of a scalar, and of a value from what it makes of its parts.             *)

\* f takes values to values of the same depth, and scalars to themselves.
OnLevels(f) ==
  /\ \A n \in Nat : f[n] \in [Json[n] -> Json[n]]
  /\ \A n \in Nat : \A w \in Scalars : f[n][w] = w

FlatStep(g, w) == IF IsRef(w) THEN At(w, "descriptor") ELSE MapParts(g, w)

\* _flatten_refs makes a value that is nested no deeper.
LEMMA FlatStepType ==
  ASSUME NEW n \in Nat, NEW g \in [Json[n] -> Json[n]], NEW w \in Json[n + 1]
  PROVE  FlatStep(g, w) \in Json[n + 1]
<1>1. Json[n + 1] = Up(Json[n])
  BY JsonLevels
<1>2. CASE IsRef(w)
  <2>1. At(w, "descriptor") \in Scalars
    BY <1>1, <1>2, Descriptor, ScalarLevels
  <2>. QED  BY <1>2, <2>1, ScalarLevels DEF FlatStep
<1>3. CASE ~IsRef(w)
  <2>1. Maps(g, Json[n], Json[n])
    BY DEF Maps
  <2>2. MapParts(g, w) \in Json[n + 1]
    BY <1>1, <2>1, Mapped
  <2>. QED  BY <1>3, <2>2 DEF FlatStep
<1>. QED  BY <1>2, <1>3

\* It leaves scalars alone.
LEMMA FlatScalar == \A g : \A w \in Scalars : FlatStep(g, w) = w
BY ScalarType DEF FlatStep, IsRef, MapParts

\* FlattenRefs by levels: a reference becomes its descriptor, and what is no
\* reference is flattened in its parts.
LEMMA FlattenLevels ==
  \E r : /\ OnLevels(r)
         /\ \A n \in Nat : \A w \in Json[n + 1] : r[n + 1][w] = FlatStep(r[n], w)
         /\ \A w \in Json[Depth] : FlattenRefs(w) = r[Depth][w]
<1> DEFINE Flat(h) == h = [n \in Nat |-> [w \in Json[n] |-> FlatStep(h[n - 1], w)]]
           X == [n \in Nat |-> [Json[n] -> Json[n]]]
           base == [w \in Json[0] |-> w]
           G == [n \in Nat |-> [g \in X[n] |-> [w \in Json[n + 1] |-> FlatStep(g, w)]]]
           f == CHOOSE h : Flat(h)
<1>1. \A n \in Nat : \A g \in X[n] : /\ G[n][g] = [w \in Json[n + 1] |-> FlatStep(g, w)]
                                     /\ G[n][g] \in X[n + 1]
  BY FlatStepType
<1>2. base \in X[0]
  OBVIOUS
<1>7. \A n \in Nat : X[n] = [Json[n] -> Json[n]]
  OBVIOUS
<1> HIDE DEF G, X, f
<1>3. PICK r : Recursive(r, X, base, G)
  <2> HIDE DEF base
  <2> QED  BY <1>1, <1>2, Recursion
<1>4. /\ r[0] = base
      /\ \A n \in Nat : r[n] \in X[n] /\ r[n + 1] = [w \in Json[n + 1] |-> FlatStep(r[n], w)]
  BY <1>1, <1>3 DEF Recursive
<1>5. \A g : [w \in Json[0] |-> FlatStep(g, w)] = base
  BY FlatScalar, JsonLevels
<1> HIDE DEF base
<1>6. Flat([n \in Nat |-> r[n]])
  <2> DEFINE h == [n \in Nat |-> r[n]]
  <2> SUFFICES ASSUME NEW n \in Nat
               PROVE  h[n] = [w \in Json[n] |-> FlatStep(h[n - 1], w)]
    OBVIOUS
  <2>1. CASE n = 0
    <3>1. h[n] = base
      BY <1>4, <2>1
    <3> HIDE DEF h
    <3>. QED  BY <1>5, <2>1, <3>1
  <2>2. CASE n # 0
    <3>1. PICK m \in Nat : n = m + 1 /\ n - 1 = m
      BY <2>2
    <3>2. h[n] = r[m + 1] /\ h[n - 1] = r[m]
      BY <3>1
    <3> HIDE DEF h
    <3>. QED  BY <1>4, <3>1, <3>2
  <2>. QED  BY <2>1, <2>2
<1>8. Flat(f)
  <2> HIDE DEF Flat
  <2> QED  BY <1>6 DEF f
<1>9. \A n \in Nat : f[n] = r[n]
  <2>1. f[0] = base
    BY <1>5, <1>8
  <2>2. ASSUME NEW n \in Nat, f[n] = r[n]
        PROVE  f[n + 1] = G[n][r[n]]
    <3>1. n + 1 \in Nat /\ (n + 1) - 1 = n
      OBVIOUS
    <3>2. f[n + 1] = [w \in Json[n + 1] |-> FlatStep(f[(n + 1) - 1], w)]
      BY <1>8, <3>1
    <3>. QED  BY <1>1, <1>4, <2>2, <3>1, <3>2
  <2>. QED  BY <1>3, <2>1, <2>2, OnlyRecursive
<1>10. \A w : FlattenRefs(w) = f[Depth][w]
  BY DEF FlattenRefs, FlatStep, f
<1>11. \A n \in Nat : \A w \in Scalars : r[n][w] = w
  <2> SUFFICES ASSUME NEW n \in Nat, NEW w \in Scalars
               PROVE  r[n][w] = w
    OBVIOUS
  <2>1. CASE n = 0
    BY <1>4, <2>1, JsonLevels DEF base
  <2>2. CASE n # 0
    <3>1. PICK m \in Nat : n = m + 1
      BY <2>2
    <3>2. r[m + 1][w] = FlatStep(r[m], w)
      BY <1>4, ScalarLevels, <3>1
    <3>. QED  BY <3>1, <3>2, FlatScalar
  <2>. QED  BY <2>1, <2>2
<1>12. OnLevels(r)
  BY <1>4, <1>7, <1>11 DEF OnLevels
<1>13. \A n \in Nat : \A w \in Json[n + 1] : r[n + 1][w] = FlatStep(r[n], w)
  BY <1>4
<1>14. \A w \in Json[Depth] : FlattenRefs(w) = r[Depth][w]
  BY <1>9, <1>10, DepthAssumption
<1>. QED  BY <1>12, <1>13, <1>14

FieldStep(names, g, w) == MapParts(g, WithoutFields(w, names))

\* _strip_fields makes a value that is nested no deeper.
LEMMA FieldStepType ==
  ASSUME NEW names, NEW n \in Nat, NEW g \in [Json[n] -> Json[n]], NEW w \in Json[n + 1]
  PROVE  FieldStep(names, g, w) \in Json[n + 1]
<1>1. Json[n + 1] = Up(Json[n])
  BY JsonLevels
<1>2. WithoutFields(w, names) \in Up(Json[n])
  BY <1>1, FieldsGone
<1>3. Maps(g, Json[n], Json[n])
  BY DEF Maps
<1>. QED  BY <1>1, <1>2, <1>3, Mapped DEF FieldStep

\* It leaves scalars alone.
LEMMA FieldScalar == \A names, g : \A w \in Scalars : FieldStep(names, g, w) = w
BY ScalarType DEF FieldStep, WithoutFields, MapParts

\* StripFields by levels: the fields go, then the parts that are left are stripped.
LEMMA StripFieldsLevels ==
  ASSUME NEW names
  PROVE
  \E r : /\ OnLevels(r)
         /\ \A n \in Nat : \A w \in Json[n + 1] : r[n + 1][w] = FieldStep(names, r[n], w)
         /\ \A w \in Json[Depth] : StripFields(w, names) = r[Depth][w]
<1> DEFINE Flat(h) == h = [n \in Nat |-> [w \in Json[n] |-> FieldStep(names, h[n - 1], w)]]
           X == [n \in Nat |-> [Json[n] -> Json[n]]]
           base == [w \in Json[0] |-> w]
           G == [n \in Nat |-> [g \in X[n] |-> [w \in Json[n + 1] |-> FieldStep(names, g, w)]]]
           f == CHOOSE h : Flat(h)
<1>1. \A n \in Nat : \A g \in X[n] : /\ G[n][g] = [w \in Json[n + 1] |-> FieldStep(names, g, w)]
                                     /\ G[n][g] \in X[n + 1]
  BY FieldStepType
<1>2. base \in X[0]
  OBVIOUS
<1>7. \A n \in Nat : X[n] = [Json[n] -> Json[n]]
  OBVIOUS
<1> HIDE DEF G, X, f
<1>3. PICK r : Recursive(r, X, base, G)
  <2> HIDE DEF base
  <2> QED  BY <1>1, <1>2, Recursion
<1>4. /\ r[0] = base
      /\ \A n \in Nat : r[n] \in X[n] /\ r[n + 1] = [w \in Json[n + 1] |-> FieldStep(names, r[n], w)]
  BY <1>1, <1>3 DEF Recursive
<1>5. \A g : [w \in Json[0] |-> FieldStep(names, g, w)] = base
  BY FieldScalar, JsonLevels
<1> HIDE DEF base
<1>6. Flat([n \in Nat |-> r[n]])
  <2> DEFINE h == [n \in Nat |-> r[n]]
  <2> SUFFICES ASSUME NEW n \in Nat
               PROVE  h[n] = [w \in Json[n] |-> FieldStep(names, h[n - 1], w)]
    OBVIOUS
  <2>1. CASE n = 0
    <3>1. h[n] = base
      BY <1>4, <2>1
    <3> HIDE DEF h
    <3>. QED  BY <1>5, <2>1, <3>1
  <2>2. CASE n # 0
    <3>1. PICK m \in Nat : n = m + 1 /\ n - 1 = m
      BY <2>2
    <3>2. h[n] = r[m + 1] /\ h[n - 1] = r[m]
      BY <3>1
    <3> HIDE DEF h
    <3>. QED  BY <1>4, <3>1, <3>2
  <2>. QED  BY <2>1, <2>2
<1>8. Flat(f)
  <2> HIDE DEF Flat
  <2> QED  BY <1>6 DEF f
<1>9. \A n \in Nat : f[n] = r[n]
  <2>1. f[0] = base
    BY <1>5, <1>8
  <2>2. ASSUME NEW n \in Nat, f[n] = r[n]
        PROVE  f[n + 1] = G[n][r[n]]
    <3>1. n + 1 \in Nat /\ (n + 1) - 1 = n
      OBVIOUS
    <3>2. f[n + 1] = [w \in Json[n + 1] |-> FieldStep(names, f[(n + 1) - 1], w)]
      BY <1>8, <3>1
    <3>. QED  BY <1>1, <1>4, <2>2, <3>1, <3>2
  <2>. QED  BY <1>3, <2>1, <2>2, OnlyRecursive
<1>10. \A w : StripFields(w, names) = f[Depth][w]
  BY DEF StripFields, FieldStep, f
<1>11. \A n \in Nat : \A w \in Scalars : r[n][w] = w
  <2> SUFFICES ASSUME NEW n \in Nat, NEW w \in Scalars
               PROVE  r[n][w] = w
    OBVIOUS
  <2>1. CASE n = 0
    BY <1>4, <2>1, JsonLevels DEF base
  <2>2. CASE n # 0
    <3>1. PICK m \in Nat : n = m + 1
      BY <2>2
    <3>2. r[m + 1][w] = FieldStep(names, r[m], w)
      BY <1>4, ScalarLevels, <3>1
    <3>. QED  BY <3>1, <3>2, FieldScalar
  <2>. QED  BY <2>1, <2>2
<1>12. OnLevels(r)
  BY <1>4, <1>7, <1>11 DEF OnLevels
<1>13. \A n \in Nat : \A w \in Json[n + 1] : r[n + 1][w] = FieldStep(names, r[n], w)
  BY <1>4
<1>14. \A w \in Json[Depth] : StripFields(w, names) = r[Depth][w]
  BY <1>9, <1>10, DepthAssumption
<1>. QED  BY <1>12, <1>13, <1>14

NullStep(g, w) == WithoutEmpties(MapParts(g, w))

\* _strip_nulls makes a value that is nested no deeper.
LEMMA NullStepType ==
  ASSUME NEW n \in Nat, NEW g \in [Json[n] -> Json[n]], NEW w \in Json[n + 1]
  PROVE  NullStep(g, w) \in Json[n + 1]
<1>1. Json[n + 1] = Up(Json[n])
  BY JsonLevels
<1>2. Maps(g, Json[n], Json[n])
  BY DEF Maps
<1>3. MapParts(g, w) \in Up(Json[n])
  BY <1>1, <1>2, Mapped
<1>. QED  BY <1>1, <1>3, EmptiesGone DEF NullStep

\* It leaves scalars alone.
LEMMA NullScalar == \A g : \A w \in Scalars : NullStep(g, w) = w
BY ScalarType DEF NullStep, WithoutEmpties, MapParts

\* StripNulls by levels: the parts are cleaned, then those that are empty go.
LEMMA StripNullsLevels ==
  \E r : /\ OnLevels(r)
         /\ \A n \in Nat : \A w \in Json[n + 1] : r[n + 1][w] = NullStep(r[n], w)
         /\ \A w \in Json[Depth] : StripNulls(w) = r[Depth][w]
<1> DEFINE Flat(h) == h = [n \in Nat |-> [w \in Json[n] |-> NullStep(h[n - 1], w)]]
           X == [n \in Nat |-> [Json[n] -> Json[n]]]
           base == [w \in Json[0] |-> w]
           G == [n \in Nat |-> [g \in X[n] |-> [w \in Json[n + 1] |-> NullStep(g, w)]]]
           f == CHOOSE h : Flat(h)
<1>1. \A n \in Nat : \A g \in X[n] : /\ G[n][g] = [w \in Json[n + 1] |-> NullStep(g, w)]
                                     /\ G[n][g] \in X[n + 1]
  BY NullStepType
<1>2. base \in X[0]
  OBVIOUS
<1>7. \A n \in Nat : X[n] = [Json[n] -> Json[n]]
  OBVIOUS
<1> HIDE DEF G, X, f
<1>3. PICK r : Recursive(r, X, base, G)
  <2> HIDE DEF base
  <2> QED  BY <1>1, <1>2, Recursion
<1>4. /\ r[0] = base
      /\ \A n \in Nat : r[n] \in X[n] /\ r[n + 1] = [w \in Json[n + 1] |-> NullStep(r[n], w)]
  BY <1>1, <1>3 DEF Recursive
<1>5. \A g : [w \in Json[0] |-> NullStep(g, w)] = base
  BY NullScalar, JsonLevels
<1> HIDE DEF base
<1>6. Flat([n \in Nat |-> r[n]])
  <2> DEFINE h == [n \in Nat |-> r[n]]
  <2> SUFFICES ASSUME NEW n \in Nat
               PROVE  h[n] = [w \in Json[n] |-> NullStep(h[n - 1], w)]
    OBVIOUS
  <2>1. CASE n = 0
    <3>1. h[n] = base
      BY <1>4, <2>1
    <3> HIDE DEF h
    <3>. QED  BY <1>5, <2>1, <3>1
  <2>2. CASE n # 0
    <3>1. PICK m \in Nat : n = m + 1 /\ n - 1 = m
      BY <2>2
    <3>2. h[n] = r[m + 1] /\ h[n - 1] = r[m]
      BY <3>1
    <3> HIDE DEF h
    <3>. QED  BY <1>4, <3>1, <3>2
  <2>. QED  BY <2>1, <2>2
<1>8. Flat(f)
  <2> HIDE DEF Flat
  <2> QED  BY <1>6 DEF f
<1>9. \A n \in Nat : f[n] = r[n]
  <2>1. f[0] = base
    BY <1>5, <1>8
  <2>2. ASSUME NEW n \in Nat, f[n] = r[n]
        PROVE  f[n + 1] = G[n][r[n]]
    <3>1. n + 1 \in Nat /\ (n + 1) - 1 = n
      OBVIOUS
    <3>2. f[n + 1] = [w \in Json[n + 1] |-> NullStep(f[(n + 1) - 1], w)]
      BY <1>8, <3>1
    <3>. QED  BY <1>1, <1>4, <2>2, <3>1, <3>2
  <2>. QED  BY <1>3, <2>1, <2>2, OnlyRecursive
<1>10. \A w : StripNulls(w) = f[Depth][w]
  BY DEF StripNulls, NullStep, f
<1>11. \A n \in Nat : \A w \in Scalars : r[n][w] = w
  <2> SUFFICES ASSUME NEW n \in Nat, NEW w \in Scalars
               PROVE  r[n][w] = w
    OBVIOUS
  <2>1. CASE n = 0
    BY <1>4, <2>1, JsonLevels DEF base
  <2>2. CASE n # 0
    <3>1. PICK m \in Nat : n = m + 1
      BY <2>2
    <3>2. r[m + 1][w] = NullStep(r[m], w)
      BY <1>4, ScalarLevels, <3>1
    <3>. QED  BY <3>1, <3>2, NullScalar
  <2>. QED  BY <2>1, <2>2
<1>12. OnLevels(r)
  BY <1>4, <1>7, <1>11 DEF OnLevels
<1>13. \A n \in Nat : \A w \in Json[n + 1] : r[n + 1][w] = NullStep(r[n], w)
  BY <1>4
<1>14. \A w \in Json[Depth] : StripNulls(w) = r[Depth][w]
  BY <1>9, <1>10, DepthAssumption
<1>. QED  BY <1>12, <1>13, <1>14

Nested == UNION {Json[n] : n \in Nat}

InStep(g, w) == Parts(w) \cup UNION {g[p] : p \in Parts(w)}

\* What is inside a value is nested.
LEMMA InStepType ==
  ASSUME NEW n \in Nat, NEW g \in [Json[n] -> SUBSET Nested], NEW w \in Json[n + 1]
  PROVE  InStep(g, w) \in SUBSET Nested
<1> DEFINE id == [p \in Json[n] |-> p]
<1>1. Maps(id, Json[n], Json[n])
  BY DEF Maps
<1>2. Json[n + 1] = Up(Json[n])
  BY JsonLevels
<1> HIDE DEF id
<1>3. Parts(w) \subseteq Json[n]
  BY <1>1, <1>2, Mapped
<1>4. Json[n] \subseteq Nested
  BY DEF Nested
<1>. QED  BY <1>3, <1>4 DEF InStep

\* Nothing is inside a scalar.
LEMMA InScalar == \A g : \A w \in Scalars : InStep(g, w) = {}
BY ScalarType DEF InStep, Parts

\* Inside by levels: the parts, and what is inside them.
LEMMA InsideLevels ==
  \E r : /\ \A n \in Nat : \A w \in Scalars : r[n][w] = {}
         /\ \A n \in Nat : \A w \in Json[n + 1] : r[n + 1][w] = InStep(r[n], w)
         /\ \A w \in Json[Depth] : Inside(w) = r[Depth][w]
<1> DEFINE Flat(h) == h = [n \in Nat |-> [w \in Json[n] |-> InStep(h[n - 1], w)]]
           X == [n \in Nat |-> [Json[n] -> SUBSET Nested]]
           base == [w \in Json[0] |-> {}]
           G == [n \in Nat |-> [g \in X[n] |-> [w \in Json[n + 1] |-> InStep(g, w)]]]
           f == CHOOSE h : Flat(h)
<1>1. \A n \in Nat : \A g \in X[n] : /\ G[n][g] = [w \in Json[n + 1] |-> InStep(g, w)]
                                     /\ G[n][g] \in X[n + 1]
  BY InStepType
<1>2. base \in X[0]
  OBVIOUS
<1> HIDE DEF G, X, f
<1>3. PICK r : Recursive(r, X, base, G)
  <2> HIDE DEF base
  <2> QED  BY <1>1, <1>2, Recursion
<1>4. /\ r[0] = base
      /\ \A n \in Nat : r[n] \in X[n] /\ r[n + 1] = [w \in Json[n + 1] |-> InStep(r[n], w)]
  BY <1>1, <1>3 DEF Recursive
<1>5. \A g : [w \in Json[0] |-> InStep(g, w)] = base
  BY InScalar, JsonLevels
<1> HIDE DEF base
<1>6. Flat([n \in Nat |-> r[n]])
  <2> DEFINE h == [n \in Nat |-> r[n]]
  <2> SUFFICES ASSUME NEW n \in Nat
               PROVE  h[n] = [w \in Json[n] |-> InStep(h[n - 1], w)]
    OBVIOUS
  <2>1. CASE n = 0
    <3>1. h[n] = base
      BY <1>4, <2>1
    <3> HIDE DEF h
    <3>. QED  BY <1>5, <2>1, <3>1
  <2>2. CASE n # 0
    <3>1. PICK m \in Nat : n = m + 1 /\ n - 1 = m
      BY <2>2
    <3>2. h[n] = r[m + 1] /\ h[n - 1] = r[m]
      BY <3>1
    <3> HIDE DEF h
    <3>. QED  BY <1>4, <3>1, <3>2
  <2>. QED  BY <2>1, <2>2
<1>8. Flat(f)
  <2> HIDE DEF Flat
  <2> QED  BY <1>6 DEF f
<1>9. \A n \in Nat : f[n] = r[n]
  <2>1. f[0] = base
    BY <1>5, <1>8
  <2>2. ASSUME NEW n \in Nat, f[n] = r[n]
        PROVE  f[n + 1] = G[n][r[n]]
    <3>1. n + 1 \in Nat /\ (n + 1) - 1 = n
      OBVIOUS
    <3>2. f[n + 1] = [w \in Json[n + 1] |-> InStep(f[(n + 1) - 1], w)]
      BY <1>8, <3>1
    <3>. QED  BY <1>1, <1>4, <2>2, <3>1, <3>2
  <2>. QED  BY <1>3, <2>1, <2>2, OnlyRecursive
<1>10. \A w : Inside(w) = f[Depth][w]
  BY DEF Inside, InStep, f
<1>11. \A n \in Nat : \A w \in Scalars : r[n][w] = {}
  <2> SUFFICES ASSUME NEW n \in Nat, NEW w \in Scalars
               PROVE  r[n][w] = {}
    OBVIOUS
  <2>1. CASE n = 0
    BY <1>4, <2>1, JsonLevels DEF base
  <2>2. CASE n # 0
    <3>1. PICK m \in Nat : n = m + 1
      BY <2>2
    <3>2. r[m + 1][w] = InStep(r[m], w)
      BY <1>4, ScalarLevels, <3>1
    <3>. QED  BY <3>1, <3>2, InScalar
  <2>. QED  BY <2>1, <2>2
<1>13. \A n \in Nat : \A w \in Json[n + 1] : r[n + 1][w] = InStep(r[n], w)
  BY <1>4
<1>14. \A w \in Json[Depth] : Inside(w) = r[Depth][w]
  BY <1>9, <1>10, DepthAssumption
<1>. QED  BY <1>11, <1>13, <1>14

Pairs == (SUBSET STRING) \X Scalars

\* What a scalar holds.
Kept(w) == {<<{}, s>> : s \in {w} \ {Null, Text("")}}

ContentStep(flatten, g, w) ==
  LET u == IF flatten /\ IsRef(w) THEN At(w, "descriptor") ELSE w IN
  CASE u.type = "dict" -> UNION {Below({f[1]}, g[f[2]]) : f \in u.fields}
    [] u.type = "list" -> UNION {g[p] : p \in Parts(u)}
    [] OTHER -> {<<{}, s>> : s \in {u} \ {Null, Text("")}}

\* The content of a scalar is the scalar, unless it is empty.
LEMMA ContentScalar == \A flatten, g : \A w \in Scalars : ContentStep(flatten, g, w) = Kept(w)
BY ScalarType DEF ContentStep, IsRef, Kept

\* It is a pair of keys and a scalar.
LEMMA KeptPairs == \A w \in Scalars : Kept(w) \in SUBSET Pairs
<1> SUFFICES ASSUME NEW w \in Scalars
             PROVE  Kept(w) \subseteq Pairs
  OBVIOUS
<1>1. {} \in SUBSET STRING
  OBVIOUS
<1>2. <<{}, w>> \in Pairs
  BY <1>1 DEF Pairs
<1>3. Kept(w) \subseteq {<<{}, w>>}
  BY DEF Kept
<1>. QED  BY <1>2, <1>3

\* The content of a reference, where references are scalars, is its descriptor.
LEMMA ContentRef ==
  ASSUME NEW n \in Nat, NEW g, NEW w \in Json[n + 1], IsRef(w)
  PROVE  At(w, "descriptor") \in Scalars /\ ContentStep(TRUE, g, w) = Kept(At(w, "descriptor"))
<1>1. At(w, "descriptor") \in Json[n] /\ At(w, "descriptor").type = "text"
  BY JsonLevels, Descriptor
<1>2. At(w, "descriptor") \in Scalars
  BY <1>1, ScalarLevels
<1>. QED  BY <1>1, <1>2 DEF ContentStep, Kept

\* A content is a set of pairs of keys and a scalar.
LEMMA ContentStepType ==
  ASSUME NEW flatten, NEW n \in Nat,
         NEW g \in [Json[n] -> SUBSET Pairs], NEW w \in Json[n + 1]
  PROVE  ContentStep(flatten, g, w) \in SUBSET Pairs
<1>1. w \in Up(Json[n])
  BY JsonLevels
<1>2. CASE flatten /\ IsRef(w)
  <2>1. At(w, "descriptor") \in Scalars /\ At(w, "descriptor").type = "text"
    BY <1>1, <1>2, Descriptor, ContentRef
  <2>2. ContentStep(flatten, g, w) = Kept(At(w, "descriptor"))
    BY <1>2, <2>1 DEF ContentStep, Kept
  <2>. QED  BY <2>1, <2>2, KeptPairs
<1>3. CASE ~(flatten /\ IsRef(w)) /\ w.type = "dict"
  <2>1. w.fields \subseteq STRING \X Json[n]
    BY <1>1, <1>3, Kinds
  <2>2. ASSUME NEW f \in w.fields
        PROVE  Below({f[1]}, g[f[2]]) \in SUBSET Pairs
    <3>1. f[1] \in STRING /\ g[f[2]] \in SUBSET Pairs
      BY <2>1
    <3>. QED  BY <3>1 DEF Below, Pairs
  <2>3. ContentStep(flatten, g, w) = UNION {Below({f[1]}, g[f[2]]) : f \in w.fields}
    BY <1>3 DEF ContentStep
  <2>4. UNION {Below({f[1]}, g[f[2]]) : f \in w.fields} \in SUBSET Pairs
    BY <2>2
  <2>. QED  BY <2>3, <2>4
<1>4. CASE ~(flatten /\ IsRef(w)) /\ w.type = "list"
  <2>1. w = List(w.items) /\ w.items \in Seq(Json[n])
    BY <1>1, <1>4, Kinds
  <2>2. Parts(w) \subseteq Json[n]
    BY <2>1, ListType
  <2>3. ContentStep(flatten, g, w) = UNION {g[p] : p \in Parts(w)}
    BY <1>4 DEF ContentStep
  <2>. QED  BY <2>2, <2>3
<1>5. CASE ~(flatten /\ IsRef(w)) /\ w.type \notin {"list", "dict"}
  <2>1. w \in Scalars
    BY <1>5, ScalarLevels
  <2>. QED  BY <2>1, ContentScalar, KeptPairs
<1>. QED  BY <1>2, <1>3, <1>4, <1>5

\* Content by levels: that of the parts, under their keys.
LEMMA ContentLevels ==
  ASSUME NEW flatten
  PROVE
  \E r : /\ \A n \in Nat : \A w \in Scalars : r[n][w] = Kept(w)
         /\ \A n \in Nat : \A w \in Json[n + 1] : r[n + 1][w] = ContentStep(flatten, r[n], w)
         /\ \A w \in Json[Depth] : Content(w, flatten) = r[Depth][w]
<1> DEFINE Flat(h) == h = [n \in Nat |-> [w \in Json[n] |-> ContentStep(flatten, h[n - 1], w)]]
           X == [n \in Nat |-> [Json[n] -> SUBSET Pairs]]
           base == [w \in Json[0] |-> Kept(w)]
           G == [n \in Nat |-> [g \in X[n] |-> [w \in Json[n + 1] |-> ContentStep(flatten, g, w)]]]
           f == CHOOSE h : Flat(h)
<1>1. \A n \in Nat : \A g \in X[n] : /\ G[n][g] = [w \in Json[n + 1] |-> ContentStep(flatten, g, w)]
                                     /\ G[n][g] \in X[n + 1]
  BY ContentStepType
<1>2. base \in X[0]
  <2>1. \A w \in Json[0] : Kept(w) \in SUBSET Pairs
    BY JsonLevels, KeptPairs
  <2>. QED  BY <2>1
<1> HIDE DEF G, X, f
<1>3. PICK r : Recursive(r, X, base, G)
  <2> HIDE DEF base
  <2> QED  BY <1>1, <1>2, Recursion
<1>4. /\ r[0] = base
      /\ \A n \in Nat : r[n] \in X[n] /\ r[n + 1] = [w \in Json[n + 1] |-> ContentStep(flatten, r[n], w)]
  BY <1>1, <1>3 DEF Recursive
<1>5. \A g : [w \in Json[0] |-> ContentStep(flatten, g, w)] = base
  BY ContentScalar, JsonLevels
<1> HIDE DEF base
<1>6. Flat([n \in Nat |-> r[n]])
  <2> DEFINE h == [n \in Nat |-> r[n]]
  <2> SUFFICES ASSUME NEW n \in Nat
               PROVE  h[n] = [w \in Json[n] |-> ContentStep(flatten, h[n - 1], w)]
    OBVIOUS
  <2>1. CASE n = 0
    <3>1. h[n] = base
      BY <1>4, <2>1
    <3> HIDE DEF h
    <3>. QED  BY <1>5, <2>1, <3>1
  <2>2. CASE n # 0
    <3>1. PICK m \in Nat : n = m + 1 /\ n - 1 = m
      BY <2>2
    <3>2. h[n] = r[m + 1] /\ h[n - 1] = r[m]
      BY <3>1
    <3> HIDE DEF h
    <3>. QED  BY <1>4, <3>1, <3>2
  <2>. QED  BY <2>1, <2>2
<1>8. Flat(f)
  <2> HIDE DEF Flat
  <2> QED  BY <1>6 DEF f
<1>9. \A n \in Nat : f[n] = r[n]
  <2>1. f[0] = base
    BY <1>5, <1>8
  <2>2. ASSUME NEW n \in Nat, f[n] = r[n]
        PROVE  f[n + 1] = G[n][r[n]]
    <3>1. n + 1 \in Nat /\ (n + 1) - 1 = n
      OBVIOUS
    <3>2. f[n + 1] = [w \in Json[n + 1] |-> ContentStep(flatten, f[(n + 1) - 1], w)]
      BY <1>8, <3>1
    <3>. QED  BY <1>1, <1>4, <2>2, <3>1, <3>2
  <2>. QED  BY <1>3, <2>1, <2>2, OnlyRecursive
<1>10. \A w : Content(w, flatten) = f[Depth][w]
  BY DEF Content, ContentStep, f
<1>11. \A n \in Nat : \A w \in Scalars : r[n][w] = Kept(w)
  <2> SUFFICES ASSUME NEW n \in Nat, NEW w \in Scalars
               PROVE  r[n][w] = Kept(w)
    OBVIOUS
  <2>1. CASE n = 0
    BY <1>4, <2>1, JsonLevels DEF base
  <2>2. CASE n # 0
    <3>1. PICK m \in Nat : n = m + 1
      BY <2>2
    <3>2. r[m + 1][w] = ContentStep(flatten, r[m], w)
      BY <1>4, ScalarLevels, <3>1
    <3>. QED  BY <3>1, <3>2, ContentScalar
  <2>. QED  BY <2>1, <2>2
<1>13. \A n \in Nat : \A w \in Json[n + 1] : r[n + 1][w] = ContentStep(flatten, r[n], w)
  BY <1>4
<1>14. \A w \in Json[Depth] : Content(w, flatten) = r[Depth][w]
  BY <1>9, <1>10, DepthAssumption
<1>. QED  BY <1>11, <1>13, <1>14

-----------------------------------------------------------------------------
(* What the transformations do to the content of a value.                   *)

\* c has the content of values by their levels.
HasContent(c, flatten) ==
  /\ \A n \in Nat : \A w \in Scalars : c[n][w] = Kept(w)
  /\ \A n \in Nat : \A w \in Json[n + 1] : c[n + 1][w] = ContentStep(flatten, c[n], w)
  /\ \A w \in Json[Depth] : Content(w, flatten) = c[Depth][w]

\* Where references are dicts like others, and where they are scalars.
PlainContent(w) == Content(w, FALSE)
PlainStep(c, w) == ContentStep(FALSE, c, w)
RefStep(c, w) == ContentStep(TRUE, c, w)

\* The content of a dict is that of its fields, under their keys.
LEMMA ContentOfDict ==
  ASSUME NEW c, NEW w, w.type = "dict"
  PROVE  PlainStep(c, w) = UNION {Below({f[1]}, c[f[2]]) : f \in w.fields}
BY DEF PlainStep, ContentStep

\* The content of a list is that of its items.
LEMMA ContentOfList ==
  ASSUME NEW c, NEW w, w.type = "list"
  PROVE  PlainStep(c, w) = UNION {c[p] : p \in Parts(w)}
BY DEF PlainStep, ContentStep

\* The content of a scalar is what it holds.
LEMMA ContentOfOther ==
  ASSUME NEW c, NEW w, w.type \notin {"list", "dict"}
  PROVE  PlainStep(c, w) = Kept(w)
BY DEF PlainStep, ContentStep, Kept

\* What g makes of a value has in c what the value has in d.
Agree(S, g, c, d) == \A p \in S : c[g[p]] = d[p]

\* The content of a value is that of its parts.
LEMMA ContentMapped ==
  ASSUME NEW S, NEW g, NEW c, NEW d, NEW w \in Up(S), Agree(S, g, c, d)
  PROVE  PlainStep(c, MapParts(g, w)) = PlainStep(d, w)
<1> USE DEF Agree
<1> DEFINE m == MapParts(g, w)
           T == {g[p] : p \in S}
<1>0. Maps(g, S, T)
  BY DEF Maps
<1> HIDE DEF T
<1>1. /\ m \in Up(T)
      /\ m.type = w.type
      /\ Parts(w) \subseteq S
      /\ Parts(m) = {g[p] : p \in Parts(w)}
      /\ w.type \notin {"list", "dict"} => m = w
      /\ w.type = "dict" => m.fields = {<<f[1], g[f[2]]>> : f \in w.fields}
  BY <1>0, Mapped
<1> HIDE DEF m
<1>2. CASE w.type = "dict"
  <2>1. w.fields \subseteq STRING \X S
    BY <1>2, Kinds
  <2>2. PlainStep(c, m) = UNION {Below({f[1]}, c[f[2]]) : f \in m.fields}
    BY <1>1, <1>2, ContentOfDict
  <2>3. PlainStep(d, w) = UNION {Below({f[1]}, d[f[2]]) : f \in w.fields}
    BY <1>2, ContentOfDict
  <2>4. ASSUME NEW f \in w.fields
        PROVE  /\ <<f[1], g[f[2]]>> \in m.fields
               /\ Below({f[1]}, c[g[f[2]]]) = Below({f[1]}, d[f[2]])
    BY <1>1, <1>2, <2>1
  <2>5. ASSUME NEW h \in m.fields
        PROVE  \E f \in w.fields : h = <<f[1], g[f[2]]>>
    BY <1>1, <1>2
  <2>6. ASSUME NEW f \in w.fields
        PROVE  Below({f[1]}, d[f[2]]) \in {Below({h[1]}, c[h[2]]) : h \in m.fields}
    <3> DEFINE h == <<f[1], g[f[2]]>>
    <3>1. h \in m.fields /\ h[1] = f[1] /\ h[2] = g[f[2]]
      BY <2>4
    <3> HIDE DEF h
    <3>. QED  BY <2>4, <3>1
  <2>7. ASSUME NEW h \in m.fields
        PROVE  Below({h[1]}, c[h[2]]) \in {Below({f[1]}, d[f[2]]) : f \in w.fields}
    <3>1. PICK f \in w.fields : h = <<f[1], g[f[2]]>>
      BY <2>5
    <3>2. h[1] = f[1] /\ h[2] = g[f[2]]
      BY <3>1
    <3>. QED  BY <2>4, <3>2
  <2>8. {Below({h[1]}, c[h[2]]) : h \in m.fields} = {Below({f[1]}, d[f[2]]) : f \in w.fields}
    BY <2>6, <2>7
  <2>. QED  BY <2>2, <2>3, <2>8 DEF m
<1>3. CASE w.type = "list"
  <2>1. PlainStep(c, m) = UNION {c[p] : p \in Parts(m)}
    BY <1>1, <1>3, ContentOfList
  <2>2. PlainStep(d, w) = UNION {d[p] : p \in Parts(w)}
    BY <1>3, ContentOfList
  <2>3. {c[p] : p \in Parts(m)} = {d[p] : p \in Parts(w)}
    <3>1. ASSUME NEW p \in Parts(w)
          PROVE  d[p] \in {c[q] : q \in Parts(m)}
      <4>1. g[p] \in Parts(m) /\ c[g[p]] = d[p]
        BY <1>1
      <4>. QED  BY <4>1
    <3>2. ASSUME NEW q \in Parts(m)
          PROVE  c[q] \in {d[p] : p \in Parts(w)}
      <4>1. PICK p \in Parts(w) : q = g[p]
        BY <1>1
      <4>. QED  BY <1>1, <4>1
    <3>. QED  BY <3>1, <3>2
  <2>. QED  BY <2>1, <2>2, <2>3 DEF m
<1>4. CASE w.type \notin {"list", "dict"}
  BY <1>1, <1>4, ContentOfOther DEF m
<1>. QED  BY <1>2, <1>3, <1>4

\* A flattened value has the content of the value with its references as scalars.
LEMMA ContentFlattened ==
  \A w \in Json[Depth] : PlainContent(FlattenRefs(w)) = Content(w, TRUE)
<1>1. PICK r : /\ OnLevels(r)
               /\ \A n \in Nat : \A w \in Json[n + 1] : r[n + 1][w] = FlatStep(r[n], w)
               /\ \A w \in Json[Depth] : FlattenRefs(w) = r[Depth][w]
  BY FlattenLevels
<1>2. PICK c : HasContent(c, FALSE)
  BY ContentLevels DEF HasContent
<1>3. PICK d : HasContent(d, TRUE)
  BY ContentLevels DEF HasContent
<1>8. /\ \A n \in Nat : \A w \in Scalars : c[n][w] = Kept(w)
      /\ \A n \in Nat : \A w \in Json[n + 1] : c[n + 1][w] = PlainStep(c[n], w)
  BY <1>2 DEF HasContent, PlainStep
<1> DEFINE P == {n \in Nat : \A w \in Json[n] : c[n][r[n][w]] = d[n][w]}
<1>4. 0 \in P
  BY <1>1, <1>2, <1>3, JsonLevels DEF OnLevels, HasContent
<1>5. ASSUME NEW n \in P
      PROVE  n + 1 \in P
  <2>0. n \in Nat /\ \A w \in Json[n] : c[n][r[n][w]] = d[n][w]
    OBVIOUS
  <2> HIDE DEF P
  <2>1. SUFFICES ASSUME NEW w \in Json[n + 1]
                 PROVE  c[n + 1][r[n + 1][w]] = d[n + 1][w]
    BY <2>0 DEF P
  <2>2. /\ r[n + 1][w] \in Json[n + 1] /\ r[n + 1][w] = FlatStep(r[n], w)
        /\ \A p \in Json[n] : r[n][p] \in Json[n]
    BY <1>1, <2>0 DEF OnLevels
  <2>3. d[n + 1][w] = RefStep(d[n], w)
    BY <1>3, <2>0 DEF HasContent, RefStep
  <2>4. CASE IsRef(w)
    <3>1. /\ At(w, "descriptor") \in Scalars
          /\ RefStep(d[n], w) = Kept(At(w, "descriptor"))
      BY <2>0, <2>4, ContentRef DEF RefStep
    <3>2. r[n + 1][w] = At(w, "descriptor")
      BY <2>2, <2>4 DEF FlatStep
    <3>3. n + 1 \in Nat
      BY <2>0
    <3>. QED  BY <1>8, <2>3, <3>1, <3>2, <3>3
  <2>5. CASE ~IsRef(w)
    <3>1. r[n + 1][w] = MapParts(r[n], w)
      BY <2>2, <2>5 DEF FlatStep
    <3>2. c[n + 1][r[n + 1][w]] = PlainStep(c[n], MapParts(r[n], w))
      BY <1>8, <2>0, <2>2, <3>1
    <3>3. RefStep(d[n], w) = PlainStep(d[n], w)
      BY <2>5 DEF PlainStep, RefStep, ContentStep
    <3>4. w \in Up(Json[n])
      BY <2>0, JsonLevels
    <3>5. PlainStep(c[n], MapParts(r[n], w)) = PlainStep(d[n], w)
      <4>1. Agree(Json[n], r[n], c[n], d[n])
        BY <2>0 DEF Agree
      <4>. QED  BY <3>4, <4>1, ContentMapped
    <3>. QED  BY <2>3, <3>2, <3>3, <3>5
  <2>. QED  BY <2>4, <2>5
<1>6. P = Nat
  <2> HIDE DEF P
  <2> P \subseteq Nat  BY DEF P
  <2> QED  BY <1>4, <1>5, NatInduct
<1>7. \A w \in Json[Depth] : c[Depth][r[Depth][w]] = d[Depth][w] /\ r[Depth][w] \in Json[Depth]
  BY <1>1, <1>6, DepthAssumption DEF OnLevels
<1>. QED  BY <1>1, <1>2, <1>3, <1>7 DEF HasContent, PlainContent

\* The content with none of the names among its keys.
Bare(content, names) == {x \in content : x[1] \cap names = {}}

\* The content of a scalar has no keys.
LEMMA KeptBare == \A w, names : Bare(Kept(w), names) = Kept(w)
<1> SUFFICES ASSUME NEW w, NEW names, NEW x \in Kept(w)
             PROVE  x[1] \cap names = {}
  BY DEF Bare
<1>1. PICK s : x = <<{}, s>>
  BY DEF Kept
<1>2. x[1] = {}
  BY <1>1
<1>. QED  BY <1>2

\* A content that is one key deeper.
Under(k, content) == Below({k}, content)

\* What is under a key that is to be stripped goes, what is under another is
\* stripped itself.
LEMMA UnderBare ==
  ASSUME NEW k, NEW content, NEW names
  PROVE  /\ k \in names => Bare(Under(k, content), names) = {}
         /\ k \notin names => Bare(Under(k, content), names) = Under(k, Bare(content, names))
BY DEF Bare, Below, Under

\* The content of a value without the fields with these names.
LEMMA ContentBare ==
  ASSUME NEW S, NEW w \in Up(S), NEW names, NEW c, NEW d,
         \A p \in S : d[p] = Bare(c[p], names)
  PROVE  PlainStep(d, WithoutFields(w, names)) = Bare(PlainStep(c, w), names)
<1> DEFINE u == WithoutFields(w, names)
<1>1. /\ u.type = w.type
      /\ w.type # "dict" => u = w
      /\ w.type = "dict" => u.fields = {f \in w.fields : f[1] \notin names}
  BY FieldsGone
<1> HIDE DEF u
<1>2. CASE w.type = "dict"
  <2>1. \A f \in w.fields : f[2] \in S
    BY <1>2, Kinds
  <2>2. PlainStep(d, u) = UNION {Below({f[1]}, d[f[2]]) : f \in u.fields}
    BY <1>1, <1>2, ContentOfDict
  <2>3. PlainStep(c, w) = UNION {Below({f[1]}, c[f[2]]) : f \in w.fields}
    BY <1>2, ContentOfDict
  <2>4. ASSUME NEW f \in w.fields
        PROVE  /\ f \in u.fields => Below({f[1]}, d[f[2]]) = Bare(Below({f[1]}, c[f[2]]), names)
               /\ f \notin u.fields => Bare(Below({f[1]}, c[f[2]]), names) = {}
    <3>1. d[f[2]] = Bare(c[f[2]], names) /\ (f \in u.fields <=> f[1] \notin names)
      BY <1>1, <1>2, <2>1
    <3> DEFINE k == f[1]
               e == c[f[2]]
    <3> HIDE DEF k, e
    <3>2. /\ k \in names => Bare(Under(k, e), names) = {}
          /\ k \notin names => Bare(Under(k, e), names) = Under(k, Bare(e, names))
      BY UnderBare
    <3>. QED  BY <3>1, <3>2 DEF k, e, Under
  <2>5. u.fields \subseteq w.fields
    BY <1>1, <1>2
  <2>6. ASSUME NEW x \in PlainStep(d, u)
        PROVE  x \in Bare(PlainStep(c, w), names)
    <3>1. PICK f \in u.fields : x \in Below({f[1]}, d[f[2]])
      BY <2>2
    <3>2. x \in Bare(Below({f[1]}, c[f[2]]), names)
      BY <2>4, <2>5, <3>1
    <3>. QED  BY <2>3, <2>5, <3>2 DEF Bare
  <2>7. ASSUME NEW x \in Bare(PlainStep(c, w), names)
        PROVE  x \in PlainStep(d, u)
    <3>1. PICK f \in w.fields : x \in Below({f[1]}, c[f[2]])
      BY <2>3 DEF Bare
    <3>2. x \in Bare(Below({f[1]}, c[f[2]]), names)
      BY <3>1 DEF Bare
    <3>3. f \in u.fields /\ x \in Below({f[1]}, d[f[2]])
      BY <2>4, <3>2
    <3>. QED  BY <2>2, <3>3
  <2>. QED  BY <2>6, <2>7 DEF u
<1>3. CASE w.type = "list"
  <2>1. w = List(w.items) /\ w.items \in Seq(S)
    BY <1>3, Kinds
  <2>2. \A p \in Parts(w) : p \in S
    BY <2>1, ListType
  <2>3. PlainStep(d, u) = UNION {d[p] : p \in Parts(w)}
    BY <1>1, <1>3, ContentOfList
  <2>4. PlainStep(c, w) = UNION {c[p] : p \in Parts(w)}
    BY <1>3, ContentOfList
  <2>5. \A p \in Parts(w) : d[p] = Bare(c[p], names)
    BY <2>2
  <2>6. ASSUME NEW x \in PlainStep(d, u)
        PROVE  x \in Bare(PlainStep(c, w), names)
    BY <2>3, <2>4, <2>5 DEF Bare
  <2>7. ASSUME NEW x \in Bare(PlainStep(c, w), names)
        PROVE  x \in PlainStep(d, u)
    BY <2>3, <2>4, <2>5 DEF Bare
  <2>. QED  BY <2>6, <2>7 DEF u
<1>4. CASE w.type \notin {"list", "dict"}
  <2>1. PlainStep(d, u) = Kept(w) /\ PlainStep(c, w) = Kept(w)
    BY <1>1, <1>4, ContentOfOther
  <2>. QED  BY <2>1, KeptBare DEF u
<1>. QED  BY <1>2, <1>3, <1>4

\* A value without fields has the content that is not under their names.
LEMMA ContentStripped ==
  ASSUME NEW names
  PROVE  \A w \in Json[Depth] :
           PlainContent(StripFields(w, names)) = Bare(PlainContent(w), names)
<1>1. PICK r : /\ OnLevels(r)
               /\ \A n \in Nat : \A w \in Json[n + 1] : r[n + 1][w] = FieldStep(names, r[n], w)
               /\ \A w \in Json[Depth] : StripFields(w, names) = r[Depth][w]
  BY StripFieldsLevels
<1>2. PICK c : HasContent(c, FALSE)
  BY ContentLevels DEF HasContent
<1>3. /\ \A n \in Nat : \A w \in Scalars : c[n][w] = Kept(w)
      /\ \A n \in Nat : \A w \in Json[n + 1] : c[n + 1][w] = PlainStep(c[n], w)
  BY <1>2 DEF HasContent, PlainStep
<1> DEFINE P == {n \in Nat : \A w \in Json[n] : c[n][r[n][w]] = Bare(c[n][w], names)}
<1>4. 0 \in P
  <2> SUFFICES ASSUME NEW w \in Scalars
               PROVE  c[0][r[0][w]] = Bare(c[0][w], names)
    BY JsonLevels
  <2>1. r[0][w] = w /\ c[0][w] = Kept(w)
    BY <1>1, <1>3 DEF OnLevels
  <2>. QED  BY <2>1, KeptBare
<1>5. ASSUME NEW n \in P
      PROVE  n + 1 \in P
  <2>0. n \in Nat /\ \A w \in Json[n] : c[n][r[n][w]] = Bare(c[n][w], names)
    OBVIOUS
  <2> HIDE DEF P
  <2>1. SUFFICES ASSUME NEW w \in Json[n + 1]
                 PROVE  c[n + 1][r[n + 1][w]] = Bare(c[n + 1][w], names)
    BY <2>0 DEF P
  <2> DEFINE u == WithoutFields(w, names)
             d == [p \in Json[n] |-> Bare(c[n][p], names)]
  <2>2. /\ r[n + 1][w] \in Json[n + 1]
        /\ r[n + 1][w] = MapParts(r[n], u)
    BY <1>1, <2>0 DEF OnLevels, FieldStep
  <2>3. w \in Up(Json[n]) /\ u \in Up(Json[n])
    BY <2>0, JsonLevels, FieldsGone
  <2>4. Agree(Json[n], r[n], c[n], d)
    BY <2>0 DEF Agree
  <2>5. \A p \in Json[n] : d[p] = Bare(c[n][p], names)
    OBVIOUS
  <2> HIDE DEF u, d
  <2>6. c[n + 1][r[n + 1][w]] = PlainStep(c[n], MapParts(r[n], u))
    BY <1>3, <2>0, <2>2
  <2>7. PlainStep(c[n], MapParts(r[n], u)) = PlainStep(d, u)
    BY <2>3, <2>4, ContentMapped
  <2>8. PlainStep(d, u) = Bare(PlainStep(c[n], w), names)
    BY <2>3, <2>5, ContentBare DEF u
  <2>. QED  BY <1>3, <2>0, <2>6, <2>7, <2>8
<1>6. P = Nat
  <2> HIDE DEF P
  <2> P \subseteq Nat  BY DEF P
  <2> QED  BY <1>4, <1>5, NatInduct
<1>7. \A w \in Json[Depth] : /\ c[Depth][r[Depth][w]] = Bare(c[Depth][w], names)
                             /\ r[Depth][w] \in Json[Depth]
  BY <1>1, <1>6, DepthAssumption DEF OnLevels
<1>8. \A w \in Json[Depth] : PlainContent(w) = c[Depth][w]
  BY <1>2 DEF HasContent, PlainContent
<1>. QED  BY <1>1, <1>7, <1>8

\* An empty value has no content.
LEMMA EmptyContent ==
  ASSUME NEW c, HasContent(c, FALSE), NEW n \in Nat, NEW p \in Json[n], IsEmpty(p)
  PROVE  c[n][p] = {}
<1>1. /\ \A m \in Nat : \A w \in Scalars : c[m][w] = Kept(w)
      /\ \A m \in Nat : \A w \in Json[m + 1] : c[m + 1][w] = PlainStep(c[m], w)
  BY DEF HasContent, PlainStep
<1>2. CASE p \in {Null, Text("")}
  <2>1. p \in Scalars
    <3>1. Null \in Scalars
      BY DEF Scalars, Null
    <3>2. Text("") \in Scalars
      BY DEF Scalars, Text, Words
    <3>. QED  BY <1>2, <3>1, <3>2
  <2>2. Kept(p) = {}
    BY <1>2 DEF Kept
  <2>. QED  BY <1>1, <2>1, <2>2
<1>3. CASE p.type \in {"list", "dict"} /\ Parts(p) = {}
  <2>1. n # 0
    BY <1>3, JsonLevels, ScalarType
  <2>2. PICK m \in Nat : n = m + 1
    <3>1. n - 1 \in Nat /\ n = (n - 1) + 1
      BY <2>1
    <3>. QED  BY <3>1
  <2>3. c[n][p] = PlainStep(c[m], p)
    BY <1>1, <2>2
  <2>4. CASE p.type = "list"
    <3>1. PlainStep(c[m], p) = UNION {c[m][q] : q \in Parts(p)}
      BY <2>4, ContentOfList
    <3>. QED  BY <1>3, <2>3, <3>1
  <2>5. CASE p.type = "dict"
    <3>1. PlainStep(c[m], p) = UNION {Below({f[1]}, c[m][f[2]]) : f \in p.fields}
      BY <2>5, ContentOfDict
    <3>2. \A f \in p.fields : FALSE
      BY <1>3, <2>5 DEF Parts
    <3>. QED  BY <2>3, <3>1, <3>2
  <2>. QED  BY <1>3, <2>4, <2>5
<1>. QED  BY <1>2, <1>3 DEF IsEmpty

\* Where empty values have no content, nothing is lost without them.
LEMMA ContentFull ==
  ASSUME NEW S, NEW w \in Up(S), NEW c, \A p \in S : IsEmpty(p) => c[p] = {}
  PROVE  PlainStep(c, WithoutEmpties(w)) = PlainStep(c, w)
<1> DEFINE u == WithoutEmpties(w)
<1>1. /\ u.type = w.type
      /\ Parts(u) = {p \in Parts(w) : ~IsEmpty(p)}
      /\ w.type \notin {"list", "dict"} => u = w
      /\ w.type = "dict" => u.fields = {f \in w.fields : ~IsEmpty(f[2])}
  BY EmptiesGone
<1> HIDE DEF u
<1>2. CASE w.type = "dict"
  <2>1. \A f \in w.fields : f[2] \in S
    BY <1>2, Kinds
  <2>2. PlainStep(c, u) = UNION {Below({f[1]}, c[f[2]]) : f \in u.fields}
    BY <1>1, <1>2, ContentOfDict
  <2>3. PlainStep(c, w) = UNION {Below({f[1]}, c[f[2]]) : f \in w.fields}
    BY <1>2, ContentOfDict
  <2>4. ASSUME NEW f \in w.fields, f \notin u.fields
        PROVE  Below({f[1]}, c[f[2]]) = {}
    BY <1>1, <1>2, <2>1, <2>4 DEF Below
  <2>5. u.fields \subseteq w.fields
    BY <1>1, <1>2
  <2> DEFINE B(f) == Below({f[1]}, c[f[2]])
  <2> HIDE DEF B
  <2>6. UNION {B(f) : f \in u.fields} = UNION {B(f) : f \in w.fields}
    <3>1. \A f \in w.fields : f \notin u.fields => B(f) = {}
      BY <2>4 DEF B
    <3>. QED  BY <2>5, <3>1
  <2>. QED  BY <2>2, <2>3, <2>6 DEF u, B
<1>3. CASE w.type = "list"
  <2>1. w = List(w.items) /\ w.items \in Seq(S)
    BY <1>3, Kinds
  <2>2. \A p \in Parts(w) : p \in S
    BY <2>1, ListType
  <2>3. PlainStep(c, u) = UNION {c[p] : p \in Parts(u)}
    BY <1>1, <1>3, ContentOfList
  <2>4. PlainStep(c, w) = UNION {c[p] : p \in Parts(w)}
    BY <1>3, ContentOfList
  <2>. QED  BY <1>1, <2>2, <2>3, <2>4 DEF u
<1>4. CASE w.type \notin {"list", "dict"}
  BY <1>1, <1>4 DEF u
<1>. QED  BY <1>2, <1>3, <1>4

\* Stripping the empty values loses nothing.
LEMMA ContentCleaned ==
  \A w \in Json[Depth] : PlainContent(StripNulls(w)) = PlainContent(w)
<1>1. PICK r : /\ OnLevels(r)
               /\ \A n \in Nat : \A w \in Json[n + 1] : r[n + 1][w] = NullStep(r[n], w)
               /\ \A w \in Json[Depth] : StripNulls(w) = r[Depth][w]
  BY StripNullsLevels
<1>2. PICK c : HasContent(c, FALSE)
  BY ContentLevels DEF HasContent
<1>3. /\ \A n \in Nat : \A w \in Scalars : c[n][w] = Kept(w)
      /\ \A n \in Nat : \A w \in Json[n + 1] : c[n + 1][w] = PlainStep(c[n], w)
  BY <1>2 DEF HasContent, PlainStep
<1> DEFINE P == {n \in Nat : \A w \in Json[n] : c[n][r[n][w]] = c[n][w]}
<1>4. 0 \in P
  BY <1>1, JsonLevels DEF OnLevels
<1>5. ASSUME NEW n \in P
      PROVE  n + 1 \in P
  <2>0. n \in Nat /\ \A w \in Json[n] : c[n][r[n][w]] = c[n][w]
    OBVIOUS
  <2> HIDE DEF P
  <2>1. SUFFICES ASSUME NEW w \in Json[n + 1]
                 PROVE  c[n + 1][r[n + 1][w]] = c[n + 1][w]
    BY <2>0 DEF P
  <2> DEFINE m == MapParts(r[n], w)
  <2>2. /\ r[n + 1][w] \in Json[n + 1] /\ r[n + 1][w] = WithoutEmpties(m)
        /\ Maps(r[n], Json[n], Json[n])
    BY <1>1, <2>0 DEF OnLevels, NullStep, Maps
  <2>3. w \in Up(Json[n]) /\ m \in Up(Json[n])
    BY <2>0, <2>2, JsonLevels, Mapped
  <2>4. PlainStep(c[n], m) = PlainStep(c[n], w)
    <3>1. Agree(Json[n], r[n], c[n], c[n])
      BY <2>0 DEF Agree
    <3>. QED  BY <2>3, <3>1, ContentMapped
  <2> HIDE DEF m
  <2>5. PlainStep(c[n], WithoutEmpties(m)) = PlainStep(c[n], m)
    <3>1. \A p \in Json[n] : IsEmpty(p) => c[n][p] = {}
      BY <1>2, <2>0, EmptyContent
    <3>. QED  BY <2>3, <3>1, ContentFull
  <2>6. c[n + 1][r[n + 1][w]] = PlainStep(c[n], WithoutEmpties(m))
    BY <1>3, <2>0, <2>2
  <2>. QED  BY <1>3, <2>0, <2>4, <2>5, <2>6
<1>6. P = Nat
  <2> HIDE DEF P
  <2> P \subseteq Nat  BY DEF P
  <2> QED  BY <1>4, <1>5, NatInduct
<1>7. \A w \in Json[Depth] : c[Depth][r[Depth][w]] = c[Depth][w] /\ r[Depth][w] \in Json[Depth]
  BY <1>1, <1>6, DepthAssumption DEF OnLevels
<1>8. \A w \in Json[Depth] : PlainContent(w) = c[Depth][w]
  BY <1>2 DEF HasContent, PlainContent
<1>. QED  BY <1>1, <1>7, <1>8

-----------------------------------------------------------------------------
(* What the transformations do to the empty values inside a value.          *)

\* r has what is inside values by their levels.
HasInside(r) ==
  /\ \A n \in Nat : \A w \in Scalars : r[n][w] = {}
  /\ \A n \in Nat : \A w \in Json[n + 1] : r[n + 1][w] = InStep(r[n], w)
  /\ \A w \in Json[Depth] : Inside(w) = r[Depth][w]

\* No empty value is inside w.
Full(r, n, w) == w \in Json[n] /\ \A p \in r[n][w] : ~IsEmpty(p)

\* Nothing is inside a scalar, so nothing empty is.
LEMMA FullScalar ==
  ASSUME NEW r, HasInside(r), NEW n \in Nat, NEW w \in Scalars
  PROVE  Full(r, n, w)
BY ScalarLevels DEF HasInside, Full

\* The parts of a value are nested less deep.
LEMMA PartsNested ==
  ASSUME NEW n \in Nat, NEW w \in Json[n + 1]
  PROVE  Parts(w) \subseteq Json[n]
<1> DEFINE id == [p \in Json[n] |-> p]
<1>1. Maps(id, Json[n], Json[n])
  BY DEF Maps
<1>2. Json[n + 1] = Up(Json[n])
  BY JsonLevels
<1> HIDE DEF id
<1>. QED  BY <1>1, <1>2, Mapped

\* A dict is made of its own parts.
LEMMA DictParts ==
  ASSUME NEW S, NEW w \in Up(S), w.type = "dict"
  PROVE  w \in Up(Parts(w))
<1> DEFINE F == w.fields
           T == {f[2] : f \in F}
<1>1. /\ w = Dict(F) /\ F \subseteq STRING \X S
      /\ \A f, h \in F : f[1] = h[1] => f = h
  BY Kinds
<1>2. F \subseteq STRING \X T
  BY <1>1
<1>3. Parts(w) = T
  BY DEF Parts
<1> HIDE DEF F, T
<1>. QED  BY <1>1, <1>2, <1>3, DictType

\* No empty value is inside one whose parts are neither empty nor hold one.
LEMMA FullParts ==
  ASSUME NEW r, HasInside(r), NEW n \in Nat, NEW w \in Json[n + 1]
  PROVE  Full(r, n + 1, w) <=> \A p \in Parts(w) : ~IsEmpty(p) /\ Full(r, n, p)
<1>1. r[n + 1][w] = Parts(w) \cup UNION {r[n][p] : p \in Parts(w)}
  BY DEF HasInside, InStep
<1>2. Parts(w) \subseteq Json[n]
  BY PartsNested
<1>. QED  BY <1>1, <1>2 DEF Full

\* A value with fewer parts is as full.
LEMMA FullFewer ==
  ASSUME NEW r, HasInside(r), NEW n \in Nat, NEW w, Full(r, n, w),
         NEW u \in Json[n], Parts(u) \subseteq Parts(w)
  PROVE  Full(r, n, u)
<1>1. CASE n = 0
  BY <1>1, JsonLevels, FullScalar
<1>2. CASE n # 0
  <2>1. n - 1 \in Nat /\ n = (n - 1) + 1
    BY <1>2
  <2>2. PICK m \in Nat : n = m + 1
    BY <2>1
  <2>3. w \in Json[m + 1] /\ u \in Json[m + 1]
    BY <2>2 DEF Full
  <2>4. \A p \in Parts(w) : ~IsEmpty(p) /\ Full(r, m, p)
    BY <2>2, <2>3, FullParts
  <2>. QED  BY <2>2, <2>3, <2>4, FullParts
<1>. QED  BY <1>1, <1>2

\* Stripping the empty values leaves none inside.
LEMMA StripNullsFull ==
  ASSUME NEW r, HasInside(r)
  PROVE  \A w \in Json[Depth] : Full(r, Depth, StripNulls(w))
<1>1. PICK z : /\ OnLevels(z)
               /\ \A n \in Nat : \A w \in Json[n + 1] : z[n + 1][w] = NullStep(z[n], w)
               /\ \A w \in Json[Depth] : StripNulls(w) = z[Depth][w]
  BY StripNullsLevels
<1> DEFINE P == {n \in Nat : \A w \in Json[n] : Full(r, n, z[n][w])}
<1>4. 0 \in P
  BY <1>1, JsonLevels, FullScalar DEF OnLevels
<1>5. ASSUME NEW n \in P
      PROVE  n + 1 \in P
  <2>0. n \in Nat /\ \A w \in Json[n] : Full(r, n, z[n][w])
    OBVIOUS
  <2> HIDE DEF P
  <2>1. SUFFICES ASSUME NEW w \in Json[n + 1]
                 PROVE  Full(r, n + 1, z[n + 1][w])
    BY <2>0 DEF P
  <2> DEFINE m == MapParts(z[n], w)
  <2>2. /\ z[n + 1][w] \in Json[n + 1] /\ z[n + 1][w] = WithoutEmpties(m)
        /\ Maps(z[n], Json[n], Json[n])
    BY <1>1, <2>0 DEF OnLevels, NullStep, Maps
  <2>3. w \in Up(Json[n])
    BY <2>0, JsonLevels
  <2>4. /\ m \in Up(Json[n])
        /\ Parts(m) = {z[n][q] : q \in Parts(w)} /\ Parts(w) \subseteq Json[n]
    BY <2>2, <2>3, Mapped
  <2> HIDE DEF m
  <2>5. Parts(z[n + 1][w]) = {p \in Parts(m) : ~IsEmpty(p)}
    BY <2>2, <2>4, EmptiesGone
  <2>6. \A p \in Parts(z[n + 1][w]) : ~IsEmpty(p) /\ Full(r, n, p)
    BY <2>0, <2>4, <2>5
  <2>. QED  BY <2>0, <2>2, <2>6, FullParts
<1>6. P = Nat
  <2> HIDE DEF P
  <2> P \subseteq Nat  BY DEF P
  <2> QED  BY <1>4, <1>5, NatInduct
<1>. QED  BY <1>1, <1>6, DepthAssumption

\* A capped list has some of the items, and one at least unless the cap is 0.
LEMMA CapType ==
  ASSUME NEW n \in Nat, NEW w \in Json[n], w.type = "list", NEW k \in Nat
  PROVE  /\ Cap(w, k) \in Json[n] /\ Cap(w, k).type = "list"
         /\ Parts(Cap(w, k)) \subseteq Parts(w)
         /\ k # 0 /\ w.items # << >> => Parts(Cap(w, k)) # {}
<1>1. n # 0
  BY JsonLevels, ScalarType
<1>2. n - 1 \in Nat /\ n = (n - 1) + 1
  BY <1>1
<1>3. PICK m \in Nat : n = m + 1
  BY <1>2
<1> DEFINE S == Json[m]
           s == w.items
           t == SubSeq(s, 1, k)
<1>4. Json[n] = Up(S)
  BY <1>3, JsonLevels
<1>5. s \in Seq(S) /\ w = List(s)
  BY <1>4, Kinds
<1> HIDE DEF S, s
<1>6. Parts(w) = {s[i] : i \in 1..Len(s)}
  BY <1>5, ListType
<1>7. CASE Len(s) > k
  <2>1. /\ t \in Seq(S) /\ Len(t) = k /\ Len(s) \in Nat
        /\ \A i \in 1..k : t[i] = s[i] /\ i \in 1..Len(s)
    BY <1>5, <1>7
  <2>2. Cap(w, k) = List(t)
    BY <1>7 DEF Cap, s
  <2> HIDE DEF t
  <2>3. /\ List(t) \in Up(S) /\ List(t).type = "list"
        /\ Parts(List(t)) = {t[i] : i \in 1..Len(t)}
    BY <2>1, ListType
  <2>4. Parts(List(t)) \subseteq Parts(w)
    BY <1>6, <2>1, <2>3
  <2>5. k # 0 => t[1] \in Parts(List(t))
    <3>1. k # 0 => 1 \in 1..k
      OBVIOUS
    <3>. QED  BY <2>1, <2>3, <3>1
  <2>. QED  BY <1>4, <2>2, <2>3, <2>4, <2>5
<1>8. CASE ~(Len(s) > k)
  <2>1. Cap(w, k) = w
    BY <1>8 DEF Cap, s
  <2>2. s # << >> => s[1] \in Parts(w)
    <3>1. s # << >> => 1 \in 1..Len(s)
      BY <1>5
    <3>. QED  BY <1>6, <3>1
  <2>. QED  BY <2>1, <2>2 DEF s
<1>. QED  BY <1>7, <1>8

Capped(w, k) == IF HasRows(w) THEN Cap(w, k) ELSE w

\* A list that is capped keeps a row.
LEMMA CappedFull ==
  ASSUME NEW r, HasInside(r), NEW n \in Nat, NEW w, Full(r, n, w), NEW k \in Nat \ {0}
  PROVE  Full(r, n, Capped(w, k)) /\ (~IsEmpty(w) => ~IsEmpty(Capped(w, k)))
<1>1. CASE ~HasRows(w)
  BY <1>1 DEF Capped
<1>2. CASE HasRows(w)
  <2>1. w \in Json[n] /\ w.type = "list" /\ w.items # << >> /\ k \in Nat /\ k # 0
    BY <1>2 DEF HasRows, Full
  <2> DEFINE c == Cap(w, k)
  <2>2. /\ c \in Json[n] /\ c.type = "list"
        /\ Parts(c) \subseteq Parts(w) /\ Parts(c) # {}
    BY <2>1, CapType
  <2>3. Capped(w, k) = c
    BY <1>2 DEF Capped
  <2> HIDE DEF c
  <2>4. ~IsEmpty(c)
    <3>1. c # Null /\ c # Text("")
      <4>1. Null.type = "null" /\ Text("").type = "text"
        BY DEF Null, Text
      <4>. QED  BY <2>2, <4>1
    <3>. QED  BY <2>2, <3>1 DEF IsEmpty
  <2>. QED  BY <2>2, <2>3, <2>4, FullFewer
<1>. QED  BY <1>1, <1>2

\* max_rows puts no empty value inside.
LEMMA LimitRowsFull ==
  ASSUME NEW r, HasInside(r), NEW n \in Nat, NEW w, Full(r, n, w), NEW k \in Nat
  PROVE  Full(r, n, LimitRows(w, k))
<1>1. CASE k = 0
  BY <1>1 DEF LimitRows
<1>2. CASE k # 0 /\ w.type # "dict"
  <2>1. LimitRows(w, k) = Capped(w, k)
    BY <1>2 DEF LimitRows, Capped
  <2>. QED  BY <1>2, <2>1, CappedFull
<1>3. CASE k # 0 /\ w.type = "dict"
  <2>1. w \in Json[n]
    BY DEF Full
  <2>2. n # 0
    BY <1>3, <2>1, JsonLevels, ScalarType
  <2>3. n - 1 \in Nat /\ n = (n - 1) + 1
    BY <2>2
  <2>4. PICK m \in Nat : n = m + 1
    BY <2>3
  <2>5. w \in Json[m + 1] /\ w \in Up(Json[m])
    BY <2>1, <2>4, JsonLevels
  <2> DEFINE S == Parts(w)
             g == [p \in S |-> Capped(p, k)]
  <2>6. \A p \in S : Full(r, m, p) /\ ~IsEmpty(p)
    BY <2>4, <2>5, FullParts
  <2>7. \A p \in S : Full(r, m, g[p]) /\ ~IsEmpty(g[p])
    BY <1>3, <2>6, CappedFull
  <2>8. LimitRows(w, k) = MapParts(g, w)
    <3>1. \A f \in w.fields : g[f[2]] = Capped(f[2], k)
      BY <1>3 DEF Parts
    <3>2. LimitRows(w, k) = Dict({<<f[1], Capped(f[2], k)>> : f \in w.fields})
      BY <1>3 DEF LimitRows, Capped
    <3>3. MapParts(g, w) = Dict({<<f[1], g[f[2]]>> : f \in w.fields})
      BY <1>3 DEF MapParts
    <3> HIDE DEF g
    <3>4. {<<f[1], g[f[2]]>> : f \in w.fields} = {<<f[1], Capped(f[2], k)>> : f \in w.fields}
      BY <3>1
    <3>. QED  BY <3>2, <3>3, <3>4
  <2> HIDE DEF g
  <2>9. w \in Up(S)
    BY <1>3, <2>5, DictParts
  <2>10. Maps(g, S, Json[m])
    BY <2>7 DEF Maps, Full
  <2>11. /\ MapParts(g, w) \in Up(Json[m])
         /\ Parts(MapParts(g, w)) = {g[p] : p \in S}
    BY <2>9, <2>10, Mapped
  <2>12. MapParts(g, w) \in Json[m + 1]
    BY <2>11, JsonLevels
  <2>. QED  BY <2>4, <2>7, <2>8, <2>11, <2>12, FullParts
<1>. QED  BY <1>1, <1>2, <1>3

\* max_items puts no empty value inside.
LEMMA LimitItemsFull ==
  ASSUME NEW r, HasInside(r), NEW n \in Nat, NEW w, Full(r, n, w), NEW k \in Nat
  PROVE  Full(r, n, LimitItems(w, k))
<1>1. CASE ~(k # 0 /\ w.type = "list")
  BY <1>1 DEF LimitItems
<1>2. CASE k # 0 /\ w.type = "list"
  <2>1. LimitItems(w, k) = Cap(w, k)
    BY <1>2 DEF LimitItems
  <2>2. Cap(w, k) \in Json[n] /\ Parts(Cap(w, k)) \subseteq Parts(w)
    BY <1>2, CapType DEF Full
  <2>. QED  BY <2>1, <2>2, FullFewer
<1>. QED  BY <1>1, <1>2

\* A format puts no empty value inside: a table is none.
LEMMA FormatFull ==
  ASSUME NEW r, HasInside(r), NEW n \in Nat, NEW w, Full(r, n, w), NEW u \in FormatRows(w)
  PROVE  Full(r, n, u)
<1> DEFINE rows == IF w.type = "dict" THEN {f \in w.fields : IsListOfDicts(f[2])} ELSE {}
           TableOf(f) == Table(Len(f[2].items))
           FieldsWith(f) == (w.fields \ {f}) \cup {<<f[1], TableOf(f)>>}
<1>1. ASSUME NEW m, NEW s \in Seq(m)
      PROVE  Table(Len(s)) \in Scalars /\ ~IsEmpty(Table(Len(s)))
  <2>1. Len(s) \in Nat
    BY <1>1
  <2>2. Table(Len(s)) \in Scalars
    BY <2>1 DEF Scalars, Table
  <2>3. Table(Len(s)) # Null /\ Table(Len(s)) # Text("")
    BY DEF Table, Null, Text
  <2>4. Table(Len(s)).type \notin {"list", "dict"}
    BY DEF Table
  <2>. QED  BY <2>2, <2>3, <2>4 DEF IsEmpty
<1>2. ASSUME NEW m \in Nat, NEW v \in Json[m], IsListOfDicts(v)
      PROVE  Table(Len(v.items)) \in Scalars /\ ~IsEmpty(Table(Len(v.items)))
  <2>1. v.type = "list"
    BY <1>2 DEF IsListOfDicts, HasRows
  <2>2. m # 0
    BY <2>1, JsonLevels, ScalarType
  <2>3. m - 1 \in Nat /\ m = (m - 1) + 1
    BY <2>2
  <2>4. v \in Up(Json[m - 1])
    BY <2>3, JsonLevels
  <2>5. v.items \in Seq(Json[m - 1])
    BY <2>1, <2>4, Kinds
  <2>. QED  BY <1>1, <2>5
<1>3. CASE IsListOfDicts(w)
  <2>1. u = Table(Len(w.items))
    BY <1>3 DEF FormatRows
  <2>. QED  BY <1>2, <1>3, <2>1, FullScalar DEF Full
<1>4. CASE ~IsListOfDicts(w) /\ rows = {}
  BY <1>4 DEF FormatRows
<1>5. CASE ~IsListOfDicts(w) /\ rows # {}
  <2>1. PICK f \in rows : u = Dict(FieldsWith(f))
    BY <1>5 DEF FormatRows
  <2>2. w.type = "dict" /\ f \in w.fields /\ IsListOfDicts(f[2])
    BY <2>1
  <2>3. w \in Json[n] /\ n # 0
    BY <2>2, JsonLevels, ScalarType DEF Full
  <2>4. n - 1 \in Nat /\ n = (n - 1) + 1
    BY <2>3
  <2>5. PICK m \in Nat : n = m + 1
    BY <2>4
  <2>6. w \in Json[m + 1] /\ w \in Up(Json[m])
    BY <2>3, <2>5, JsonLevels
  <2>7. /\ w.fields \subseteq STRING \X Json[m]
        /\ \A e, h \in w.fields : e[1] = h[1] => e = h
        /\ Parts(w) = {e[2] : e \in w.fields}
    BY <2>2, <2>6, Kinds DEF Parts
  <2>8. f[1] \in STRING /\ f[2] \in Json[m]
    BY <2>2, <2>7
  <2>9. TableOf(f) \in Scalars /\ ~IsEmpty(TableOf(f))
    BY <1>2, <2>2, <2>8
  <2>10. TableOf(f) \in Json[m] /\ Full(r, m, TableOf(f))
    BY <2>9, ScalarLevels, FullScalar
  <2> DEFINE T == TableOf(f)
             F == FieldsWith(f)
  <2> HIDE DEF T
  <2>11. F \in SUBSET (STRING \X Json[m]) /\ \A e, h \in F : e[1] = h[1] => e = h
    BY <2>2, <2>7, <2>8, <2>10 DEF T
  <2>12. \A e \in F : e[2] \in Parts(w) \/ e[2] = T
    BY <2>7 DEF T
  <2> HIDE DEF F
  <2>13. Dict(F) \in Up(Json[m]) /\ Parts(Dict(F)) = {e[2] : e \in F}
    BY <2>11, DictType
  <2>14. Dict(F) \in Json[m + 1]
    BY <2>13, JsonLevels
  <2>15. \A p \in Parts(w) : ~IsEmpty(p) /\ Full(r, m, p)
    BY <2>5, <2>6, FullParts
  <2>16. \A p \in Parts(Dict(F)) : ~IsEmpty(p) /\ Full(r, m, p)
    BY <2>9, <2>10, <2>12, <2>13, <2>15 DEF T
  <2>17. u = Dict(F)
    BY <2>1 DEF F
  <2>. QED  BY <2>5, <2>14, <2>16, <2>17, FullParts
<1>. QED  BY <1>3, <1>4, <1>5

\* The last steps put no empty value inside.
LEMMA ArrangeFull ==
  ASSUME NEW r, HasInside(r), NEW cfg, Valid(cfg), NEW w, Full(r, Depth, w),
         NEW u \in Arrange(cfg, w)
  PROVE  Full(r, Depth, u)
<1>1. cfg.max_rows \in Nat /\ cfg.max_items \in Nat /\ Depth \in Nat
  BY DepthAssumption DEF Valid
<1>2. Full(r, Depth, ApplyLimits(cfg, w))
  BY <1>1, LimitRowsFull, LimitItemsFull DEF ApplyLimits
<1>3. PICK v \in Format(cfg, ApplyLimits(cfg, w)) : u \in Truncate(cfg, v)
  BY DEF Arrange
<1>4. Full(r, Depth, v)
  BY <1>1, <1>2, <1>3, FormatFull DEF Format
<1>5. Full(r, Depth, Text("cut"))
  <2>1. Text("cut") \in Scalars
    BY DEF Scalars, Text, Words
  <2>. QED  BY <1>1, <2>1, FullScalar
<1>. QED  BY <1>3, <1>4, <1>5 DEF Truncate

-----------------------------------------------------------------------------
(* The whole shaper.                                                        *)

\* The first steps of the shaper make values that are nested no deeper.
LEMMA CleanTypes ==
  /\ \A v \in Json[Depth] : FlattenRefs(v) \in Json[Depth] /\ StripNulls(v) \in Json[Depth]
  /\ \A names : \A v \in Json[Depth] : StripFields(v, names) \in Json[Depth]
<1>1. PICK f : /\ OnLevels(f)
               /\ \A w \in Json[Depth] : FlattenRefs(w) = f[Depth][w]
  BY FlattenLevels
<1>2. PICK z : /\ OnLevels(z)
               /\ \A w \in Json[Depth] : StripNulls(w) = z[Depth][w]
  BY StripNullsLevels
<1>3. ASSUME NEW names, NEW v \in Json[Depth]
      PROVE  StripFields(v, names) \in Json[Depth]
  <2>1. PICK s : /\ OnLevels(s)
                 /\ \A w \in Json[Depth] : StripFields(w, names) = s[Depth][w]
    BY StripFieldsLevels
  <2>. QED  BY <2>1, DepthAssumption DEF OnLevels
<1>. QED  BY <1>1, <1>2, <1>3, DepthAssumption DEF OnLevels

\* What shape() returns has no empty value inside, where they are stripped.
LEMMA ShapeFull ==
  ASSUME NEW cfg, Valid(cfg), cfg.strip_nulls, NEW v \in Json[Depth], NEW u \in Shape(cfg, v)
  PROVE  \A p \in Inside(u) : ~IsEmpty(p)
<1>1. PICK r : HasInside(r)
  BY InsideLevels DEF HasInside
<1> DEFINE flat == IF cfg.flatten_refs THEN FlattenRefs(v) ELSE v
           bare == StripFields(flat, Stripped(cfg))
<1>2. Clean(cfg, v) = StripNulls(bare)
  BY DEF Clean
<1>3. flat \in Json[Depth]
  BY CleanTypes
<1> HIDE DEF flat
<1>4. bare \in Json[Depth]
  BY <1>3, CleanTypes
<1> HIDE DEF bare
<1>5. Full(r, Depth, Clean(cfg, v))
  BY <1>1, <1>2, <1>4, StripNullsFull
<1>6. Full(r, Depth, u)
  BY <1>1, <1>5, ArrangeFull DEF Shape
<1>. QED  BY <1>1, <1>6 DEF Full, HasInside

\* Where nothing is capped or formatted the cleaned value is returned.
LEMMA ArrangedAsIs ==
  ASSUME NEW cfg, cfg.max_rows = 0, cfg.max_items = 0, ~cfg.format, ~cfg.max_chars, NEW v
  PROVE  Arrange(cfg, v) = {v}
BY DEF Arrange, ApplyLimits, LimitRows, LimitItems, Format, Truncate

\* What is then left of an answer: its content but for the fields stripped.
LEMMA ShapeContent ==
  ASSUME NEW cfg, Valid(cfg), cfg.max_rows = 0, cfg.max_items = 0,
         ~cfg.format, ~cfg.max_chars, NEW v \in Json[Depth], NEW u \in Shape(cfg, v)
  PROVE  Content(u, FALSE) = {c \in Content(v, cfg.flatten_refs) : c[1] \cap Stripped(cfg) = {}}
<1> DEFINE flat == IF cfg.flatten_refs THEN FlattenRefs(v) ELSE v
           bare == StripFields(flat, Stripped(cfg))
<1>1. u = IF cfg.strip_nulls THEN StripNulls(bare) ELSE bare
  BY ArrangedAsIs DEF Shape, Clean
<1>2. flat \in Json[Depth]
  BY CleanTypes
<1>3. PlainContent(flat) = Content(v, cfg.flatten_refs)
  <2>1. CASE cfg.flatten_refs
    <3>1. cfg.flatten_refs = TRUE
      BY <2>1 DEF Valid
    <3>. QED  BY <3>1, ContentFlattened
  <2>2. CASE ~cfg.flatten_refs
    <3>1. cfg.flatten_refs = FALSE
      BY <2>2 DEF Valid
    <3>. QED  BY <3>1 DEF PlainContent
  <2>. QED  BY <2>1, <2>2
<1> HIDE DEF flat
<1>4. bare \in Json[Depth] /\ PlainContent(bare) = Bare(PlainContent(flat), Stripped(cfg))
  BY <1>2, CleanTypes, ContentStripped
<1> HIDE DEF bare
<1>5. PlainContent(u) = PlainContent(bare)
  BY <1>1, <1>4, ContentCleaned
<1>. QED  BY <1>3, <1>4, <1>5 DEF PlainContent, Bare

-----------------------------------------------------------------------------
(* The pipeline. *)

\* Until it ends, a call holds the upstream's text as the filters so far leave
\* it, and shaping has not run.
FilteredInv ==
  /\ text \in TextType /\ raw \in TextType
  /\ options.shaping \in BOOLEAN
  /\ outcome = "received" => raw = text
  /\ outcome = "scanning" => raw = RedactEnabled(text) /\ options.pii_scan
  /\ outcome \in {"received", "scanning"} => ~shaped /\ ~byModel

\* What is shaped is what the text stands for, in one way the server is configured.
ShapedInv ==
  /\ answer \in Json[Depth] /\ Valid(config)
  /\ shaped => result \in Shape(config, answer)

PipelineInv == FilteredInv /\ ShapedInv /\ FiltersHold /\ SignalEndsCall

-----------------------------------------------------------------------------
(* The filters. *)

\* What the regular expressions that are enabled leave of a text: no key and no
\* PII where these are searched for, and the JSON it was, unless PII was
\* redacted from a fragile text.
LEMMA Enabled ==
  ASSUME NEW t \in TextType
  PROVE  /\ RedactEnabled(t) \in TextType
         /\ options.sanitize_output => "key" \notin RedactEnabled(t).found
         /\ options.redact_pii => "pii" \notin RedactEnabled(t).found
         /\ t.json = "yes" => RedactEnabled(t).json = "yes" \/ (t.fragile /\ options.redact_pii)
         /\ RedactEnabled(t).fragile => t.fragile
BY DEF RedactEnabled, RedactKeys, RedactPII, TextType, Patterns

\* The redaction that stands in for the model.
LEMMA FallenBack ==
  ASSUME NEW t \in TextType
  PROVE  /\ Fallback(t) \in TextType /\ "pii" \notin Fallback(t).found
         /\ "key" \in Fallback(t).found <=> "key" \in t.found
         /\ t.json = "yes" => Fallback(t).json = "yes" \/ t.fragile
BY DEF Fallback, RedactPII, TextType, Patterns

\* From the injection check on the call only ends, with the text it is given.
LEMMA ProcessEnds ==
  ASSUME NEW t \in TextType, NEW v \in Json[Depth], text' \in TextType,
         PipelineInv, outcome \in {"received", "scanning"}, Process(t, v)
  PROVE  /\ FilteredInv' /\ ShapedInv'
         /\ raw' = t /\ answer' = v /\ UNCHANGED options
         /\ outcome' \in {"blocked", "raised", "signal", "value", "text"}
         /\ outcome' \in {"value", "text"} /\ options.injection_detection =>
              "flagged" \notin t.found
         /\ outcome' = "text" /\ t.json = "yes" => options.unhashable # {}
         /\ outcome' = "value" => ~Signalled(v) /\ shaped' = options.shaping
<1> USE DEF PipelineInv, FilteredInv, ShapedInv
<1>1. /\ raw' = t /\ answer' = v /\ UNCHANGED serverVars
      /\ outcome' \in {"blocked", "raised", "signal", "value", "text"}
  BY DEF Process, End
<1>2. shaped' => result' \in Shape(config, v)
  BY DEF Process, End
<1>3. /\ outcome' \in {"value", "text"} /\ options.injection_detection =>
           "flagged" \notin t.found
      /\ outcome' = "text" /\ t.json = "yes" => Unhashable(v)
      /\ outcome' = "value" => ~Signalled(v) /\ shaped' = options.shaping
  BY DEF Process, End, Blocked
<1>4. Unhashable(v) => options.unhashable # {}
  BY DEF Unhashable
<1>. QED  BY <1>1, <1>2, <1>3, <1>4 DEF serverVars

-----------------------------------------------------------------------------
(* The invariant. *)

\* The invariant holds when an answer is received.
LEMMA PipelineInit == APInit => PipelineInv
<1> SUFFICES ASSUME APInit
             PROVE  PipelineInv
  OBVIOUS
<1>1. text \in TextType /\ options.shaping \in BOOLEAN
  <2>1. Plain \in TextType /\ Unfiltered.shaping \in BOOLEAN
    BY DEF Plain, Unfiltered, TextType, Patterns
  <2>. QED  BY <2>1, TextsAssumption DEF APInit
<1>2. ShapedInv
  BY InputsAssumption DEF APInit, ShapedInv
<1>. QED  BY <1>1, <1>2 DEF APInit, PipelineInv, FilteredInv, FiltersHold, SignalEndsCall

\* Every exit of call_tool, and the scan, preserves the invariant.
LEMMA PipelinePreserves == PipelineInv /\ [APNext]_apVars => PipelineInv'
<1> SUFFICES ASSUME PipelineInv, [APNext]_apVars
             PROVE  PipelineInv'
  OBVIOUS
<1> USE DEF PipelineInv
<1>1. CASE ErrorAnswer
  BY <1>1 DEF ErrorAnswer, End, answerVars, serverVars, FilteredInv, ShapedInv, FiltersHold,
              SignalEndsCall, RedactKeys, TextType
<1>2. CASE OtherAnswer
  BY <1>2 DEF OtherAnswer, End, answerVars, serverVars, FilteredInv, ShapedInv, FiltersHold,
              SignalEndsCall
<1>3. CASE TextAnswer
  <2> DEFINE t == RedactEnabled(text)
  <2>1. /\ outcome = "received" /\ raw = text /\ text \in TextType /\ text' = text
        /\ ~options.pii_scan /\ byModel' = byModel /\ ~byModel /\ answer \in Json[Depth]
    BY <1>3 DEF TextAnswer, FilteredInv, ShapedInv
  <2>2. t \in TextType /\ Process(t, answer)
    BY <1>3, <2>1, Enabled DEF TextAnswer
  <2>. HIDE DEF t
  <2>3. FilteredInv' /\ ShapedInv'
    BY <2>1, <2>2, ProcessEnds
  <2>4. FiltersHold'
    BY <2>1, <2>2, ProcessEnds, Enabled DEF FiltersHold, Shown, EscapesHid, t
  <2>5. SignalEndsCall'
    BY <2>1, <2>2, ProcessEnds, Enabled DEF SignalEndsCall, Signalled, t
  <2>. QED  BY <2>3, <2>4, <2>5
<1>4. CASE Scan
  <2>1. FilteredInv' /\ ShapedInv'
    BY <1>4, Enabled DEF Scan, End, answerVars, serverVars, FilteredInv, ShapedInv, RedactEnabled
  <2>2. FiltersHold'
    BY <1>4, Enabled DEF Scan, End, serverVars, FilteredInv, FiltersHold
  <2>. QED  BY <1>4, <2>1, <2>2 DEF Scan, End, SignalEndsCall
<1>5. CASE Scanned
  <2> DEFINE u == RedactEnabled(text)
  <2>1. /\ outcome = "scanning" /\ raw = u /\ text \in TextType /\ u \in TextType
        /\ answer \in Json[Depth] /\ options.pii_scan
    BY <1>5, Enabled DEF Scanned, FilteredInv, ShapedInv
  <2>. HIDE DEF u
  <2>2. ASSUME byModel' = TRUE, NEW r \in ModelAnswers, text' = r[1], Process(r[1], r[2])
        PROVE  PipelineInv'
    <3>1. r[1] \in TextType /\ r[2] \in Json[Depth]
      BY TextsAssumption, InputsAssumption DEF ModelAnswers
    <3> DEFINE t == r[1]
               v == r[2]
    <3> HIDE DEF t, v
    <3>2. t \in TextType /\ v \in Json[Depth] /\ text' = t /\ Process(t, v)
      BY <2>2, <3>1 DEF t, v
    <3>3. FilteredInv' /\ ShapedInv'
      BY <2>1, <3>2, ProcessEnds
    <3>4. FiltersHold'
      BY <2>1, <2>2, <3>2, ProcessEnds DEF FiltersHold, Shown, EscapesHid
    <3>5. SignalEndsCall'
      BY <2>1, <2>2, <3>2, ProcessEnds DEF SignalEndsCall, Signalled
    <3>. QED  BY <3>3, <3>4, <3>5
  <2>3. ASSUME byModel' = FALSE, Process(Fallback(u), answer), text' = text
        PROVE  PipelineInv'
    <3> DEFINE t == Fallback(u)
    <3>1. /\ t \in TextType /\ "pii" \notin t.found
          /\ "key" \in t.found <=> "key" \in u.found
          /\ u.json = "yes" => t.json = "yes" \/ u.fragile
      BY <2>1, FallenBack
    <3>. HIDE DEF t
    <3>5. Process(t, answer)
      BY <2>3 DEF t
    <3>2. FilteredInv' /\ ShapedInv'
      BY <2>1, <2>3, <3>1, <3>5, ProcessEnds
    <3>3. FiltersHold'
      BY <2>1, <2>3, <3>1, <3>5, ProcessEnds, Enabled DEF FiltersHold, Shown, EscapesHid, u
    <3>4. SignalEndsCall'
      BY <2>1, <2>3, <3>1, <3>5, ProcessEnds, Enabled DEF SignalEndsCall, Signalled, u
    <3>. QED  BY <3>2, <3>3, <3>4
  <2>. QED  BY <1>5, <2>1, <2>2, <2>3 DEF Scanned
<1>6. CASE Returned \/ UNCHANGED apVars
  BY <1>6 DEF Returned, apVars, FilteredInv, ShapedInv, RedactEnabled, FiltersHold,
              Shown, EscapesHid, SignalEndsCall
<1>. QED  BY <1>1, <1>2, <1>3, <1>4, <1>5, <1>6 DEF APNext

\* The invariant holds of every answer, at every step.
LEMMA PipelineInvariance == APSpec => []PipelineInv
BY PipelineInit, PipelinePreserves, PTL DEF APSpec

-----------------------------------------------------------------------------

\* README.md:453-470, for any combination of the filters: what call_tool returns
\* holds nothing an enabled filter looks for, but what escapes hid from it and,
\* of keys and PII, what the model wrote.
THEOREM EnabledFiltersHold == APSpec => []FiltersHold
BY PipelineInvariance, PTL DEF PipelineInv

\* Whatever shaping makes of a value, a rate-limit signal in it ends the call,
\* and JSON that redaction did not break is returned as a value, shaped exactly if
\* the server is configured so, unless one of its options cannot be hashed.
THEOREM SignalsEndCalls == APSpec => []SignalEndsCall
BY PipelineInvariance, PTL DEF PipelineInv

\* response_shaper.py:125, for values of any depth and any section: with
\* strip_nulls no empty value is left inside a result, whatever the fields
\* stripped before, and whatever the limits and the format after.
THEOREM NoEmptyValues == APSpec => []NoEmptiesLeft
<1>1. PipelineInv => NoEmptiesLeft
  BY ShapeFull DEF PipelineInv, ShapedInv, NoEmptiesLeft
<1>. QED  BY <1>1, PipelineInvariance, PTL

\* response_shaper.py:4-7, for values of any depth and any section that caps and
\* formats nothing: what shaping leaves is the content of the answer but for the
\* fields to be stripped, under the same keys.
THEOREM OnlyNoiseGoes == APSpec => []OnlyNoiseRemoved
<1>1. PipelineInv => OnlyNoiseRemoved
  BY ShapeContent DEF PipelineInv, ShapedInv, OnlyNoiseRemoved
<1>. QED  BY <1>1, PipelineInvariance, PTL
=============================================================================
