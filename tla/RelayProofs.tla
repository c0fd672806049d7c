------------------------------ MODULE RelayProofs ------------------------------
(****************************************************************************)
(* The safety of the application for any settings and for any number of     *)
(* servers and calls.                                                       *)
(*                                                                          *)
(* Up to the end of a failed startup its steps are steps of the session     *)
(* pool, so the pool's inductive invariant holds until then; StageInv ties  *)
(* the stage of the application to the phase of the pool, and HoldInv is    *)
(* what is left of the pool's invariant when the loops are cancelled behind *)
(* its back.  What startup makes of the settings is an invariant of its own,*)
(* BootInv; that it is what the settings mean rests on the lemmas about     *)
(* strings, which are by induction over the length of a string.             *)
(****************************************************************************)
EXTENDS Relay, SessionPoolProofs, SequenceTheorems, WellFoundedInduction

-----------------------------------------------------------------------------
(* Strings and their references.  ReplaceRefs goes over a string from left  *)
(* to right and FlattenSeq over its parts: both are sequences of steps, and *)
(* step by step they agree.                                                 *)

\* Induction over the natural numbers, on a set.
LEMMA NatInduct ==
  ASSUME NEW P, P \subseteq Nat, 0 \in P, \A n \in P : n + 1 \in P
  PROVE  P = Nat
<1> DEFINE R == OpToRel(<, Nat)
<1>1. SUFFICES ASSUME Nat \ P # {}
               PROVE  FALSE
  OBVIOUS
<1>2. PICK m \in Nat \ P : \A k \in Nat \ P : <<k, m>> \notin R
  <2>. HIDE DEF R
  <2>1. IsWellFoundedOn(R, Nat)
    BY NatLessThanWellFounded DEF R
  <2>. QED  BY <2>1, <1>1, WFMin
<1>3. \A k \in Nat \ P : ~(k < m)
  BY <1>2 DEF OpToRel
<1>4. m # 0 /\ m - 1 \in Nat /\ m - 1 < m
  OBVIOUS
<1>. QED  BY <1>3, <1>4

\* A set of natural numbers has a least element.
LEMMA Least ==
  ASSUME NEW T \in SUBSET Nat, T # {}
  PROVE  \E m \in T : \A k \in T : m <= k
<1> DEFINE P == {n \in Nat : \A k \in T : n <= k}
<1>1. SUFFICES ASSUME \A m \in T : \E k \in T : k < m
               PROVE  FALSE
  OBVIOUS
<1>2. 0 \in P
  OBVIOUS
<1>3. \A n \in P : n + 1 \in P
  BY <1>1
<1>4. P = Nat
  <2> HIDE DEF P
  <2> P \subseteq Nat  BY DEF P
  <2> QED  BY <1>2, <1>3, NatInduct
<1>5. PICK t \in T : TRUE
  OBVIOUS
<1>6. t \in Nat /\ t + 1 \in P
  <2> HIDE DEF P
  <2> QED  BY <1>4
<1>. QED  BY <1>6

\* f is what the steps G, from base on, make of values in V.
Steps(f, V, N, base, G) ==
  /\ f \in [0..N -> V]
  /\ f[0] = base
  /\ \A n \in 1..N : f[n] = G[<<n, f[n - 1]>>]

\* Such steps can be taken.
LEMMA StepsExist ==
  ASSUME NEW V, NEW N \in Nat, NEW base \in V, NEW G \in [(1..N) \X V -> V]
  PROVE  \E f : Steps(f, V, N, base, G)
<1> DEFINE Q(k) == \E f \in [0..k -> V] :
                     f[0] = base /\ \A n \in 1..k : f[n] = G[<<n, f[n - 1]>>]
           P == {k \in Nat : k <= N => Q(k)}
<1>1. 0 \in P
  <2> DEFINE g == [i \in 0..0 |-> base]
  <2>1. g \in [0..0 -> V] /\ g[0] = base /\ 1..0 = {}
    OBVIOUS
  <2>. QED  BY <2>1
<1>2. ASSUME NEW k \in P
      PROVE  k + 1 \in P
  <2>0. k \in Nat
    OBVIOUS
  <2>1. SUFFICES ASSUME k + 1 <= N
                 PROVE  Q(k + 1)
    BY <2>0
  <2>2. PICK f \in [0..k -> V] : f[0] = base /\ \A n \in 1..k : f[n] = G[<<n, f[n - 1]>>]
    BY <2>0, <2>1, <1>2
  <2> DEFINE g == [n \in 0..(k + 1) |-> IF n = k + 1 THEN G[<<k + 1, f[k]>>] ELSE f[n]]
  <2>3. g \in [0..(k + 1) -> V]
    BY <2>0, <2>1
  <2>4. g[0] = base
    BY <2>0, <2>2
  <2>5. ASSUME NEW n \in 1..(k + 1)
        PROVE  g[n] = G[<<n, g[n - 1]>>]
    <3>1. CASE n = k + 1
      <4>1. g[n] = G[<<k + 1, f[k]>>] /\ g[n - 1] = f[k]
        BY <2>0, <3>1
      <4>. QED  BY <3>1, <4>1
    <3>2. CASE n # k + 1
      <4>1. n \in 1..k /\ n - 1 \in 0..k
        BY <2>0, <3>2
      <4>. QED  BY <2>0, <2>2, <4>1, <3>2
    <3>. QED  BY <3>1, <3>2
  <2>. QED  BY <2>3, <2>4, <2>5
<1>3. P = Nat
  <2> HIDE DEF P
  <2> P \subseteq Nat  BY DEF P
  <2> QED  BY <1>1, <1>2, NatInduct
<1>. QED  BY <1>3 DEF Steps

\* A piece is a subsequence of a sequence that it is an element of.
LEMMA PieceIn ==
  ASSUME NEW S, NEW t \in Seq(S), NEW p
  PROVE  <<p>> \in SubSeqs(t) <=> \E j \in 1..Len(t) : t[j] = p
<1>1. ASSUME NEW j \in 1..Len(t), t[j] = p
      PROVE  <<p>> \in SubSeqs(t)
  <2> DEFINE u == SubSeq(t, j - 1 + 1, j)
  <2>0. p \in S /\ (\A k \in j - 1 + 1..j : t[k] \in S) /\ j - 1 + 1 = j
    BY <1>1
  <2>2. u \in Seq(S) /\ Len(u) = 1 /\ u[1] = p
    BY <1>1, <2>0, SubSeqProperties
  <2>1. u = <<p>>
    <3> HIDE DEF u
    <3> QED  BY <2>0, <2>2
  <2>3. \E i \in 0..Len(t) : <<p>> = SubSeq(t, i + 1, j)
    <3> HIDE DEF u
    <3>1. j - 1 \in 0..Len(t) /\ u = SubSeq(t, (j - 1) + 1, j)
      BY DEF u
    <3> QED  BY <2>1, <3>1
  <2>. QED  BY <2>3 DEF SubSeqs
<1>2. ASSUME <<p>> \in SubSeqs(t)
      PROVE  \E j \in 1..Len(t) : t[j] = p
  <2>1. PICK i \in 0..Len(t), j \in 0..Len(t) : <<p>> = SubSeq(t, i + 1, j)
    BY <1>2 DEF SubSeqs
  <2>2. \A k \in i + 1..j : t[k] \in S
    OBVIOUS
  <2>3. /\ Len(SubSeq(t, i + 1, j)) = IF i + 1 <= j THEN j - (i + 1) + 1 ELSE 0
        /\ \A k \in 1..j - (i + 1) + 1 : SubSeq(t, i + 1, j)[k] = t[i + 1 + k - 1]
    BY <2>2, SubSeqProperties
  <2>4. Len(<<p>>) = 1 /\ <<p>>[1] = p
    OBVIOUS
  <2> DEFINE u == SubSeq(t, i + 1, j)
  <2> HIDE DEF u
  <2>5. Len(u) = 1 /\ u[1] = p
    BY <2>1, <2>4 DEF u
  <2>7. j = i + 1
    BY <2>3, <2>5 DEF u
  <2>6. t[i + 1] = p
    BY <2>3, <2>5, <2>7 DEF u
  <2>. QED  BY <2>7, <2>6
<1>. QED  BY <1>1, <1>2

\* The same for the beginning of a sequence.
LEMMA PieceInPrefix ==
  ASSUME NEW S, NEW t \in Seq(S), NEW p, NEW i \in 0..Len(t)
  PROVE  <<p>> \in SubSeqs(SubSeq(t, 1, i)) <=> \E j \in 1..i : t[j] = p
<1> DEFINE u == SubSeq(t, 1, i)
<1>1. \A k \in 1..i : t[k] \in S
  OBVIOUS
<1>2. u \in Seq(S) /\ Len(u) = i /\ \A k \in 1..i : u[k] = t[k]
  BY <1>1, SubSeqProperties
<1>3. <<p>> \in SubSeqs(u) <=> \E j \in 1..Len(u) : u[j] = p
  <2> HIDE DEF u
  <2> QED  BY <1>2, PieceIn
<1>. QED  BY <1>2, <1>3

\* Where a piece is found first.
LEMMA FirstIndex ==
  ASSUME NEW S, NEW t \in Seq(S), NEW p, NEW m \in 1..Len(t), t[m] = p,
         \A k \in 1..(m - 1) : t[k] # p
  PROVE  IndexFirstSubSeq(<<p>>, t) = m
<1> DEFINE found(i) == /\ <<p>> \in SubSeqs(SubSeq(t, 1, i))
                       /\ \A j \in 0..(i - 1) : <<p>> \notin SubSeqs(SubSeq(t, 1, j))
<1>1. found(m)
  <2>1. <<p>> \in SubSeqs(SubSeq(t, 1, m))
    BY PieceInPrefix
  <2>2. ASSUME NEW j \in 0..(m - 1)
        PROVE  <<p>> \notin SubSeqs(SubSeq(t, 1, j))
    <3>1. j \in 0..Len(t) /\ \A k \in 1..j : t[k] # p
      OBVIOUS
    <3>. QED  BY <3>1, PieceInPrefix
  <2>. QED  BY <2>1, <2>2
<1>2. \A i \in 0..Len(t) : found(i) => i = m
  <2> SUFFICES ASSUME NEW i \in 0..Len(t), found(i)
               PROVE  i = m
    OBVIOUS
  <2>1. ~(i < m)
    BY <1>1
  <2>2. ~(m < i)
    BY <1>1
  <2>. QED  BY <2>1, <2>2
<1>3. (CHOOSE i \in 0..Len(t) : found(i)) = m
  <2> HIDE DEF found
  <2> QED  BY <1>1, <1>2
<1>4. Len(<<p>>) - 1 = 0
  OBVIOUS
<1>5. IndexFirstSubSeq(<<p>>, t) = (CHOOSE i \in 0..Len(t) : found(i)) - (Len(<<p>>) - 1)
  BY DEF IndexFirstSubSeq
<1>6. m - 0 = m
  OBVIOUS
<1>. QED  BY <1>3, <1>4, <1>5, <1>6, Zenon

\* The sequence t with r in place of its m-th element.
Spliced(t, m, r) == SubSeq(t, 1, m - 1) \o r \o SubSeq(t, m + 1, Len(t))

\* Replacing the first occurrence of a piece.
LEMMA ReplacedAt ==
  ASSUME NEW S, NEW t \in Seq(S), NEW r, NEW p, NEW m \in 1..Len(t), t[m] = p,
         \A k \in 1..(m - 1) : t[k] # p
  PROVE  ReplaceFirstSubSeq(r, <<p>>, t) = Spliced(t, m, r)
<1>1. <<p>> \in SubSeqs(t)
  <2>1. \E j \in 1..Len(t) : t[j] = p
    OBVIOUS
  <2>. QED  BY <2>1, PieceIn
<1>2. IndexFirstSubSeq(<<p>>, t) = m
  BY FirstIndex
<1>3. Len(<<p>>) = 1
  OBVIOUS
<1>4. ReplaceFirstSubSeq(r, <<p>>, t) = ReplaceSubSeqAt(m, r, <<p>>, t)
  BY <1>1, <1>2, Zenon DEF ReplaceFirstSubSeq
<1>5. ReplaceSubSeqAt(m, r, <<p>>, t) = Spliced(t, m, r)
  BY <1>3, Zenon DEF ReplaceSubSeqAt, Spliced
<1>. QED  BY <1>4, <1>5, Zenon

\* A string with a string in place of a piece is a string.
LEMMA ReplaceType ==
  ASSUME NEW S, NEW t \in Seq(S), NEW r \in Seq(S), NEW p
  PROVE  ReplaceFirstSubSeq(r, <<p>>, t) \in Seq(S)
<1>1. CASE <<p>> \notin SubSeqs(t)
  BY <1>1 DEF ReplaceFirstSubSeq
<1>2. CASE <<p>> \in SubSeqs(t)
  <2> DEFINE T == {j \in 1..Len(t) : t[j] = p}
  <2>1. T # {} /\ T \in SUBSET Nat
    BY <1>2, PieceIn
  <2>2. PICK m \in T : \A k \in T : m <= k
    <3> HIDE DEF T
    <3> QED  BY <2>1, Least
  <2>3. /\ m \in 1..Len(t) /\ t[m] = p
        /\ \A k \in 1..(m - 1) : t[k] # p
    BY <2>2
  <2> HIDE DEF T
  <2>4. SubSeq(t, 1, m - 1) \in Seq(S) /\ SubSeq(t, m + 1, Len(t)) \in Seq(S)
    <3>1. /\ \A k \in 1..m - 1 : t[k] \in S
          /\ \A k \in m + 1..Len(t) : t[k] \in S
      BY <2>3
    <3>2. 1 \in Int /\ m - 1 \in Int /\ m + 1 \in Int /\ Len(t) \in Int
      BY <2>3
    <3>. QED  BY <3>1, <3>2, SubSeqProperties
  <2>5. ReplaceFirstSubSeq(r, <<p>>, t) = Spliced(t, m, r)
    BY <2>3, ReplacedAt
  <2>6. Spliced(t, m, r) \in Seq(S)
    BY <2>4, ConcatProperties DEF Spliced
  <2>. QED  BY <2>5, <2>6
<1>. QED  BY <1>1, <1>2

\* The string r between two others.
Between(a, r, b) == (a \o r) \o b

\* Replacing a piece that does not occur before.
LEMMA ReplaceInside ==
  ASSUME NEW S, NEW a \in Seq(S), NEW b \in Seq(S), NEW r \in Seq(S), NEW p \in S,
         \A k \in 1..Len(a) : a[k] # p
  PROVE  ReplaceFirstSubSeq(r, <<p>>, Between(a, <<p>>, b)) = Between(a, r, b)
<1> DEFINE m == Len(a) + 1
           c == <<p>> \o b
<1>1. /\ c \in Seq(S) /\ Len(c) = 1 + Len(b) /\ c[1] = p
      /\ \A k \in 1..Len(b) : c[k + 1] = b[k]
  OBVIOUS
<1>0. PICK t : t = a \o c
  OBVIOUS
<1>2. /\ t \in Seq(S) /\ Len(t) = Len(a) + Len(c)
      /\ \A k \in 1..Len(a) : t[k] = a[k]
      /\ \A k \in 1..Len(c) : t[Len(a) + k] = c[k]
  <2> HIDE DEF c
  <2>1. t \in Seq(S) /\ Len(t) = Len(a) + Len(c)
    BY <1>0, <1>1, ConcatProperties
  <2>2. ASSUME NEW k \in 1..Len(a)
        PROVE  t[k] = a[k]
    BY <1>0, <1>1
  <2>3. ASSUME NEW k \in 1..Len(c)
        PROVE  t[Len(a) + k] = c[k]
    BY <1>0, <1>1
  <2>. QED  BY <2>1, <2>2, <2>3
<1>7. Len(a) \in Nat /\ Len(b) \in Nat
  OBVIOUS
<1> HIDE DEF c
<1>3. m \in 1..Len(t) /\ t[m] = p /\ \A k \in 1..(m - 1) : t[k] # p
  <2>1. Len(t) = Len(a) + 1 + Len(b) /\ t[Len(a) + 1] = c[1]
    BY <1>1, <1>2, <1>7
  <2>2. m - 1 = Len(a) /\ m \in 1..Len(t)
    BY <2>1, <1>7
  <2>. QED  BY <1>1, <1>2, <2>1, <2>2
<1>4. SubSeq(t, 1, m - 1) = a
  <2>1. \A k \in 1..m - 1 : t[k] \in S
    BY <1>2
  <2> DEFINE u == SubSeq(t, 1, m - 1)
  <2>2. u \in Seq(S) /\ Len(u) = Len(a) /\ \A k \in 1..Len(a) : u[k] = t[k]
    BY <2>1, SubSeqProperties
  <2> HIDE DEF u
  <2>3. u = a
    BY <1>2, <2>2, SeqEqual
  <2>. QED  BY <2>3 DEF u
<1>5. SubSeq(t, m + 1, Len(t)) = b
  <2>1. \A k \in m + 1..Len(t) : t[k] \in S
    BY <1>2
  <2> DEFINE u == SubSeq(t, m + 1, Len(t))
  <2>2. u \in Seq(S) /\ Len(u) = Len(b) /\ \A k \in 1..Len(b) : u[k] = t[m + 1 + k - 1]
    BY <1>1, <1>2, <2>1, SubSeqProperties
  <2> HIDE DEF u
  <2>3. \A k \in 1..Len(b) : u[k] = b[k]
    <3> SUFFICES ASSUME NEW k \in 1..Len(b)
                 PROVE  u[k] = b[k]
      OBVIOUS
    <3>1. m + 1 + k - 1 = Len(a) + (k + 1) /\ k + 1 \in 1..Len(c)
      BY <1>1, <1>7
    <3>2. t[Len(a) + (k + 1)] = b[k]
      BY <1>1, <1>2, <3>1
    <3>. QED  BY <2>2, <3>1, <3>2
  <2>4. u = b
    BY <2>2, <2>3, SeqEqual
  <2>. QED  BY <2>4 DEF u
<1>6. ReplaceFirstSubSeq(r, <<p>>, t) = Spliced(t, m, r)
  BY <1>2, <1>3, ReplacedAt
<1>8. Between(a, <<p>>, b) = t
  <2>1. <<p>> \in Seq(S)
    OBVIOUS
  <2>. QED  BY <1>0, <2>1, ConcatAssociative DEF c, Between
<1>. QED  BY <1>4, <1>5, <1>6, <1>8 DEF Spliced, Between

\* What FlattenSeq computes, as the sequence of its partial results.
LEMMA FlattenSteps ==
  ASSUME NEW S, NEW e \in Seq(Seq(S))
  PROVE  \E F \in [0..Len(e) -> Seq(S)] :
           /\ F[0] = << >>
           /\ \A n \in 1..Len(e) : F[n] = F[n - 1] \o e[n]
           /\ FlattenSeq(e) = F[Len(e)]
<1> DEFINE N == Len(e)
           G == [x \in (1..N) \X Seq(S) |-> x[2] \o e[x[1]]]
<1>1. N \in Nat /\ (\A n \in 1..N : e[n] \in Seq(S)) /\ << >> \in Seq(S)
  BY EmptySeq
<1>2. G \in [(1..N) \X Seq(S) -> Seq(S)]
  BY <1>1, ConcatProperties
<1>3. PICK F \in [0..N -> Seq(S)] : F[0] = << >> /\ \A n \in 1..N : F[n] = G[<<n, F[n - 1]>>]
  <2> HIDE DEF G, N
  <2>1. \E F : Steps(F, Seq(S), N, << >>, G)
    BY <1>1, <1>2, StepsExist
  <2>. QED  BY <2>1 DEF Steps
<1>4. ASSUME NEW n \in 1..N
      PROVE  F[n] = F[n - 1] \o e[n]
  <2> HIDE DEF N, G
  <2>1. n - 1 \in 0..N
    BY <1>1
  <2>2. F[n] = G[<<n, F[n - 1]>>] /\ F[n - 1] \in Seq(S)
    BY <1>3, <2>1
  <2>. QED  BY <2>2 DEF G
<1> HIDE DEF G
<1>7. N # 0 => F[1] = e[1]
  <2> SUFFICES ASSUME N # 0
               PROVE  F[1] = e[1]
    OBVIOUS
  <2>1. 1 \in 1..N /\ e[1] \in Seq(S)
    BY <1>1
  <2>2. F[1] = << >> \o e[1]
    <3> HIDE DEF N
    <3>1. F[1] = F[1 - 1] \o e[1]
      BY <1>4, <2>1, Zenon
    <3>. QED  BY <1>3, <3>1, 1 - 1 = 0
  <2>. QED  BY <2>1, <2>2, ConcatEmptySeq
<1>5. CASE N = 0
  <2>1. e = << >> /\ FlattenSeq(e) = e
    BY <1>5 DEF FlattenSeq
  <2>. QED  BY <1>3, <1>4, <1>5, <2>1
<1>6. CASE N # 0
  <2> DEFINE Flat(h) == h = [i \in 1..N |-> IF i = 1 THEN e[i] ELSE h[i - 1] \o e[i]]
             g == [i \in 1..N |-> F[i]]
             f == CHOOSE h : Flat(h)
  <2>1. FlattenSeq(e) = f[N]
    BY <1>6 DEF FlattenSeq
  <2>2. Flat(g)
    <3> SUFFICES ASSUME NEW i \in 1..N
                 PROVE  F[i] = IF i = 1 THEN e[i] ELSE g[i - 1] \o e[i]
      OBVIOUS
    <3>1. CASE i = 1
      BY <1>6, <1>7, <3>1
    <3>2. CASE i # 1
      <4>1. i - 1 \in 1..N
        BY <1>1, <3>2
      <4>2. g[i - 1] = F[i - 1] /\ F[i] = F[i - 1] \o e[i]
        BY <1>4, <4>1
      <4> HIDE DEF g
      <4>. QED  BY <3>2, <4>2
    <3>. QED  BY <3>1, <3>2
  <2>3. Flat(f)
    <3> HIDE DEF Flat, g
    <3> QED  BY <2>2
  <2> HIDE DEF f, g
  <2> DEFINE P == {i \in Nat : i \in 1..N => f[i] = F[i]}
  <2>4. 0 \in P
    OBVIOUS
  <2>5. ASSUME NEW i \in P
        PROVE  i + 1 \in P
    <3> SUFFICES ASSUME i + 1 \in 1..N
                 PROVE  f[i + 1] = F[i + 1]
      OBVIOUS
    <3>1. CASE i = 0
      <4>1. f[1] = e[1]
        BY <1>1, <1>6, <2>3
      <4>. QED  BY <1>6, <1>7, <3>1, <4>1
    <3>2. CASE i # 0
      <4>1. i \in 1..N /\ f[i] = F[i] /\ (i + 1) - 1 = i /\ i + 1 # 1
        BY <1>1, <3>2
      <4>2. f[i + 1] = f[i] \o e[i + 1]
        BY <2>3, <4>1
      <4>. QED  BY <1>4, <4>1, <4>2
    <3>. QED  BY <3>1, <3>2
  <2>6. P = Nat
    <3> HIDE DEF P
    <3> P \subseteq Nat  BY DEF P
    <3> QED  BY <2>4, <2>5, NatInduct
  <2>7. f[N] = F[N]
    BY <1>1, <1>6, <2>6
  <2>. QED  BY <1>3, <1>4, <2>1, <2>7
<1>. QED  BY <1>5, <1>6

\* The piece at n, where it is a reference, replaced in t.
Replaced(store, string, n, t) ==
  IF string[n].ref
  THEN ReplaceFirstSubSeq(Only(Resolve(store, string[n].id)), <<string[n]>>, t)
  ELSE t

\* What ReplaceRefs computes, as the sequence of its partial results.
LEMMA ReplaceSteps ==
  ASSUME NEW S, NEW store, NEW string \in Seq(S),
         \A n \in 1..Len(string) :
           string[n].ref => Only(Resolve(store, string[n].id)) \in Seq(S)
  PROVE  \E f \in [0..Len(string) -> Seq(S)] :
           /\ f[0] = string
           /\ \A n \in 1..Len(string) : f[n] = Replaced(store, string, n, f[n - 1])
           /\ ReplaceRefs(store, string) = f[Len(string)]
<1> DEFINE N == Len(string)
           G == [x \in (1..N) \X Seq(S) |-> Replaced(store, string, x[1], x[2])]
<1>0. N \in Nat
  OBVIOUS
<1>1. ASSUME NEW n \in 1..N, NEW t \in Seq(S)
      PROVE  Replaced(store, string, n, t) \in Seq(S)
  <2>1. CASE string[n].ref
    BY <2>1, ReplaceType DEF Replaced
  <2>2. CASE ~string[n].ref
    BY <2>2 DEF Replaced
  <2>. QED  BY <2>1, <2>2
<1>2. G \in [(1..N) \X Seq(S) -> Seq(S)]
  <2> HIDE DEF N
  <2> QED  BY <1>1
<1>3. PICK g \in [0..N -> Seq(S)] : g[0] = string /\ \A n \in 1..N : g[n] = G[<<n, g[n - 1]>>]
  <2> HIDE DEF G, N
  <2>1. \E g : Steps(g, Seq(S), N, string, G)
    BY <1>0, <1>2, StepsExist
  <2>. QED  BY <2>1 DEF Steps
<1> DEFINE Result(h) ==
             h = [n \in 0..N |->
                    IF n = 0 THEN string
                    ELSE IF string[n].ref
                         THEN ReplaceFirstSubSeq(Only(Resolve(store, string[n].id)), <<string[n]>>,
                                                 h[n - 1])
                         ELSE h[n - 1]]
           f == CHOOSE h : Result(h)
<1>4. ReplaceRefs(store, string) = f[N]
  BY DEF ReplaceRefs
<1>5. Result(g)
  <2> HIDE DEF N, G
  <2>1. ASSUME NEW n \in 1..N
        PROVE  g[n] = Replaced(store, string, n, g[n - 1])
    <3>1. n - 1 \in 0..N
      BY <1>0
    <3>2. g[n] = G[<<n, g[n - 1]>>] /\ g[n - 1] \in Seq(S)
      BY <1>3, <3>1
    <3>. QED  BY <3>2 DEF G
  <2>2. \A n \in 0..N : n = 0 \/ n \in 1..N
    BY <1>0
  <2>. QED  BY <1>3, <2>1, <2>2 DEF Replaced
<1>6. Result(f)
  <2> HIDE DEF Result
  <2> QED  BY <1>5
<1> HIDE DEF f, N
<1>7. f[0] = string
  BY <1>0, <1>6
<1>8. ASSUME NEW n \in 1..N
      PROVE  f[n] = Replaced(store, string, n, f[n - 1])
  BY <1>0, <1>6 DEF Replaced
<1> DEFINE P == {n \in Nat : n \in 0..N => f[n] \in Seq(S)}
<1>9. 0 \in P
  BY <1>7
<1>10. ASSUME NEW n \in P
       PROVE  n + 1 \in P
  <2> SUFFICES ASSUME n + 1 \in 0..N
               PROVE  f[n + 1] \in Seq(S)
    OBVIOUS
  <2>1. n \in 0..N /\ n + 1 \in 1..N /\ (n + 1) - 1 = n /\ f[n] \in Seq(S)
    BY <1>0
  <2>2. f[n + 1] = Replaced(store, string, n + 1, f[n])
    BY <1>8, <2>1
  <2>. QED  BY <1>1, <2>1, <2>2
<1>11. P = Nat
  <2> HIDE DEF P
  <2> P \subseteq Nat  BY DEF P
  <2> QED  BY <1>9, <1>10, NatInduct
<1>12. f \in [0..N -> Seq(S)]
  <2>1. ASSUME NEW n \in 0..N
        PROVE  f[n] \in Seq(S)
    <3>1. n \in P
      <4> HIDE DEF P
      <4> QED  BY <1>0, <1>11
    <3>. QED  BY <3>1
  <2>2. f = [n \in 0..N |-> f[n]]
    BY <1>6
  <2>. QED  BY <2>1, <2>2
<1>. QED  BY <1>4, <1>7, <1>8, <1>12 DEF N

\* A string with strings in place of its references is a string.
LEMMA ReplaceRefsType ==
  ASSUME NEW S, NEW store, NEW string \in Seq(S),
         \A n \in 1..Len(string) :
           string[n].ref => Only(Resolve(store, string[n].id)) \in Seq(S)
  PROVE  ReplaceRefs(store, string) \in Seq(S)
<1>1. PICK f \in [0..Len(string) -> Seq(S)] : ReplaceRefs(store, string) = f[Len(string)]
  BY ReplaceSteps
<1>2. Len(string) \in 0..Len(string)
  OBVIOUS
<1>. QED  BY <1>1, <1>2

\* What a string of the configuration stands for, piece by piece.
Parts(store, string) ==
  [i \in DOMAIN string |->
     IF string[i].ref THEN Only(Resolve(store, string[i].id)) ELSE <<string[i]>>]

\* One replacement after the other does what all of them at the same time would,
\* if no secret holds what reads like a reference.
LEMMA Substitution ==
  ASSUME NEW S, NEW store, NEW string \in Seq(S),
         \A n \in 1..Len(string) : string[n].ref =>
           /\ Only(Resolve(store, string[n].id)) \in Seq(S)
           /\ \A i \in DOMAIN Only(Resolve(store, string[n].id)) :
                ~Only(Resolve(store, string[n].id))[i].ref
  PROVE  ReplaceRefs(store, string) = FlattenSeq(Parts(store, string))
<1> DEFINE N == Len(string)
           e == Parts(store, string)
           Rest(n) == SubSeq(string, n + 1, N)
<1>0. \A a, b, r \in Seq(S) : \A p \in S :
         (\A k \in 1..Len(a) : a[k] # p) =>
           ReplaceFirstSubSeq(r, <<p>>, Between(a, <<p>>, b)) = Between(a, r, b)
  BY ReplaceInside
<1>1. N \in Nat /\ DOMAIN string = 1..N
  OBVIOUS
<1>2. ASSUME NEW n \in 1..N
      PROVE  e[n] \in Seq(S) /\ string[n] \in S
  <2>1. string[n] \in S
    OBVIOUS
  <2>2. e[n] = IF string[n].ref THEN Only(Resolve(store, string[n].id)) ELSE <<string[n]>>
    BY <1>1 DEF Parts
  <2>. QED  BY <2>1, <2>2
<1>3. e \in Seq(Seq(S)) /\ Len(e) = N
  <2>1. e = [n \in 1..N |-> e[n]]
    BY <1>1 DEF Parts
  <2> HIDE DEF e, N
  <2>2. e \in [1..N -> Seq(S)]
    BY <1>2, <2>1
  <2>. QED  BY <1>1, <2>2
<1>4. PICK F \in [0..N -> Seq(S)] :
        /\ F[0] = << >>
        /\ \A n \in 1..N : F[n] = F[n - 1] \o e[n]
        /\ FlattenSeq(e) = F[N]
  <2> HIDE DEF e, N
  <2>. QED  BY <1>3, FlattenSteps
<1>5. PICK f \in [0..N -> Seq(S)] :
        /\ f[0] = string
        /\ \A n \in 1..N : f[n] = Replaced(store, string, n, f[n - 1])
        /\ ReplaceRefs(store, string) = f[N]
  BY ReplaceSteps
<1> DEFINE Plain(t) == \A k \in 1..Len(t) : ~t[k].ref
           Done(n) == f[n] = F[n] \o Rest(n) /\ Plain(F[n])
           P == {n \in Nat : n \in 0..N => Done(n)}
<1>6. \A n \in 0..N : Rest(n) \in Seq(S)
  <2> SUFFICES ASSUME NEW n \in 0..N
               PROVE  Rest(n) \in Seq(S)
    OBVIOUS
  <2>1. \A k \in n + 1..N : string[k] \in S
    BY <1>1
  <2>. QED  BY <1>1, <2>1, SubSeqProperties
<1>7. 0 \in P
  <2>1. Rest(0) = string
    BY <1>1
  <2>2. << >> \o string = string
    BY ConcatEmptySeq
  <2> HIDE DEF Rest, N, e
  <2>. QED  BY <1>4, <1>5, <2>1, <2>2
<1>8. ASSUME NEW n \in P
      PROVE  n + 1 \in P
  <2> SUFFICES ASSUME n + 1 \in 0..N
               PROVE  Done(n + 1)
    <3> HIDE DEF Done, N
    <3>. QED  OBVIOUS
  <2> DEFINE p == string[n + 1]
             v == Only(Resolve(store, string[n + 1].id))
  <2>1. n \in 0..N /\ n + 1 \in 1..N /\ (n + 1) - 1 = n
    BY <1>1
  <2>2. f[n] = F[n] \o Rest(n) /\ Plain(F[n]) /\ F[n] \in Seq(S)
    BY <1>4, <2>1
  <2>3. Rest(n) = <<p>> \o Rest(n + 1)
    <3>1. n + 1 \in 1..Len(string) /\ N \in n + 1..Len(string)
      BY <1>1, <2>1
    <3>. QED  BY <3>1, SubSeqRecursiveFirst
  <2>4. f[n + 1] = Replaced(store, string, n + 1, f[n]) /\ F[n + 1] = F[n] \o e[n + 1]
    BY <1>4, <1>5, <2>1
  <2>5. e[n + 1] = (IF p.ref THEN v ELSE <<p>>)
    BY <1>1, <2>1 DEF Parts
  <2>6. p \in S /\ Rest(n + 1) \in Seq(S) /\ e[n + 1] \in Seq(S)
    BY <1>2, <1>6, <2>1
  <2>7. Plain(e[n + 1])
    <3>1. CASE p.ref
      <4>1. v \in Seq(S) /\ \A i \in DOMAIN v : ~v[i].ref
        BY <2>1, <3>1
      <4>. QED  BY <2>5, <3>1, <4>1
    <3>2. CASE ~p.ref
      <4>1. e[n + 1] = <<p>>
        BY <2>5, <3>2
      <4>. QED  BY <3>2, <4>1
    <3>. QED  BY <3>1, <3>2
  <2> HIDE DEF P, Rest, e, N, p, v
  <2>8. f[n + 1] = (F[n] \o e[n + 1]) \o Rest(n + 1)
    <3> DEFINE a == F[n]
               b == Rest(n + 1)
               r == e[n + 1]
    <3>0. a \in Seq(S) /\ b \in Seq(S) /\ r \in Seq(S) /\ <<p>> \in Seq(S) /\ Plain(a)
      BY <2>2, <2>6
    <3>3. f[n] = Between(a, <<p>>, b)
      <4>1. f[n] = a \o (<<p>> \o b)
        BY <2>2, <2>3
      <4> HIDE DEF a, b, r
      <4>2. (a \o <<p>>) \o b = a \o (<<p>> \o b)
        BY <3>0, ConcatAssociative
      <4>. QED  BY <4>1, <4>2, Zenon DEF Between
    <3> HIDE DEF a, b
    <3>4. f[n + 1] = Between(a, r, b)
      <4>1. CASE p.ref
        <5>1. f[n + 1] = ReplaceFirstSubSeq(r, <<p>>, Between(a, <<p>>, b))
          BY <2>4, <2>5, <4>1, <3>3 DEF Replaced, p, v
        <5> HIDE DEF r
        <5>2. \A k \in 1..Len(a) : a[k] # p
          BY <3>0, <4>1
        <5>3. ReplaceFirstSubSeq(r, <<p>>, Between(a, <<p>>, b)) = Between(a, r, b)
          BY <2>6, <3>0, <5>2, <1>0
        <5>. QED  BY <5>1, <5>3
      <4>2. CASE ~p.ref
        BY <2>4, <2>5, <4>2, <3>3 DEF Replaced, p
      <4>. QED  BY <4>1, <4>2
    <3>. QED  BY <3>4 DEF Between, a, b
  <2>9. Plain(F[n] \o e[n + 1])
    <3> DEFINE a == F[n]
               b == e[n + 1]
    <3> HIDE DEF a, b
    <3>1. a \in Seq(S) /\ b \in Seq(S) /\ Plain(a) /\ Plain(b)
      BY <2>2, <2>6, <2>7 DEF a, b
    <3>2. Plain(a \o b)
      BY <3>1
    <3>. QED  BY <3>2 DEF a, b
  <2>. QED  BY <2>4, <2>8, <2>9
<1>9. P = Nat
  <2> HIDE DEF P
  <2> P \subseteq Nat  BY DEF P
  <2> QED  BY <1>7, <1>8, NatInduct
<1>10. f[N] = F[N] \o Rest(N)
  <2>1. N \in P
    <3> HIDE DEF P
    <3>. QED  BY <1>1, <1>9
  <2>. QED  BY <1>1, <2>1
<1>11. Rest(N) = << >>
  BY <1>1
<1>12. F[N] \in Seq(S) /\ f[N] \in Seq(S)
  BY <1>1
<1>. QED
  <2> HIDE DEF Rest, N, e
  <2>. QED  BY <1>4, <1>5, <1>10, <1>11, <1>12, ConcatEmptySeq DEF e

-----------------------------------------------------------------------------
(* The parts of the invariant. *)

\* Where the pool is in each stage of the application.
StageInv ==
  /\ stage \in {"loading", "validating", "registering"} =>
       phase = "starting" /\ \A s \in Servers : runner[s] = "none"
  /\ stage = "pooling" => phase \in {"starting", "serving"}
  /\ stage \in {"serving", "cancelling", "aborting", "unwinding"} => phase = "serving"
  /\ stage = "stopping" => phase \in {"serving", "stopping"}
  /\ stage = "exited" => \A s \in Servers : runner[s] \in {"none", "done"}

\* A session or a connection has a loop that is inside open_session.
HoldInv ==
  \A s \in Servers :
    session[s] \/ link[s] # "none" =>
      runner[s] \in {"holding"} \cup Closing \cup Cancelled

\* A closed breaker has counted fewer failures than trip it.
BreakerInv ==
  \A s \in Servers :
    /\ breaker[s].failures <= FailureThreshold
    /\ breaker[s].state = "closed" => breaker[s].failures < FailureThreshold

\* A startup that failed after the pool was up: its loops were cancelled.
Aborted == stage \in {"unwinding", "exited"} /\ phase = "serving"

\* No call is made before the relay serves, nor when it never does.
CallsInv ==
  \/ stage \in {"loading", "validating", "registering", "pooling", "aborting", "unwinding"}
  \/ stage = "exited" /\ phase # "stopped"
  => \A c \in Calls : pc[c] = "idle"

RInv ==
  /\ RTypeOK
  /\ StageInv /\ HoldInv /\ BreakerInv /\ CallsInv
  /\ ~Aborted => IInv

USE BackoffAssumption, NoServerAssumption, FailureThresholdAssumption,
    SuccessThresholdAssumption, RecoveryTimeoutAssumption
    DEF Sleeping, Closing, Cancelled, poolVars, serverVars, callVars

\* The process ends with no connection open.
ExitIsClean ==
  stage = "exited" => \A s \in Servers : link[s] = "none" /\ ~session[s]

-----------------------------------------------------------------------------
(* The steps of the application, as the pool sees them. *)

\* Of the pool's state the application does nothing but what the pool's own
\* actions do, except when a failed startup cancels the loops.
LEMMA PoolSteps ==
  ASSUME RNext
  PROVE  \/ [Next]_vars
         \/ CancelLoops
<1>1. CASE Starting
  BY <1>1 DEF Starting, LoadTokens, Validate, SkipServer, RegisterDone, StartPool,
              Serve, ServeFails, Next, PoolStep
<1>2. CASE RegisterServer \/ RefresherStep \/ Tick \/ Shutdown \/ AtRest
  BY <1>2 DEF RegisterServer, RefresherStep, Tick, Shutdown, AtRest, rVars
<1>3. ASSUME NEW s \in Servers, Runner(s)
      PROVE  Next
  BY <1>3 DEF Runner, RunnerStep, Next
<1>4. ASSUME NEW c \in Calls, NEW s \in Servers, Begin(c, s)
      PROVE  Next
  BY <1>4 DEF Begin, CallStep, Next
<1>5. ASSUME NEW c \in Calls, Succeeds(c) \/ Fails(c) \/ Cancel(c)
      PROVE  Next
  BY <1>5 DEF Succeeds, Fails, Cancel, TimeOut, CallStep, Next
<1>6. CASE Stopping
  BY <1>6 DEF Stopping, RunnerStep, PoolStep, Next
<1>7. CASE Ending
  BY <1>7 DEF Ending, RefresherEnds, RefresherGoesOn, StopPool, Abort, LoopEnds,
              LoopGoesOn, RunnerStep, Next
<1>. QED  BY <1>1, <1>2, <1>3, <1>4, <1>5, <1>6, <1>7 DEF RNext

-----------------------------------------------------------------------------
(* The breakers. *)

\* What every breaker is, wherever it is.
Counted(b) ==
  /\ b \in BreakerType
  /\ b.state = "closed" => b.failures < FailureThreshold

LEMMA OutcomesCounted ==
  ASSUME NEW b, Counted(b)
  PROVE  /\ Counted(ReadState(b))
         /\ Counted(OnSuccess(b))
         /\ Counted(OnFailure(b))
         /\ Counted(PassTime(b))
<1> USE DEF Counted, BreakerType, State
<1>1. Counted(ReadState(b))
  BY DEF ReadState
<1>2. Counted(OnSuccess(b))
  BY DEF OnSuccess
<1>3. Counted(OnFailure(b))
  BY DEF OnFailure
<1>4. Counted(PassTime(b))
  BY DEF PassTime
<1>. QED  BY <1>1, <1>2, <1>3, <1>4

\* The breaker of a server takes its next value, the others keep theirs.
LEMMA NoteCounted ==
  ASSUME breaker \in [Servers -> BreakerType], BreakerInv,
         NEW s, NEW b, s \in Servers => Counted(b), Note(s, b)
  PROVE  breaker' \in [Servers -> BreakerType] /\ BreakerInv'
<1> DEFINE f == IF b.failures > FailureThreshold THEN FailureThreshold ELSE b.failures
<1>1. breaker' = [breaker EXCEPT ![s] = [b EXCEPT !.failures = f]]
  BY DEF Note
<1>2. s \in Servers => /\ [b EXCEPT !.failures = f] \in BreakerType
                       /\ f <= FailureThreshold
                       /\ b.state = "closed" => f < FailureThreshold
  BY DEF Counted, BreakerType
<1>. QED  BY <1>1, <1>2 DEF BreakerInv, BreakerType

\* Whatever a call or the time does to a breaker leaves it a breaker.
LEMMA BreakerPreserves ==
  ASSUME breaker \in [Servers -> BreakerType], BreakerInv, [RNext]_rVars
  PROVE  breaker' \in [Servers -> BreakerType] /\ BreakerInv'
<1>0. \A s \in Servers : Counted(breaker[s])
  BY DEF BreakerInv, Counted
<1>1. ASSUME NEW c \in Calls, NEW s \in Servers, Begin(c, s)
      PROVE  breaker' \in [Servers -> BreakerType] /\ BreakerInv'
  BY <1>0, <1>1, OutcomesCounted, NoteCounted DEF Begin
<1>2. ASSUME NEW c \in Calls, Succeeds(c)
      PROVE  breaker' \in [Servers -> BreakerType] /\ BreakerInv'
  BY <1>0, <1>2, OutcomesCounted, NoteCounted DEF Succeeds
<1>3. ASSUME NEW c \in Calls, Fails(c)
      PROVE  breaker' \in [Servers -> BreakerType] /\ BreakerInv'
  BY <1>0, <1>3, OutcomesCounted, NoteCounted DEF Fails, RecordFailure
<1>4. CASE Tick
  BY <1>0, <1>4, OutcomesCounted, NoteCounted DEF Tick
<1>5. ASSUME UNCHANGED breaker
      PROVE  breaker' \in [Servers -> BreakerType] /\ BreakerInv'
  BY <1>5 DEF BreakerInv
<1>6. ASSUME NEW c \in Calls, Cancel(c)
      PROVE  UNCHANGED breaker
  BY <1>6 DEF Cancel, relayVars
<1>7. CASE Starting \/ RegisterServer \/ RefresherStep \/ \E s \in Servers : Runner(s)
  <2>. UNCHANGED breaker
    BY <1>7 DEF Starting, LoadTokens, Validate, SkipServer, RegisterServer, RegisterDone,
                StartPool, Serve, ServeFails, RefresherStep, Runner, relayVars
  <2>. QED  BY <1>5
<1>8. CASE Shutdown \/ Ending \/ Stopping \/ AtRest \/ UNCHANGED rVars
  <2>. UNCHANGED breaker
    BY <1>8 DEF Shutdown, Ending, RefresherEnds, RefresherGoesOn, StopPool, CancelLoops,
                Abort, LoopEnds, LoopGoesOn, Stopping, AtRest, rVars, relayVars
  <2>. QED  BY <1>5
<1>. QED  BY <1>1, <1>2, <1>3, <1>4, <1>5, <1>6, <1>7, <1>8 DEF RNext

-----------------------------------------------------------------------------
(* The pool in the application. *)

\* The pool keeps its types even where its invariant is gone.
LEMMA PoolTypes ==
  ASSUME TypeOK, Next
  PROVE  TypeOK'
<1> USE DEF TypeOK
<1>1. ASSUME NEW s \in Servers, StartServer(s) \/ StopServer(s) \/ StopReturns(s)
      PROVE  TypeOK'
  BY <1>1 DEF StartServer, StopServer, StopReturns, CancelRunner
<1>2. ASSUME NEW s \in Servers, OpenOk(s)
      PROVE  TypeOK'
  BY <1>2 DEF OpenOk, StartReturns
<1>3. ASSUME NEW s \in Servers, FirstOpenFails(s)
      PROVE  TypeOK'
  BY <1>3 DEF FirstOpenFails, StartReturns
<1>4. ASSUME NEW s \in Servers, NEW sleep \in Sleeping, LoseSession(s, sleep)
      PROVE  TypeOK'
  BY <1>4 DEF LoseSession
<1>5. ASSUME NEW s \in Servers, DieSilently(s) \/ CancelEnds(s)
      PROVE  TypeOK'
  BY <1>5 DEF DieSilently, CancelEnds
<1>10. ASSUME NEW s \in Servers, NEW how \in Closing, Drop(s, how)
       PROVE  TypeOK'
  BY <1>10 DEF Drop
<1>6. ASSUME NEW s \in Servers, Retry(s)
      PROVE  TypeOK'
  BY <1>6 DEF Retry, Wake, NextBackoff
<1>7. ASSUME NEW s \in Servers, RunnerStep(s)
      PROVE  TypeOK'
  BY <1>2, <1>3, <1>4, <1>5, <1>6, <1>7, <1>10 DEF RunnerStep, ReopenFails, Unwound, CancelRaises
<1>8. ASSUME NEW c \in Calls, CallStep(c)
      PROVE  TypeOK'
  BY <1>8 DEF CallStep, Call, Refuse, Return, CallRaises, TimeOut, Leave
<1>9. CASE StartDone \/ StopDone \/ Terminated
  BY <1>9 DEF StartDone, StopDone, Terminated, vars
<1>. QED  BY <1>1, <1>7, <1>8, <1>9 DEF Next, PoolStep

\* No step of the pool leaves a session or a connection without its loop.
LEMMA PoolHolds ==
  ASSUME TypeOK, HoldInv, ~Aborted => IInv, Next
  PROVE  HoldInv'
<1> USE DEF TypeOK, HoldInv
<1>1. ASSUME NEW s \in Servers, StartServer(s) \/ StopServer(s) \/ StopReturns(s)
      PROVE  HoldInv'
  <2>1. CASE StartServer(s)
    BY <2>1 DEF StartServer, Aborted, IInv, PhaseInv
  <2>2. CASE StopServer(s)
    <3>1. /\ session' = session /\ link' = link
          /\ runner' = [runner EXCEPT ![s] = CancelRunner(runner[s])]
      BY <2>2 DEF StopServer
    <3>2. runner[s] \in {"holding"} \cup Closing \cup Cancelled =>
            CancelRunner(runner[s]) \in Cancelled
      BY DEF CancelRunner
    <3>. QED  BY <3>1, <3>2
  <2>3. CASE StopReturns(s)
    BY <2>3 DEF StopReturns
  <2>. QED  BY <1>1, <2>1, <2>2, <2>3
<1>2. ASSUME NEW s \in Servers, OpenOk(s) \/ FirstOpenFails(s)
      PROVE  HoldInv'
  BY <1>2 DEF OpenOk, FirstOpenFails
<1>3. ASSUME NEW s \in Servers, NEW sleep, LoseSession(s, sleep)
      PROVE  HoldInv'
  BY <1>3 DEF LoseSession
<1>4. ASSUME NEW s \in Servers,
             \/ DieSilently(s) \/ (\E how \in Closing : Drop(s, how))
             \/ CancelEnds(s) \/ Retry(s)
      PROVE  HoldInv'
  BY <1>4 DEF DieSilently, Drop, CancelEnds, Retry, Wake
<1>5. ASSUME NEW s \in Servers, RunnerStep(s)
      PROVE  HoldInv'
  BY <1>2, <1>3, <1>4, <1>5 DEF RunnerStep, ReopenFails, Unwound, CancelRaises
<1>6. ASSUME NEW c \in Calls, CallStep(c)
      PROVE  HoldInv'
  BY <1>6 DEF CallStep, Call, Refuse, Return, CallRaises, TimeOut, Leave
<1>7. CASE StartDone \/ StopDone \/ Terminated
  BY <1>7 DEF StartDone, StopDone, Terminated, vars
<1>. QED  BY <1>1, <1>5, <1>6, <1>7 DEF Next, PoolStep

-----------------------------------------------------------------------------
(* The stages of the application. *)

\* A connection loop steps only where there is one, and leaves the phase alone.
LEMMA RunnerStays ==
  ASSUME NEW s \in Servers, Runner(s)
  PROVE  /\ phase' = phase /\ stage' = stage
         /\ runner[s] # "none" /\ stage # "exited"
         /\ (\A c \in Calls : pc[c] = "idle") => \A c \in Calls : pc'[c] = "idle"
<1>1. ASSUME NEW sleep, LoseSession(s, sleep)
      PROVE  phase' = phase /\ pc' = pc
  BY <1>1 DEF LoseSession
<1>. QED
  BY <1>1 DEF Runner, OpenOk, FirstOpenFails, StartReturns, ReopenFails, DieSilently, Drop,
              Unwound, Retry, Wake, relayVars

\* Calls change neither the pool nor the stage.
LEMMA CallsStay ==
  ASSUME NEW c \in Calls,
         (\E s \in Servers : Begin(c, s)) \/ Succeeds(c) \/ Fails(c) \/ Cancel(c)
  PROVE  UNCHANGED <<poolVars, serverVars, stage, bootVars, refresher, swallowed>>
<1>1. ASSUME Leave(c)
      PROVE  UNCHANGED <<poolVars, serverVars>>
  BY <1>1 DEF Leave
<1>. QED
  BY <1>1 DEF Begin, Call, Succeeds, Fails, Cancel, Refuse, Return, CallRaises, TimeOut, relayVars

\* Where the pool is follows the stage of the application.
LEMMA StagePreserves ==
  ASSUME StageInv, stage = "stopping" => IInv, [RNext]_rVars
  PROVE  StageInv'
<1> USE DEF StageInv
<1>1. CASE \/ LoadTokens \/ Validate \/ SkipServer \/ RegisterServer \/ RegisterDone
           \/ Serve \/ ServeFails
  BY <1>1 DEF LoadTokens, Validate, SkipServer, RegisterServer, RegisterDone,
              Serve, ServeFails, vars
<1>2. CASE StartPool
  BY <1>2 DEF StartPool, StartDone, StartServer, relayVars
<1>3. ASSUME NEW s \in Servers, Runner(s)
      PROVE  StageInv'
  BY <1>3, RunnerStays
<1>4. ASSUME NEW c \in Calls,
             (\E s \in Servers : Begin(c, s)) \/ Succeeds(c) \/ Fails(c) \/ Cancel(c)
      PROVE  StageInv'
  BY <1>4, CallsStay
<1>5. CASE RefresherStep \/ Tick \/ AtRest \/ UNCHANGED rVars
  BY <1>5 DEF RefresherStep, Tick, AtRest, rVars, vars, relayVars
<1>6. CASE Shutdown \/ RefresherEnds \/ RefresherGoesOn \/ StopPool \/ Abort
  BY <1>6 DEF Shutdown, RefresherEnds, RefresherGoesOn, StopPool, Abort, vars
<1>7. CASE CancelLoops \/ \E s \in Servers : LoopEnds(s) \/ LoopGoesOn(s)
  BY <1>7 DEF CancelLoops, LoopEnds, LoopGoesOn, CancelEnds, CancelRaises, LoseSession, relayVars
<1>8. CASE Stopping
  <2>1. IInv /\ stage = "stopping"
    BY <1>8 DEF Stopping
  <2>2. Next
    BY <1>8 DEF Stopping, RunnerStep, PoolStep, Next
  <2>3. IInv'
    BY <2>1, <2>2, StepPreserves
  <2>4. phase' \in {"serving", "stopping", "stopped"}
    BY <1>8, <2>1 DEF Stopping, StopServer, StopReturns, CancelEnds, CancelRaises,
                      LoseSession, StopDone
  <2>5. phase' = "stopped" => \A s \in Servers : runner'[s] = "done"
    BY <2>3 DEF IInv, PhaseInv
  <2>. QED  BY <1>8, <2>4, <2>5 DEF Stopping
<1>. QED
  BY <1>1, <1>2, <1>3, <1>4, <1>5, <1>6, <1>7, <1>8 DEF RNext, Starting, Ending

\* No call begins before the relay serves, and none is left when it never does.
LEMMA CallsPreserve ==
  ASSUME CallsInv, StageInv, [RNext]_rVars
  PROVE  CallsInv'
<1> USE DEF CallsInv, StageInv
<1>1. CASE \/ LoadTokens \/ Validate \/ SkipServer \/ RegisterServer \/ RegisterDone
           \/ Serve \/ ServeFails
  BY <1>1 DEF LoadTokens, Validate, SkipServer, RegisterServer, RegisterDone,
              Serve, ServeFails, vars
<1>2. CASE StartPool
  BY <1>2 DEF StartPool, StartDone, StartServer, relayVars
<1>3. ASSUME NEW s \in Servers, Runner(s)
      PROVE  CallsInv'
  BY <1>3, RunnerStays
<1>4. ASSUME NEW c \in Calls,
             (\E s \in Servers : Begin(c, s)) \/ Succeeds(c) \/ Fails(c) \/ Cancel(c)
      PROVE  CallsInv'
  <2>1. pc[c] # "idle" \/ stage \in {"serving", "cancelling", "stopping"}
    BY <1>4 DEF Begin, Succeeds, Fails, Cancel, Refuse, Return, CallRaises, TimeOut
  <2>2. stage' = stage /\ phase' = phase
    BY <1>4, CallsStay
  <2>. QED  BY <2>1, <2>2
<1>5. CASE RefresherStep \/ Tick \/ AtRest \/ UNCHANGED rVars
  BY <1>5 DEF RefresherStep, Tick, AtRest, rVars, vars, relayVars
<1>6. CASE Shutdown \/ RefresherEnds \/ RefresherGoesOn \/ StopPool \/ Abort
  BY <1>6 DEF Shutdown, RefresherEnds, RefresherGoesOn, StopPool, Abort, vars
<1>7. CASE CancelLoops \/ \E s \in Servers : LoopEnds(s) \/ LoopGoesOn(s)
  BY <1>7 DEF CancelLoops, LoopEnds, LoopGoesOn, CancelEnds, CancelRaises, LoseSession, relayVars
<1>8. CASE Stopping
  BY <1>8 DEF Stopping
<1>. QED
  BY <1>1, <1>2, <1>3, <1>4, <1>5, <1>6, <1>7, <1>8 DEF RNext, Starting, Ending

-----------------------------------------------------------------------------
(* What startup makes of the settings. *)

\* The tokens are those of the settings.
TokensInv ==
  stage \notin {"loading", "exited"} =>
    InboundTokens(settings) # {} /\ tokens = Only(InboundTokens(settings))

\* The servers are validated before any is registered; those that offer tools
\* have been connected to.
ConfigInv ==
  /\ stage \notin {"loading", "validating", "exited"} =>
       \A server \in Range(settings.servers) : Validated(server)
  /\ handled \in 0..Len(settings.servers) /\ offering \subseteq 1..handled
  /\ \A i \in offering : Connection(settings.store, settings.servers[i]) # {}
  /\ stage \notin {"loading", "validating", "registering", "exited"} =>
       EnabledServers(settings) = {} \/ offering # {}

\* The settings stay, and what startup made of them as well.
BootInv ==
  /\ settings \in Settings
  /\ TokensInv /\ ConfigInv

\* The servers are a sequence.
LEMMA ServersType ==
  ASSUME settings \in Settings
  PROVE  /\ settings.servers \in Seq(Range(settings.servers))
         /\ Len(settings.servers) \in Nat
         /\ DOMAIN settings.servers = 1..Len(settings.servers)
         /\ \A i \in 1..Len(settings.servers) : settings.servers[i] \in Range(settings.servers)
<1>1. settings.servers \in Seq(Range(settings.servers))
  BY SettingsAssumption
<1>2. ASSUME NEW S, NEW q \in Seq(S)
      PROVE  Len(q) \in Nat /\ DOMAIN q = 1..Len(q) /\ \A i \in 1..Len(q) : q[i] \in S
  OBVIOUS
<1>. QED  BY <1>1, <1>2

\* One more server is handled.
LEMMA OneMoreHandled ==
  ASSUME NEW n \in Nat, NEW S, S \subseteq 1..n
  PROVE  n + 1 \in Nat /\ S \subseteq 1..(n + 1) /\ S \cup {n + 1} \subseteq 1..(n + 1)
OBVIOUS

LEMMA BootInitInv == RInit => BootInv
<1> SUFFICES ASSUME RInit
             PROVE  BootInv
  OBVIOUS
<1>1. Len(settings.servers) \in Nat
  BY ServersType DEF RInit
<1>. QED  BY <1>1 DEF RInit, BootInv, TokensInv, ConfigInv

LEMMA BootPreserves == BootInv /\ [RNext]_rVars => BootInv'
<1> SUFFICES ASSUME BootInv, [RNext]_rVars
             PROVE  BootInv'
  OBVIOUS
<1> USE DEF BootInv
<1>0. Len(settings.servers) \in Nat
  BY ServersType
<1>1. CASE LoadTokens
  BY <1>1 DEF LoadTokens, TokensInv, ConfigInv
<1>2. CASE Validate \/ SkipServer \/ RegisterServer \/ RegisterDone
  <2>1. CASE Validate
    BY <2>1 DEF Validate, bootVars, TokensInv, ConfigInv
  <2>2. CASE SkipServer
    BY <1>0, <2>2 DEF SkipServer, TokensInv, ConfigInv
  <2>3. CASE RegisterServer
    <3>1. TokensInv'
      BY <2>3 DEF RegisterServer, TokensInv
    <3>2. /\ handled' \in 0..Len(settings.servers) /\ handled' = handled + 1
          /\ settings' = settings /\ stage = "registering" /\ stage' \in {stage, "exited"}
      BY <1>0, <2>3 DEF RegisterServer, ConfigInv
    <3>4. offering' = offering \/ offering' = offering \cup {handled + 1}
      BY <2>3 DEF RegisterServer
    <3>5. offering \subseteq 1..handled /\ handled \in Nat
      BY <1>0 DEF ConfigInv
    <3>6. offering' \subseteq 1..(handled + 1)
      BY <3>4, <3>5, OneMoreHandled, Zenon
    <3>3. \A i \in offering' : Connection(settings.store, settings.servers[i]) # {}
      BY <2>3 DEF RegisterServer, NextServer, ConfigInv
    <3>. QED  BY <3>1, <3>2, <3>3, <3>6 DEF ConfigInv
  <2>4. CASE RegisterDone
    BY <2>4 DEF RegisterDone, bootVars, TokensInv, ConfigInv
  <2>. QED  BY <1>2, <2>1, <2>2, <2>3, <2>4
<1> DEFINE Later == /\ UNCHANGED bootVars
                    /\ \/ stage' = stage \/ stage' = "exited"
                       \/ stage \notin {"loading", "validating", "registering", "exited"}
<1> USE DEF bootVars
<1>3. CASE StartPool \/ Serve \/ ServeFails
  <2>. Later
    BY <1>3 DEF StartPool, Serve, ServeFails, relayVars
  <2>. QED  BY DEF TokensInv, ConfigInv
<1>4. CASE RefresherStep \/ Tick \/ Shutdown \/ AtRest \/ UNCHANGED rVars
  <2>. Later
    BY <1>4 DEF RefresherStep, Tick, Shutdown, AtRest, rVars, relayVars
  <2>. QED  BY DEF TokensInv, ConfigInv
<1>5. CASE \E s \in Servers : Runner(s)
  <2>. Later
    BY <1>5 DEF Runner, relayVars
  <2>. QED  BY DEF TokensInv, ConfigInv
<1>6. ASSUME NEW c \in Calls,
             (\E s \in Servers : Begin(c, s)) \/ Succeeds(c) \/ Fails(c) \/ Cancel(c)
      PROVE  BootInv'
  <2>. Later
    BY <1>6, CallsStay
  <2>. QED  BY DEF TokensInv, ConfigInv
<1>7. CASE Ending \/ Stopping
  <2>. Later
    BY <1>7 DEF Ending, RefresherEnds, RefresherGoesOn, StopPool, CancelLoops, Abort,
                LoopEnds, LoopGoesOn, Stopping, relayVars
  <2>. QED  BY DEF TokensInv, ConfigInv
<1>. QED  BY <1>1, <1>2, <1>3, <1>4, <1>5, <1>6, <1>7 DEF RNext, Starting

LEMMA BootInvariance == RSpec => []BootInv
BY BootInitInv, BootPreserves, PTL DEF RSpec

\* What a string of the settings is resolved to, if it is.
LEMMA ResolvedString ==
  ASSUME settings \in Settings, NEW t \in StringsOf(settings), Resolvable(settings.store, t)
  PROVE  /\ ReplaceRefs(settings.store, t) \notin {Null, Number}
         /\ PlainSecrets => ReplaceRefs(settings.store, t) = Meaning(t)
<1> DEFINE S == PiecesOf(settings)
           v(n) == Only(Resolve(settings.store, t[n].id))
<1>1. t \in Seq(S) /\ SecretsOf(settings) \subseteq Seq(S) /\ {Null, Number} \cap Seq(S) = {}
  BY SettingsAssumption
<1>2. ASSUME NEW n \in 1..Len(t), t[n].ref
      PROVE  /\ v(n) \in Seq(S)
             /\ PlainSecrets => \A i \in DOMAIN v(n) : ~v(n)[i].ref
  <2>1. n \in DOMAIN t
    BY <1>1
  <2>2. t[n].id \in DOMAIN settings.store.entries
    BY <1>2, <2>1, SettingsAssumption
  <2>3. v(n) \in Resolve(settings.store, t[n].id)
    BY <1>2, <2>1 DEF Resolvable, Only
  <2>4. v(n) \in SecretsOf(settings)
    BY <2>2, <2>3 DEF SecretsOf
  <2>. QED  BY <1>1, <2>2, <2>3, <2>4 DEF PlainSecrets
<1>3. ReplaceRefs(settings.store, t) \in Seq(S)
  <2> HIDE DEF S
  <2>1. \A n \in 1..Len(t) : t[n].ref => v(n) \in Seq(S)
    BY <1>2
  <2>. QED  BY <1>1, <2>1, ReplaceRefsType
<1>4. ASSUME PlainSecrets
      PROVE  ReplaceRefs(settings.store, t) = Meaning(t)
  <2> HIDE DEF S
  <2>1. \A n \in 1..Len(t) : t[n].ref =>
          v(n) \in Seq(S) /\ \A i \in DOMAIN v(n) : ~v(n)[i].ref
    BY <1>2, <1>4
  <2>2. ReplaceRefs(settings.store, t) = FlattenSeq(Parts(settings.store, t))
    BY <1>1, <2>1, Substitution
  <2>. QED  BY <2>2 DEF Meaning, Parts
<1>. QED  BY <1>1, <1>3, <1>4


-----------------------------------------------------------------------------
(* The inductive invariant. *)

LEMMA RInitInv == RInit => RInv
<1> SUFFICES ASSUME RInit
             PROVE  RInv
  OBVIOUS
<1>1. IInv /\ HoldInv
  BY InitIInv DEF RInit, Init, HoldInv
<1>2. breaker \in [Servers -> BreakerType] /\ BreakerInv
  BY DEF RInit, NewBreaker, BreakerType, State, BreakerInv
<1>3. StageInv /\ CallsInv
  BY DEF RInit, Init, StageInv, CallsInv
<1>. QED  BY <1>1, <1>2, <1>3 DEF RInit, RInv, RTypeOK, IInv, Booting

LEMMA RInvPreserves == RInv /\ [RNext]_rVars => RInv'
<1> SUFFICES ASSUME RInv, [RNext]_rVars
             PROVE  RInv'
  OBVIOUS
<1> USE DEF RInv
<1>1. breaker' \in [Servers -> BreakerType] /\ BreakerInv'
  BY BreakerPreserves DEF RTypeOK
<1>2. StageInv' /\ CallsInv'
  BY StagePreserves, CallsPreserve DEF Aborted
<1>3. \/ [Next]_vars
      \/ CancelLoops
  BY PoolSteps DEF rVars
<1>4. ASSUME CancelLoops
      PROVE  TypeOK' /\ HoldInv' /\ stage' = "unwinding" /\ phase' = "serving"
  BY <1>4 DEF CancelLoops, CancelRunner, RTypeOK, TypeOK, HoldInv, StageInv
<1>5. ASSUME [Next]_vars
      PROVE  TypeOK' /\ HoldInv'
  <2>1. CASE Next
    BY <2>1, PoolTypes, PoolHolds DEF RTypeOK
  <2>2. CASE UNCHANGED vars
    BY <2>2 DEF vars, RTypeOK, TypeOK, HoldInv
  <2>. QED  BY <1>5, <2>1, <2>2
<1>6. /\ stage' \in Booting \cup GoingDown \cup {"serving", "exited"}
      /\ refresher' \in {"none", "sleeping", "reading", "discovering",
                         "cancelled", "cancelled discovering", "done"}
      /\ swallowed' \in BOOLEAN
      /\ stage \in {"unwinding", "exited"} => stage' \in {"unwinding", "exited"}
  <2> USE DEF RTypeOK, Booting, GoingDown
  <2>1. CASE Starting \/ RegisterServer
    BY <2>1 DEF Starting, LoadTokens, Validate, SkipServer, RegisterServer, RegisterDone,
                StartPool, Serve, ServeFails, relayVars
  <2>5. CASE RefresherStep \/ Tick \/ Shutdown \/ AtRest \/ UNCHANGED rVars
    BY <2>5 DEF RefresherStep, Tick, Shutdown, CancelRefresher, AtRest, rVars, relayVars
  <2>2. CASE \E s \in Servers : Runner(s)
    BY <2>2 DEF Runner, relayVars
  <2>3. ASSUME NEW c \in Calls,
               (\E s \in Servers : Begin(c, s)) \/ Succeeds(c) \/ Fails(c) \/ Cancel(c)
        PROVE  UNCHANGED <<stage, refresher, swallowed>>
    BY <2>3, CallsStay
  <2>4. CASE Ending \/ Stopping
    BY <2>4 DEF Ending, RefresherEnds, RefresherGoesOn, StopPool, CancelLoops, Abort,
                LoopEnds, LoopGoesOn, Stopping, relayVars
  <2>. QED  BY <2>1, <2>2, <2>3, <2>4, <2>5 DEF RNext
<1>9. handled' \in Nat /\ offering' \subseteq 1..handled'
  <2> USE DEF RTypeOK, bootVars
  <2>1. CASE Starting \/ RegisterServer
    <3>1. \/ handled' = handled /\ offering' = offering
          \/ /\ handled' = handled + 1
             /\ offering' = offering \/ offering' = offering \cup {handled + 1}
      BY <2>1 DEF Starting, LoadTokens, Validate, SkipServer, RegisterServer, RegisterDone,
                  StartPool, Serve, ServeFails, relayVars
    <3>2. handled \in Nat /\ offering \subseteq 1..handled
      BY Zenon
    <3>3. handled + 1 \in Nat
      BY <3>2, OneMoreHandled, Zenon
    <3>. QED  BY <3>1, <3>2, <3>3, OneMoreHandled, Zenon
  <2>2. CASE RefresherStep \/ Tick \/ Shutdown \/ AtRest \/ UNCHANGED rVars
    BY <2>2 DEF RefresherStep, Tick, Shutdown, AtRest, rVars, relayVars
  <2>3. CASE \E s \in Servers : Runner(s)
    BY <2>3 DEF Runner, relayVars
  <2>4. ASSUME NEW c \in Calls,
               (\E s \in Servers : Begin(c, s)) \/ Succeeds(c) \/ Fails(c) \/ Cancel(c)
        PROVE  UNCHANGED bootVars
    BY <2>4, CallsStay
  <2>5. CASE Ending \/ Stopping
    BY <2>5 DEF Ending, RefresherEnds, RefresherGoesOn, StopPool, CancelLoops, Abort,
                LoopEnds, LoopGoesOn, Stopping, relayVars
  <2>. QED  BY <2>1, <2>2, <2>3, <2>4, <2>5 DEF RNext
<1>7. stage \in {"unwinding", "exited"} => phase' = phase
  <2> SUFFICES ASSUME stage \in {"unwinding", "exited"}
               PROVE  phase' = phase
    OBVIOUS
  <2>1. CASE Starting \/ RegisterServer
    BY <2>1 DEF Starting, LoadTokens, Validate, SkipServer, RegisterServer, RegisterDone,
                StartPool, Serve, ServeFails, vars
  <2>5. CASE RefresherStep \/ Tick \/ Shutdown \/ AtRest \/ UNCHANGED rVars
    BY <2>5 DEF RefresherStep, Tick, Shutdown, AtRest, rVars, vars
  <2>2. CASE \E s \in Servers : Runner(s)
    BY <2>2, RunnerStays
  <2>3. ASSUME NEW c \in Calls,
               (\E s \in Servers : Begin(c, s)) \/ Succeeds(c) \/ Fails(c) \/ Cancel(c)
        PROVE  phase' = phase
    BY <2>3, CallsStay
  <2>4. CASE Ending \/ Stopping
    BY <2>4 DEF Ending, RefresherEnds, RefresherGoesOn, StopPool, CancelLoops, Abort,
                LoopEnds, LoopGoesOn, CancelEnds, CancelRaises, LoseSession, Stopping, vars
  <2>. QED  BY <2>1, <2>2, <2>3, <2>4, <2>5 DEF RNext
<1>8. ~Aborted' => IInv'
  <2>1. Aborted => Aborted'
    BY <1>6, <1>7 DEF Aborted
  <2>. QED  BY <1>3, <1>4, <2>1, StepPreserves DEF Aborted
<1>. QED  BY <1>1, <1>2, <1>3, <1>4, <1>5, <1>6, <1>8, <1>9 DEF RTypeOK

\* The application's invariant holds in every reachable state.
THEOREM RInvariance == RSpec => []RInv
BY RInitInv, RInvPreserves, PTL DEF RSpec

-----------------------------------------------------------------------------

\* Every variable of the application, its pool and its breakers keeps its type.
THEOREM RTypeCorrect == RSpec => []RTypeOK
<1>1. RInv => RTypeOK
  BY DEF RInv
<1>. QED  BY <1>1, RInvariance, PTL

\* What GET /health says of a server while the relay serves is what a call to
\* it meets: "ok" is a session and a closed breaker, "connecting" is a loop
\* that opens or sleeps before it does, unless the server failed to start.
THEOREM StatusIsTrue == RSpec => []StatusTellsCalls
<1>1. RInv => StatusTellsCalls
  <2> SUFFICES ASSUME RInv, stage = "serving", NEW s \in Servers
               PROVE  /\ Status(s) = "ok" =>
                           connected[s] /\ session[s] /\ breaker[s].state = "closed"
                      /\ Status(s) = "connecting" =>
                           \/ failed[s] /\ connected[s]
                           \/ ~connected[s] /\ runner[s] \in {"opening"} \cup Sleeping
    BY DEF StatusTellsCalls
  <2>1. IInv /\ entries = Servers /\ ~shutdown[s] /\ RunnerInv(s)
    BY DEF RInv, StageInv, Aborted, IInv, PhaseInv
  <2>2. ReadState(breaker[s]).state = "closed" => breaker[s].state = "closed"
    BY DEF ReadState
  <2>3. Status(s) = "ok" => connected[s] /\ session[s] /\ breaker[s].state = "closed"
    BY <2>1, <2>2 DEF Status, SessionStatus
  <2>4. Status(s) = "connecting" => ~(connected[s] /\ session[s])
    BY <2>1 DEF Status, SessionStatus
  <2>5. ~(connected[s] /\ session[s]) =>
           \/ failed[s] /\ connected[s]
           \/ ~connected[s] /\ runner[s] \in {"opening"} \cup Sleeping
    BY <2>1 DEF IInv, TypeOK, PhaseInv, RunnerInv
  <2>. QED  BY <2>3, <2>4, <2>5
<1>. QED  BY <1>1, RInvariance, PTL

\* Whichever way the process comes down, when it ends no session is kept and no
\* connection is open, not even after a startup that failed with the pool up.
THEOREM ExitCloses == RSpec => []ExitIsClean
<1>1. RInv => ExitIsClean
  BY DEF RInv, StageInv, HoldInv, ExitIsClean
<1>. QED  BY <1>1, RInvariance, PTL

\* The application does to its pool only what the pool's own actions do, until a
\* failed startup cancels the connection loops behind the pool's back.
THEOREM DrivesPool ==
  RSpec => Init /\ [][Next \/ CancelLoops]_vars
<1>1. RInit => Init
  BY DEF RInit
<1>2. [RNext]_rVars => [Next \/ CancelLoops]_vars
  BY PoolSteps DEF rVars
<1>. QED  BY <1>1, <1>2, PTL DEF RSpec

\* What is proved of the pool holds of the one the application drives, with the
\* breakers in front of it, until a failed startup cancels the loops.
THEOREM PoolIsSafe ==
  RSpec => [](~Aborted => EventMatchesSession /\ WaitersHaveARunner /\ NoLeak)
<1>1. IInv => EventMatchesSession /\ WaitersHaveARunner /\ NoLeak
  BY DEF IInv, EventMatchesSession, WaitersHaveARunner, NoLeak, TypeOK, RunnerInv, PhaseInv, CallInv
<1>2. RInv => (~Aborted => EventMatchesSession /\ WaitersHaveARunner /\ NoLeak)
  BY <1>1 DEF RInv
<1>. QED  BY <1>2, RInvariance, PTL

\* README.md:640-647, for any settings whose bearer tokens do not all turn out
\* empty: while the relay is up, a request is let through with one of the
\* configured tokens, the references in it replaced, or to /health, or if no
\* authentication is configured, and no other is.
THEOREM TokensAsConfigured == RSpec => []InboundAsConfigured
<1>1. BootInv => InboundAsConfigured
  <2> DEFINE strings == Range(settings.inbound.tokens)
             resolve(s) == ResolveString(settings.store, s)
  <2> SUFFICES ASSUME BootInv, stage \notin {"loading", "exited"}, PlainSecrets, ~TokensLost,
                      NEW r \in Requests
               PROVE  Accepts(tokens, r) <=> \/ r.path = "/health" \/ settings.inbound.type = "none"
                                             \/ r.token \in ConfiguredTokens
    BY Zenon DEF InboundAsConfigured
  <2>1. settings \in Settings /\ InboundTokens(settings) # {}
        /\ tokens = Only(InboundTokens(settings))
    BY DEF BootInv, TokensInv
  <2>2. CASE settings.inbound.type = "none"
    <3>1. InboundTokens(settings) = {{}}
      BY <2>2 DEF InboundTokens
    <3>2. tokens = {}
      BY <2>1, <3>1 DEF Only
    <3>. QED  BY <2>2, <3>2 DEF Accepts
  <2>3. CASE settings.inbound.type # "none"
    <3>1. /\ settings.inbound.type = "bearer"
          /\ \A s \in strings : resolve(s) # {}
          /\ InboundTokens(settings) = {NonEmpty(UNION {resolve(s) : s \in strings})}
      BY <2>1, <2>3 DEF InboundTokens
    <3>2. ASSUME NEW s \in strings
          PROVE  resolve(s) = {Meaning(s)}
      <4>1. Resolvable(settings.store, s) /\ resolve(s) = {ReplaceRefs(settings.store, s)}
        BY <3>1 DEF ResolveString
      <4>2. s \in StringsOf(settings)
        BY DEF StringsOf
      <4>. QED  BY <2>1, <4>1, <4>2, ResolvedString
    <3>3. tokens = ConfiguredTokens
      <4> HIDE DEF strings, resolve
      <4>1. tokens = (UNION {resolve(s) : s \in strings}) \ {<< >>}
        BY <2>1, <3>1 DEF Only, NonEmpty
      <4>2. UNION {resolve(s) : s \in strings} = {Meaning(s) : s \in strings}
        BY <3>2
      <4>. QED  BY <4>1, <4>2 DEF ConfiguredTokens, strings
    <3>4. tokens # {}
      BY <3>1, <3>3 DEF TokensLost
    <3>. QED  BY <2>3, <3>3, <3>4 DEF Accepts
  <2>. QED  BY <2>2, <2>3
<1>. QED  BY <1>1, BootInvariance, PTL

\* What the section of a server that validation lets pass is resolved to.
LEMMA ResolvedAuth ==
  ASSUME settings \in Settings, PlainSecrets,
         NEW server \in Range(settings.servers), server.auth # Null
  PROVE  LET v == server.auth.value
             values == ResolveValue(settings.store, v)
             value == Only(values)
             isText == v \notin {Null, Number} IN
         /\ values = {} <=> isText /\ ~Resolvable(settings.store, v)
         /\ values # {} => /\ values = {value}
                           /\ value \notin {Null, Number} <=> isText
                           /\ isText => value = Meaning(v)
                           /\ ~isText => value = v
<1> DEFINE v == server.auth.value
           values == ResolveValue(settings.store, v)
           value == Only(values)
<1>1. CASE v \in {Null, Number}
  <2>1. values = {v}
    BY <1>1 DEF ResolveValue
  <2>2. value = v
    BY <2>1 DEF Only
  <2>. QED  BY <1>1, <2>1, <2>2
<1>2. CASE v \notin {Null, Number} /\ ~Resolvable(settings.store, v)
  <2>1. values = {}
    BY <1>2 DEF ResolveValue, ResolveString
  <2>. QED  BY <1>2, <2>1
<1>3. CASE v \notin {Null, Number} /\ Resolvable(settings.store, v)
  <2>1. v \in StringsOf(settings)
    BY <1>3 DEF StringsOf
  <2>2. values = {ReplaceRefs(settings.store, v)}
    BY <1>3 DEF ResolveValue, ResolveString
  <2>3. value = ReplaceRefs(settings.store, v)
    BY <2>2 DEF Only
  <2>4. value \notin {Null, Number} /\ value = Meaning(v)
    BY <1>3, <2>1, <2>3, ResolvedString
  <2>. QED  BY <1>3, <2>2, <2>3, <2>4
<1>. QED  BY <1>1, <1>2, <1>3

\* A validated server connects unless it has one of the mistakes overlooked, and
\* then with its secret.
LEMMA ConnectsIff ==
  ASSUME settings \in Settings, PlainSecrets,
         NEW server \in Range(settings.servers), Validated(server)
  PROVE  /\ Overlooked(server) <=> Connection(settings.store, server) = {}
         /\ \A conn \in Connection(settings.store, server) : CarriesSecret(conn, server.auth)
<1> DEFINE auth == server.auth
           v == auth.value
           values == ResolveValue(settings.store, v)
           value == Only(values)
           isText == v \notin {Null, Number}
           conns == Connection(settings.store, server)
           to(place) == {[place |-> place, credential |-> value]}
<1>1. CASE auth = Null
  BY <1>1 DEF Connection, Overlooked
<1>2. CASE auth # Null /\ values = {}
  <2>1. isText /\ ~Resolvable(settings.store, v)
    BY <1>2, ResolvedAuth
  <2>. QED  BY <1>2, <2>1 DEF Connection, Overlooked
<1>3. CASE auth # Null /\ values # {}
  <2>1. /\ ~(isText /\ ~Resolvable(settings.store, v))
        /\ value \notin {Null, Number} <=> isText
        /\ isText => value = Meaning(v)
        /\ ~isText => value = v
    BY <1>3, ResolvedAuth
  <2>2. auth.type \in AuthTypes /\ (auth.type \in ValueTypes => v # Null)
    BY <1>3 DEF Validated
  <2>0. Null # Number /\ << >> \notin {Null, Number}
    <3>1. << >> \in Seq(PiecesOf(settings))
      OBVIOUS
    <3>. QED  BY <3>1, SettingsAssumption
  <2>3. conns = IF Takes(server, value) THEN {[place |-> Place[auth.type],
                      credential |-> IF auth.type = "none" THEN Null ELSE value]} ELSE {}
    BY <1>3 DEF Connection
  <2>4. Overlooked(server) <=>
          \/ auth.type \in AuthTypes \ {"none", "bearer", OAuthType} /\ v = Number
          \/ auth.type = "api_key_url_path" /\ server.url # "with placeholder"
          \/ auth.type = "bearer" /\ isText /\ value = << >>
          \/ auth.type = OAuthType /\ "token_url" \in auth.nulls
    BY <1>3, <2>1 DEF Overlooked
  <2> HIDE DEF values, value, conns
  <2>5. Overlooked(server) <=> ~Takes(server, value)
    BY <2>0, <2>1, <2>2, <2>4 DEF Takes, AuthTypes, ValueTypes, OAuthType
  <2>6. \A conn \in conns : CarriesSecret(conn, auth)
    BY <2>1, <2>3 DEF CarriesSecret
  <2>. QED  BY <2>3, <2>5, <2>6 DEF conns
<1>. QED  BY <1>1, <1>2, <1>3

\* loader.py:28, for any settings whose secrets hold no references: a server that
\* validation lets pass can be connected to, with its secret in place, exactly if
\* it has none of the six mistakes validation overlooks.  When the relay is up,
\* every server is validated, none with such a mistake offers tools, and some
\* other one does, unless all are disabled.
THEOREM ConfigIsReported == RSpec => []ValidConfigConnects
<1>1. BootInv => ValidConfigConnects
  <2> SUFFICES ASSUME BootInv, PlainSecrets
               PROVE  /\ \A server \in Range(settings.servers) : Validated(server) =>
                           /\ Overlooked(server) <=> Connection(settings.store, server) = {}
                           /\ \A conn \in Connection(settings.store, server) :
                                CarriesSecret(conn, server.auth)
                      /\ stage \in {"pooling", "serving"} =>
                           /\ \A server \in Range(settings.servers) : Validated(server)
                           /\ \A i \in offering : ~Overlooked(settings.servers[i])
                           /\ EnabledServers(settings) # {} => offering # {}
    BY DEF ValidConfigConnects
  <2>1. \A server \in Range(settings.servers) : Validated(server) =>
          /\ Overlooked(server) <=> Connection(settings.store, server) = {}
          /\ \A conn \in Connection(settings.store, server) : CarriesSecret(conn, server.auth)
    BY ConnectsIff DEF BootInv
  <2>2. ASSUME stage \in {"pooling", "serving"}
        PROVE  /\ \A server \in Range(settings.servers) : Validated(server)
               /\ \A i \in offering : ~Overlooked(settings.servers[i])
               /\ EnabledServers(settings) # {} => offering # {}
    <3>1. /\ \A server \in Range(settings.servers) : Validated(server)
          /\ EnabledServers(settings) # {} => offering # {}
      BY <2>2 DEF BootInv, ConfigInv
    <3>2. ASSUME NEW i \in offering
          PROVE  ~Overlooked(settings.servers[i])
      <4>1. settings.servers[i] \in Range(settings.servers)
        BY ServersType DEF BootInv, ConfigInv
      <4>2. Connection(settings.store, settings.servers[i]) # {}
        BY DEF BootInv, ConfigInv
      <4>. QED  BY <2>1, <3>1, <4>1, <4>2
    <3>. QED  BY <3>1, <3>2
  <2>. QED  BY <2>1, <2>2
<1>. QED  BY <1>1, BootInvariance, PTL
=============================================================================
