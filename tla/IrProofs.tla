------------------------------ MODULE IrProofs ------------------------------
(***************************************************************************)
(* What the edits of ir.c do to the shape of a function and to its edges.  *)
(* The passes are made of a few kinds of edits -- an instruction goes, one *)
(* that does not end a block comes, operands are renamed, a block is cut   *)
(* in two or put behind another -- and each kind has its lemma here.  A    *)
(* function that keeps its edges (SameFlow) keeps its analyses.  Then what *)
(* they define: a list that defines nothing twice (Fine) and what each way *)
(* of making lists of others can define.  What holds of sequences of       *)
(* anything comes first.                                                   *)
(***************************************************************************)
EXTENDS Ir, TLAPS, SequenceTheorems, FiniteSetTheorems, WellFoundedInduction

-----------------------------------------------------------------------------
(* Sequences whose elements may be anything: pushing, cutting, joining,    *)
(* and keeping the elements at some positions (Lists).                     *)

(* A set of naturals with a member has a least one. *)
LEMMA LeastIn ==
  ASSUME NEW T, T \subseteq Nat, T # {}
  PROVE  Min(T) \in T /\ \A y \in T : Min(T) <= y
<1>1. IsWellFoundedOn(OpToRel(<, Nat), Nat)
  BY NatLessThanWellFounded
<1>2. PICK x \in T : \A y \in T : ~ (<<y, x>> \in OpToRel(<, Nat))
  BY <1>1, WFMin
<1>3. \A y \in T : x <= y
  <2>1. \A y \in T : ~ (y < x)
    BY <1>2 DEF OpToRel
  <2> QED
    BY <2>1
<1> QED
  BY <1>3 DEF Min

(* Induction over a set of numbers. *)
LEMMA Induct ==
  ASSUME NEW n \in Nat, NEW T, 0 \in T, \A k \in 0 .. n - 1 : k \in T => k + 1 \in T
  PROVE  \A k \in 0 .. n : k \in T
<1> DEFINE U == {k \in 0 .. n : k \notin T}
<1>1. U \subseteq Nat
  OBVIOUS
<1> SUFFICES ASSUME U # {} PROVE FALSE
  OBVIOUS
<1> DEFINE m == Min(U)
<1>2. m \in U /\ \A y \in U : m <= y
  <2>. HIDE DEF U
  <2> QED
    BY <1>1, LeastIn
<1>. HIDE DEF m
<1>3. m \in 0 .. n /\ m \notin T /\ m # 0
  BY <1>2
<1>4. m - 1 \in 0 .. n - 1 /\ ~ (m <= m - 1)
  BY <1>3
<1>5. m - 1 \in T
  BY <1>2, <1>4
<1> QED
  BY <1>3, <1>4, <1>5

(* The elements of a sequence may be anything. *)
LEMMA TypedSeq ==
  ASSUME NEW S, NEW s \in Seq(S)
  PROVE  IsSeq(s)
BY SeqOfRange DEF IsSeq

(* A sequence, as the modules that prove things use it. *)
LEMMA SeqFacts ==
  ASSUME NEW s, IsSeq(s)
  PROVE  /\ Len(s) \in Nat
         /\ DOMAIN s = 1 .. Len(s)
         /\ s # <<>> => Len(s) >= 1
         /\ s # <<>> => Last(s) = s[Len(s)]
BY LenProperties, EmptySeq DEF IsSeq, Last

-----------------------------------------------------------------------------
(* Cutting and joining *)

(* A function on 1 .. n is a sequence. *)
LEMMA ListIs ==
  ASSUME NEW n \in Nat, NEW t, t = [k \in 1 .. n |-> t[k]]
  PROVE  IsSeq(t) /\ Len(t) = n /\ DOMAIN t = 1 .. n
<1>1. DOMAIN t = 1 .. n
  OBVIOUS
<1>2. t \in [1 .. n -> Range(t)]
  BY <1>1 DEF Range
<1>3. t \in Seq(Range(t))
  BY <1>2, SeqDef
<1>4. Len(t) = n
  BY <1>1, <1>3, LenProperties
<1> QED
  BY <1>1, <1>3, <1>4 DEF IsSeq

(* The empty one. *)
LEMMA EmptyList == IsSeq(<<>>) /\ Len(<<>>) = 0
BY EmptySeq, TypedSeq

(* One sequence behind another. *)
LEMMA JoinedSeq ==
  ASSUME NEW s, IsSeq(s), NEW t, IsSeq(t)
  PROVE  /\ IsSeq(s \o t) /\ Len(s \o t) = Len(s) + Len(t)
         /\ DOMAIN (s \o t) = 1 .. Len(s) + Len(t)
         /\ \A k \in 1 .. Len(s) + Len(t) :
              (s \o t)[k] = IF k <= Len(s) THEN s[k] ELSE t[k - Len(s)]
<1> DEFINE S == Range(s) \cup Range(t)
<1>1. s \in Seq(S) /\ t \in Seq(S)
  BY SeqMonotonic DEF IsSeq
<1>. HIDE DEF S
<1>2. /\ s \o t \in Seq(S) /\ Len(s \o t) = Len(s) + Len(t)
      /\ \A k \in 1 .. Len(s) + Len(t) :
           (s \o t)[k] = IF k <= Len(s) THEN s[k] ELSE t[k - Len(s)]
  BY <1>1, ConcatProperties
<1>3. IsSeq(s \o t)
  BY <1>2, TypedSeq
<1>4. DOMAIN (s \o t) = 1 .. Len(s) + Len(t)
  BY <1>2, LenProperties
<1> QED
  BY <1>2, <1>3, <1>4

(* One more element. *)
LEMMA Appended ==
  ASSUME NEW s, IsSeq(s), NEW x
  PROVE  /\ IsSeq(Append(s, x)) /\ Len(Append(s, x)) = Len(s) + 1
         /\ DOMAIN Append(s, x) = 1 .. Len(s) + 1
         /\ \A k \in 1 .. Len(s) : Append(s, x)[k] = s[k]
         /\ Append(s, x)[Len(s) + 1] = x
<1> DEFINE S == Range(s) \cup {x}
<1>1. s \in Seq(S) /\ x \in S
  BY SeqMonotonic DEF IsSeq
<1>. HIDE DEF S
<1>2. /\ Append(s, x) \in Seq(S) /\ Len(Append(s, x)) = Len(s) + 1
      /\ \A k \in 1 .. Len(s) : Append(s, x)[k] = s[k]
      /\ Append(s, x)[Len(s) + 1] = x
  BY <1>1, AppendProperties
<1>3. IsSeq(Append(s, x))
  BY <1>2, TypedSeq
<1>4. DOMAIN Append(s, x) = 1 .. Len(s) + 1
  BY <1>2, LenProperties
<1> QED
  BY <1>2, <1>3, <1>4

(* A part of a sequence. *)
LEMMA PartOf ==
  ASSUME NEW s, IsSeq(s), NEW m \in Int, NEW n \in Int, 1 <= m, m <= n + 1, n <= Len(s)
  PROVE  /\ IsSeq(SubSeq(s, m, n)) /\ Len(SubSeq(s, m, n)) = n - m + 1
         /\ DOMAIN SubSeq(s, m, n) = 1 .. n - m + 1
         /\ \A k \in 1 .. n - m + 1 : SubSeq(s, m, n)[k] = s[m + k - 1]
<1>1. Len(s) \in Nat /\ DOMAIN s = 1 .. Len(s)
  BY SeqFacts
<1>2. \A i \in m .. n : s[i] \in Range(s)
  BY <1>1 DEF Range
<1>3. /\ SubSeq(s, m, n) \in Seq(Range(s))
      /\ Len(SubSeq(s, m, n)) = IF m <= n THEN n - m + 1 ELSE 0
      /\ \A k \in 1 .. n - m + 1 : SubSeq(s, m, n)[k] = s[m + k - 1]
  BY <1>2, SubSeqProperties
<1>4. Len(SubSeq(s, m, n)) = n - m + 1
  BY <1>3
<1>5. IsSeq(SubSeq(s, m, n)) /\ DOMAIN SubSeq(s, m, n) = 1 .. n - m + 1
  BY <1>3, <1>4, TypedSeq, LenProperties
<1> QED
  BY <1>3, <1>4, <1>5

(* Its beginning. *)
LEMMA FirstPart ==
  ASSUME NEW s, IsSeq(s), NEW n \in Int, 0 <= n, n <= Len(s)
  PROVE  /\ IsSeq(SubSeq(s, 1, n)) /\ Len(SubSeq(s, 1, n)) = n
         /\ DOMAIN SubSeq(s, 1, n) = 1 .. n
         /\ \A k \in 1 .. n : SubSeq(s, 1, n)[k] = s[k]
BY PartOf, SMT

(* All but its last element. *)
LEMMA FrontOf ==
  ASSUME NEW s, IsSeq(s), s # <<>>
  PROVE  /\ IsSeq(Front(s)) /\ Len(Front(s)) = Len(s) - 1
         /\ DOMAIN Front(s) = 1 .. Len(s) - 1
         /\ \A k \in 1 .. Len(s) - 1 : Front(s)[k] = s[k]
<1>1. Len(s) \in Nat /\ Len(s) >= 1
  BY SeqFacts
<1> DEFINE n == Len(s) - 1
<1>2. n \in Int /\ 0 <= n /\ n <= Len(s)
  BY <1>1
<1>3. Front(s) = SubSeq(s, 1, n)
  BY DEF Front
<1>. HIDE DEF n
<1>4. /\ IsSeq(SubSeq(s, 1, n)) /\ Len(SubSeq(s, 1, n)) = n
      /\ DOMAIN SubSeq(s, 1, n) = 1 .. n
      /\ \A k \in 1 .. n : SubSeq(s, 1, n)[k] = s[k]
  BY <1>2, FirstPart
<1> QED
  BY <1>3, <1>4 DEF n

(* All but one element. *)
LEMMA Removed ==
  ASSUME NEW s, IsSeq(s), NEW i \in 1 .. Len(s)
  PROVE  /\ IsSeq(RemoveAt(s, i)) /\ Len(RemoveAt(s, i)) = Len(s) - 1
         /\ DOMAIN RemoveAt(s, i) = 1 .. Len(s) - 1
         /\ \A k \in 1 .. i - 1 : RemoveAt(s, i)[k] = s[k]
         /\ \A k \in i .. Len(s) - 1 : RemoveAt(s, i)[k] = s[k + 1]
<1> DEFINE a == SubSeq(s, 1, i - 1)
           b == SubSeq(s, i + 1, Len(s))
           t == RemoveAt(s, i)
<1>1. Len(s) \in Nat /\ i \in Int /\ 1 <= i /\ i <= Len(s)
  BY SeqFacts
<1>2. IsSeq(a) /\ Len(a) = i - 1 /\ \A k \in 1 .. i - 1 : a[k] = s[k]
  BY <1>1, FirstPart
<1>3. IsSeq(b) /\ Len(b) = Len(s) - i /\ \A k \in 1 .. Len(s) - i : b[k] = s[i + k]
  BY <1>1, PartOf
<1>4. t = a \o b
  BY DEF RemoveAt
<1>. HIDE DEF a, b, t
<1>5. IsSeq(t) /\ Len(t) = Len(a) + Len(b) /\ DOMAIN t = 1 .. Len(a) + Len(b)
  BY <1>2, <1>3, <1>4, JoinedSeq
<1>6. \A k \in 1 .. Len(a) + Len(b) : t[k] = IF k <= Len(a) THEN a[k] ELSE b[k - Len(a)]
  BY <1>2, <1>3, <1>4, JoinedSeq
<1>7. ASSUME NEW k \in i .. Len(s) - 1 PROVE t[k] = s[k + 1]
  <2>1. k \in 1 .. Len(a) + Len(b) /\ ~ (k <= Len(a)) /\ k - Len(a) \in 1 .. Len(s) - i
        /\ i + (k - Len(a)) = k + 1
    BY <1>1, <1>2, <1>3
  <2> QED
    BY <1>3, <1>6, <2>1
<1>8. \A k \in 1 .. i - 1 : t[k] = s[k]
  BY <1>1, <1>2, <1>3, <1>6
<1> QED
  BY <1>1, <1>2, <1>3, <1>5, <1>7, <1>8 DEF t

(* One element more, somewhere. *)
LEMMA Inserted ==
  ASSUME NEW s, IsSeq(s), NEW i \in 1 .. Len(s) + 1, NEW e
  PROVE  /\ IsSeq(InsertAt(s, i, e)) /\ Len(InsertAt(s, i, e)) = Len(s) + 1
         /\ DOMAIN InsertAt(s, i, e) = 1 .. Len(s) + 1
         /\ \A k \in 1 .. i - 1 : InsertAt(s, i, e)[k] = s[k]
         /\ InsertAt(s, i, e)[i] = e
         /\ \A k \in i + 1 .. Len(s) + 1 : InsertAt(s, i, e)[k] = s[k - 1]
<1> DEFINE a == SubSeq(s, 1, i - 1)
           c == a \o <<e>>
           b == SubSeq(s, i, Len(s))
           t == InsertAt(s, i, e)
           one == <<e>>
<1>1. Len(s) \in Nat /\ i \in Int /\ 1 <= i /\ i <= Len(s) + 1
  BY SeqFacts
<1>2. IsSeq(a) /\ Len(a) = i - 1 /\ \A k \in 1 .. i - 1 : a[k] = s[k]
  BY <1>1, FirstPart
<1>3. IsSeq(b) /\ Len(b) = Len(s) - i + 1 /\ \A k \in 1 .. Len(s) - i + 1 : b[k] = s[i + k - 1]
  BY <1>1, PartOf
<1>4. t = c \o b
  BY DEF InsertAt
<1>13. c = a \o one
  OBVIOUS
<1>5. IsSeq(one) /\ Len(one) = 1 /\ one[1] = e
  <2>1. one \in Seq({e})
    OBVIOUS
  <2> QED
    BY <2>1, TypedSeq
<1>. HIDE DEF a, b, c, t, one
<1>6. IsSeq(c) /\ Len(c) = i
  <2>1. IsSeq(c) /\ Len(c) = Len(a) + Len(one)
    BY <1>2, <1>5, <1>13, JoinedSeq
  <2> QED
    BY <1>1, <1>2, <1>5, <2>1
<1>7. \A k \in 1 .. i : c[k] = IF k <= i - 1 THEN a[k] ELSE one[k - (i - 1)]
  BY <1>1, <1>2, <1>13, <1>5, JoinedSeq
<1>8. IsSeq(t) /\ Len(t) = Len(s) + 1 /\ DOMAIN t = 1 .. Len(s) + 1
  BY <1>1, <1>3, <1>4, <1>6, JoinedSeq
<1>9. \A k \in 1 .. Len(s) + 1 : t[k] = IF k <= i THEN c[k] ELSE b[k - i]
  BY <1>1, <1>3, <1>4, <1>6, JoinedSeq
<1>10. \A k \in 1 .. i - 1 : t[k] = s[k]
  BY <1>1, <1>2, <1>7, <1>9
<1>11. t[i] = e
  BY <1>1, <1>5, <1>7, <1>9
<1>12. ASSUME NEW k \in i + 1 .. Len(s) + 1 PROVE t[k] = s[k - 1]
  <2>1. k \in 1 .. Len(s) + 1 /\ ~ (k <= i) /\ k - i \in 1 .. Len(s) - i + 1
        /\ i + (k - i) - 1 = k - 1
    BY <1>1
  <2> QED
    BY <1>3, <1>9, <2>1
<1> QED
  BY <1>8, <1>10, <1>11, <1>12 DEF t

-----------------------------------------------------------------------------
(* Keeping what is at some positions *)

IteratesFrom(f, v0, F, N) == f[0] = v0 /\ \A k \in 1 .. N : f[k] = F[<<k, f[k - 1]>>]

(* What a recursive function over 0 .. N iterates exists. *)
LEMMA Iterate ==
  ASSUME NEW V, NEW v0 \in V, NEW F \in [Nat \X V -> V], NEW N \in Nat
  PROVE  \E f \in [0 .. N -> V] : IteratesFrom(f, v0, F, N)
<1> DEFINE Iterates(f, n) == f[0] = v0 /\ \A k \in 1 .. n : f[k] = F[<<k, f[k - 1]>>]
           T == {n \in Nat : ~ \E f \in [0 .. n -> V] : Iterates(f, n)}
<1>1. T = {}
  <2> SUFFICES ASSUME T # {} PROVE FALSE
    OBVIOUS
  <2> DEFINE m == Min(T)
  <2>1. m \in T /\ \A y \in T : m <= y
    <3>1. T \subseteq Nat
      OBVIOUS
    <3>. HIDE DEF T
    <3> QED
      BY <3>1, LeastIn
  <2>. HIDE DEF m
  <2>2. m \in Nat /\ ~ \E f \in [0 .. m -> V] : Iterates(f, m)
    BY <2>1
  <2>3. CASE m = 0
    <3> DEFINE f == [n \in 0 .. 0 |-> v0]
    <3>1. f \in [0 .. m -> V] /\ Iterates(f, m)
      BY <2>3
    <3> QED
      BY <2>2, <3>1
  <2>4. CASE m # 0
    <3>1. m - 1 \in Nat /\ m - 1 \notin T
      <4>1. m - 1 \in Nat /\ ~ (m <= m - 1)
        BY <2>2, <2>4
      <4>. HIDE DEF T
      <4> QED
        BY <2>1, <4>1
    <3>2. PICK f \in [0 .. m - 1 -> V] : Iterates(f, m - 1)
      BY <3>1
    <3> DEFINE g == [n \in 0 .. m |-> IF n = m THEN F[<<m, f[m - 1]>>] ELSE f[n]]
    <3>3. <<m, f[m - 1]>> \in Nat \X V
      BY <2>2, <3>1
    <3>4. g \in [0 .. m -> V]
      <4>1. F[<<m, f[m - 1]>>] \in V
        BY <3>3
      <4> QED
        BY <2>2, <4>1
    <3>5. g[0] = v0
      BY <2>2, <2>4, <3>2
    <3>6. ASSUME NEW k \in 1 .. m PROVE g[k] = F[<<k, g[k - 1]>>]
      <4>1. g[k - 1] = f[k - 1]
        BY <2>2
      <4>2. CASE k = m
        <5>1. g[m] = F[<<m, f[m - 1]>>]
          BY <2>2
        <5>. HIDE DEF g
        <5> QED
          BY <4>1, <4>2, <5>1
      <4>3. CASE k # m
        <5>1. k \in 1 .. m - 1 /\ g[k] = f[k]
          BY <2>2, <4>3
        <5> QED
          BY <3>2, <4>1, <5>1
      <4> QED
        BY <4>2, <4>3
    <3> QED
      BY <2>2, <3>4, <3>5, <3>6
  <2> QED
    BY <2>3, <2>4
<1>2. PICK f \in [0 .. N -> V] : Iterates(f, N)
  BY <1>1
<1> QED
  BY <1>2 DEF IteratesFrom

KeptFun(s, K, kept) ==
  kept = [n \in 0 .. Len(s) |->
            IF n = 0 THEN <<>>
            ELSE IF n \in K THEN Append(kept[n - 1], s[n]) ELSE kept[n - 1]]

(* KeptAt is what such a function ends in. *)
LEMMA KeptUnfolds ==
  ASSUME NEW s, IsSeq(s), NEW K
  PROVE  \E h : KeptFun(s, K, h) /\ KeptAt(s, K) = h[Len(s)]
<1> DEFINE N == Len(s)
           V == Seq(Range(s))
           F == [p \in Nat \X V |-> IF p[1] \in K /\ p[1] \in 1 .. N THEN Append(p[2], s[p[1]]) ELSE p[2]]
<1>1. N \in Nat /\ DOMAIN s = 1 .. N
  BY SeqFacts
<1>2. \A k \in 1 .. N : s[k] \in Range(s)
  BY <1>1 DEF Range
<1>3. <<>> \in V
  OBVIOUS
<1>4. F \in [Nat \X V -> V]
  <2> SUFFICES ASSUME NEW n \in Nat, NEW v \in V PROVE F[<<n, v>>] \in V
    OBVIOUS
  <2>1. n \in 1 .. N => Append(v, s[n]) \in V
    BY <1>2, AppendProperties
  <2> QED
    BY <2>1
<1>5. PICK f \in [0 .. N -> V] : IteratesFrom(f, <<>>, F, N)
  <2>. HIDE DEF N, V, F
  <2> QED
    BY <1>1, <1>3, <1>4, Iterate
<1>6. ASSUME NEW n \in 1 .. N
      PROVE  f[n] = IF n \in K THEN Append(f[n - 1], s[n]) ELSE f[n - 1]
  <2>1. n \in Nat /\ f[n - 1] \in V
    <3>. HIDE DEF N, V, F
    <3> QED
      BY <1>1
  <2>2. f[n] = F[<<n, f[n - 1]>>]
    BY <1>5 DEF IteratesFrom
  <2>3. <<n, f[n - 1]>> \in Nat \X V
    BY <2>1
  <2> QED
    BY <2>2, <2>3
<1>7. KeptFun(s, K, f)
  <2>1. f = [n \in 0 .. N |-> f[n]]
    OBVIOUS
  <2>2. f[0] = <<>>
    BY <1>5 DEF IteratesFrom
  <2>3. \A n \in 0 .. N : f[n] = IF n = 0 THEN <<>>
                                ELSE IF n \in K THEN Append(f[n - 1], s[n]) ELSE f[n - 1]
    <3> SUFFICES ASSUME NEW n \in 0 .. N
                 PROVE  f[n] = IF n = 0 THEN <<>>
                               ELSE IF n \in K THEN Append(f[n - 1], s[n]) ELSE f[n - 1]
      OBVIOUS
    <3>1. CASE n = 0
      BY <2>2, <3>1
    <3>2. CASE n # 0
      <4>1. n \in 1 .. N
        BY <1>1, <3>2
      <4> QED
        BY <1>6, <3>2, <4>1
    <3> QED
      BY <3>1, <3>2
  <2>. HIDE DEF V, F
  <2> QED
    BY <2>1, <2>3 DEF KeptFun
<1> QED
  BY <1>7 DEF KeptAt, KeptFun

(* One step of it. *)
LEMMA KeptStep ==
  ASSUME NEW s, IsSeq(s), NEW K, NEW h, KeptFun(s, K, h)
  PROVE  /\ h[0] = <<>>
         /\ \A n \in 1 .. Len(s) : h[n] = IF n \in K THEN Append(h[n - 1], s[n]) ELSE h[n - 1]
<1>1. Len(s) \in Nat
  BY SeqFacts
<1>2. \A n \in 0 .. Len(s) : h[n] = IF n = 0 THEN <<>>
                                   ELSE IF n \in K THEN Append(h[n - 1], s[n]) ELSE h[n - 1]
  BY DEF KeptFun
<1>3. \A n \in 1 .. Len(s) : n \in 0 .. Len(s) /\ n # 0
  BY <1>1
<1> QED
  BY <1>1, <1>2, <1>3

(* What is kept comes from positions that are kept, from each once. *)
LEMMA KeptPicked ==
  ASSUME NEW s, IsSeq(s), NEW K
  PROVE  /\ IsSeq(KeptAt(s, K))
         /\ \E p \in [DOMAIN KeptAt(s, K) -> DOMAIN s \cap K] :
              /\ \A j, k \in DOMAIN KeptAt(s, K) : p[j] = p[k] => j = k
              /\ \A k \in DOMAIN KeptAt(s, K) : KeptAt(s, K)[k] = s[p[k]]
<1> DEFINE N == Len(s)
           Picks(p, t, n) == /\ p \in [DOMAIN t -> (1 .. n) \cap K]
                             /\ \A j, k \in DOMAIN t : p[j] = p[k] => j = k
                             /\ \A k \in DOMAIN t : t[k] = s[p[k]]
           Good(t, n) == IsSeq(t) /\ \E p : Picks(p, t, n)
<1>1. N \in Nat /\ DOMAIN s = 1 .. N
  BY SeqFacts
<1>2. PICK h : KeptFun(s, K, h) /\ KeptAt(s, K) = h[N]
  BY KeptUnfolds
<1>3. /\ h[0] = <<>>
      /\ \A n \in 1 .. N : h[n] = IF n \in K THEN Append(h[n - 1], s[n]) ELSE h[n - 1]
  BY <1>2, KeptStep
<1>4. Good(<<>>, 0)
  <2> DEFINE t == <<>>
             p == [k \in DOMAIN t |-> 1]
  <2>1. IsSeq(t) /\ DOMAIN t = {}
    BY EmptyList, SeqFacts
  <2>2. Picks(p, t, 0)
    BY <2>1
  <2> QED
    BY <2>1, <2>2
<1>5. ASSUME NEW n \in 0 .. N - 1, Good(h[n], n) PROVE Good(h[n + 1], n + 1)
  <2> DEFINE t == h[n]
             u == h[n + 1]
             m == n + 1
  <2>1. m \in 1 .. N /\ m - 1 = n /\ n \in Nat
    BY <1>1
  <2>2. u = IF m \in K THEN Append(t, s[m]) ELSE t
    BY <1>3, <2>1
  <2>3. PICK p : Picks(p, t, n)
    BY <1>5
  <2>4. IsSeq(t) /\ Len(t) \in Nat /\ DOMAIN t = 1 .. Len(t)
    BY <1>5, SeqFacts
  <2>. HIDE DEF t, u, m, N
  <2>5. CASE m \notin K
    <3>1. u = t
      BY <2>2, <2>5
    <3>2. p \in [DOMAIN t -> (1 .. m) \cap K]
      BY <2>1, <2>3
    <3>3. Picks(p, u, m)
      BY <2>3, <3>1, <3>2
    <3> QED
      BY <2>4, <3>1, <3>3 DEF u, m
  <2>6. CASE m \in K
    <3> DEFINE q == [k \in DOMAIN u |-> IF k = Len(t) + 1 THEN m ELSE p[k]]
               x == s[m]
    <3>1. u = Append(t, x)
      BY <2>2, <2>6
    <3>. HIDE DEF x
    <3>2. /\ IsSeq(u) /\ DOMAIN u = 1 .. Len(t) + 1
          /\ \A k \in 1 .. Len(t) : u[k] = t[k]
          /\ u[Len(t) + 1] = x
      BY <2>4, <3>1, Appended
    <3>3. \A k \in DOMAIN t : p[k] \in 1 .. n /\ p[k] \in K /\ t[k] = s[p[k]]
      BY <2>3
    <3>4. \A k \in DOMAIN u : \/ k = Len(t) + 1 /\ q[k] = m
                              \/ k # Len(t) + 1 /\ k \in DOMAIN t /\ q[k] = p[k]
      BY <2>4, <3>2
    <3>5. \A k \in DOMAIN u : q[k] \in (1 .. m) \cap K /\ u[k] = s[q[k]]
      BY <2>1, <2>4, <2>6, <3>2, <3>3, <3>4 DEF x
    <3>6. \A k \in DOMAIN t : p[k] # m
      BY <2>1, <3>3
    <3>7. \A j, k \in DOMAIN u : q[j] = q[k] => j = k
      BY <2>3, <3>4, <3>6
    <3>8. q \in [DOMAIN u -> (1 .. m) \cap K]
      BY <3>5
    <3>. HIDE DEF q
    <3>9. Picks(q, u, m)
      BY <3>5, <3>7, <3>8
    <3> QED
      BY <3>2, <3>9 DEF u, m
  <2> QED
    BY <2>5, <2>6
<1>6. Good(h[N], N)
  <2> DEFINE T == {n \in 0 .. N : Good(h[n], n)}
  <2>. HIDE DEF Good, N
  <2>1. 0 \in T
    BY <1>1, <1>3, <1>4
  <2>2. \A n \in 0 .. N - 1 : n \in T => n + 1 \in T
    BY <1>1, <1>5
  <2>3. N \in 0 .. N
    BY <1>1
  <2>. HIDE DEF T
  <2>4. \A n \in 0 .. N : n \in T
    BY <1>1, <2>1, <2>2, Induct
  <2>5. N \in T
    BY <2>3, <2>4
  <2> QED
    BY <2>5 DEF T
<1> QED
  BY <1>1, <1>2, <1>6

(* What is kept comes from positions that are kept; the last element is    *)
(* last if it is.                                                          *)
LEMMA KeptFacts ==
  ASSUME NEW s, IsSeq(s), s # <<>>, NEW K
  PROVE  \E g : /\ IsSeq(g)
                /\ \A k \in DOMAIN g : \E j \in 1 .. Len(s) - 1 : j \in K /\ g[k] = s[j]
                /\ KeptAt(s, K) = IF Len(s) \in K THEN Append(g, s[Len(s)]) ELSE g
<1> DEFINE N == Len(s)
<1>1. N \in Nat /\ N >= 1 /\ DOMAIN s = 1 .. N
  BY SeqFacts
<1>2. \E h : KeptFun(s, K, h) /\ KeptAt(s, K) = h[N]
  BY KeptUnfolds
<1>3. ASSUME NEW h, KeptFun(s, K, h)
      PROVE  \E g : /\ IsSeq(g)
                    /\ \A k \in DOMAIN g : \E j \in 1 .. N - 1 : j \in K /\ g[k] = s[j]
                    /\ h[N] = IF N \in K THEN Append(g, s[N]) ELSE g
  <2> DEFINE Fine(n) == /\ IsSeq(h[n])
                        /\ \A k \in DOMAIN h[n] : \E j \in 1 .. n : j \in K /\ h[n][k] = s[j]
             T == {n \in 0 .. N : Fine(n)}
  <2>1. h[0] = <<>>
    BY <1>3, KeptStep
  <2>2. \A n \in 1 .. N : h[n] = IF n \in K THEN Append(h[n - 1], s[n]) ELSE h[n - 1]
    BY <1>3, KeptStep
  <2>3. ASSUME NEW n \in 1 .. N, Fine(n - 1) PROVE Fine(n)
    <3>1. CASE n \notin K
      <4>1. h[n] = h[n - 1]
        BY <2>2, <3>1
      <4> QED
        BY <2>3, <4>1
    <3>2. CASE n \in K
      <4> DEFINE p == h[n - 1]
                 x == s[n]
      <4>1. h[n] = Append(p, x)
        BY <2>2, <3>2
      <4>2. IsSeq(p) /\ \A k \in DOMAIN p : \E j \in 1 .. n - 1 : j \in K /\ p[k] = s[j]
        BY <2>3
      <4>. HIDE DEF p
      <4>3. DOMAIN p = 1 .. Len(p) /\ Len(p) \in Nat
        BY <4>2, SeqFacts
      <4>4. /\ IsSeq(Append(p, x)) /\ DOMAIN Append(p, x) = 1 .. Len(p) + 1
            /\ \A k \in 1 .. Len(p) : Append(p, x)[k] = p[k]
            /\ Append(p, x)[Len(p) + 1] = x
        <5>. HIDE DEF x
        <5> QED
          BY <4>2, Appended
      <4>5. ASSUME NEW k \in DOMAIN h[n] PROVE \E j \in 1 .. n : j \in K /\ h[n][k] = s[j]
        <5>1. CASE k = Len(p) + 1
          BY <3>2, <4>1, <4>4, <5>1
        <5>2. CASE k # Len(p) + 1
          <6>1. k \in DOMAIN p /\ h[n][k] = p[k]
            BY <4>1, <4>3, <4>4, <4>5, <5>2
          <6>2. PICK j \in 1 .. n - 1 : j \in K /\ p[k] = s[j]
            BY <4>2, <6>1
          <6>3. j \in 1 .. n
            OBVIOUS
          <6> QED
            BY <6>1, <6>2, <6>3
        <5> QED
          BY <5>1, <5>2
      <4> QED
        BY <4>1, <4>4, <4>5
    <3> QED
      BY <3>1, <3>2
  <2>4. Fine(0)
    <3>1. IsSeq(h[0]) /\ Len(h[0]) = 0
      BY <2>1, EmptyList
    <3>2. DOMAIN h[0] = {}
      BY <3>1, SeqFacts
    <3> QED
      BY <3>1, <3>2
  <2>5. 0 \in T /\ \A n \in 0 .. N - 1 : n \in T => n + 1 \in T
    <3>1. \A n \in 0 .. N - 1 : n + 1 \in 1 .. N /\ (n + 1) - 1 = n /\ n + 1 \in 0 .. N
      BY <1>1
    <3>2. \A n \in 1 .. N : Fine(n - 1) => Fine(n)
      BY <2>3
    <3>. HIDE DEF Fine, N
    <3> QED
      BY <1>1, <2>4, <3>1, <3>2
  <2>6. Fine(N - 1)
    <3>. HIDE DEF T, N
    <3>1. N - 1 \in 0 .. N /\ \A n \in 0 .. N : n \in T
      BY <1>1, <2>5, Induct
    <3> QED
      BY <3>1 DEF T
  <2>7. h[N] = IF N \in K THEN Append(h[N - 1], s[N]) ELSE h[N - 1]
    BY <1>1, <2>2
  <2> QED
    BY <2>6, <2>7
<1> QED
  BY <1>2, <1>3

(* Nothing is kept of an empty list. *)
LEMMA KeptOfNothing == \A K : KeptAt(<<>>, K) = <<>>
<1> SUFFICES ASSUME NEW K PROVE KeptAt(<<>>, K) = <<>>
  OBVIOUS
<1> DEFINE s == <<>>
           f == [n \in 0 .. Len(s) |-> <<>>]
<1>1. Len(s) = 0
  BY EmptyList
<1>2. KeptFun(s, K, f)
  BY <1>1 DEF KeptFun
<1>3. ASSUME NEW h, KeptFun(s, K, h) PROVE h[0] = <<>>
  BY <1>1, <1>3 DEF KeptFun
<1>4. \E h : KeptFun(s, K, h) /\ KeptAt(s, K) = h[Len(s)]
  BY <1>2 DEF KeptAt, KeptFun
<1> QED
  BY <1>1, <1>3, <1>4

(* Every element kept was at a position that is kept. *)
LEMMA KeptFrom ==
  ASSUME NEW s, IsSeq(s), NEW K
  PROVE  /\ IsSeq(KeptAt(s, K))
         /\ \A k \in DOMAIN KeptAt(s, K) : \E j \in DOMAIN s : j \in K /\ KeptAt(s, K)[k] = s[j]
<1> DEFINE t == KeptAt(s, K)
<1>1. Len(s) \in Nat /\ DOMAIN s = 1 .. Len(s)
  BY SeqFacts
<1>2. CASE s = <<>>
  <2>1. t = <<>>
    BY <1>2, KeptOfNothing
  <2>2. IsSeq(t) /\ DOMAIN t = {}
    BY <2>1, EmptyList, SeqFacts
  <2> QED
    BY <2>2
<1>3. CASE s # <<>>
  <2>1. Len(s) >= 1 /\ Len(s) \in DOMAIN s
    BY <1>1, <1>3, SeqFacts
  <2>2. PICK g : /\ IsSeq(g)
                 /\ \A k \in DOMAIN g : \E j \in 1 .. Len(s) - 1 : j \in K /\ g[k] = s[j]
                 /\ t = IF Len(s) \in K THEN Append(g, s[Len(s)]) ELSE g
    BY <1>3, KeptFacts
  <2>. HIDE DEF t
  <2>3. \A k \in DOMAIN g : \E j \in DOMAIN s : j \in K /\ g[k] = s[j]
    BY <1>1, <2>2
  <2>4. CASE Len(s) \notin K
    BY <2>2, <2>3, <2>4 DEF t
  <2>5. CASE Len(s) \in K
    <3> DEFINE x == s[Len(s)]
    <3>1. t = Append(g, x)
      BY <2>2, <2>5
    <3>2. DOMAIN g = 1 .. Len(g) /\ Len(g) \in Nat
      BY <2>2, SeqFacts
    <3>. HIDE DEF x
    <3>3. /\ IsSeq(t) /\ DOMAIN t = 1 .. Len(g) + 1
          /\ \A k \in 1 .. Len(g) : t[k] = g[k]
          /\ t[Len(g) + 1] = x
      BY <2>2, <3>1, Appended
    <3>4. ASSUME NEW k \in DOMAIN t PROVE \E j \in DOMAIN s : j \in K /\ t[k] = s[j]
      <4>1. CASE k \in DOMAIN g
        BY <2>3, <3>2, <3>3, <4>1
      <4>2. CASE k = Len(g) + 1
        BY <2>1, <2>5, <3>3, <4>2 DEF x
      <4> QED
        BY <3>2, <3>3, <4>1, <4>2
    <3> QED
      BY <3>3, <3>4 DEF t
  <2> QED
    BY <2>4, <2>5
<1> QED
  BY <1>2, <1>3

(* SelectInSeq finds a position where the test holds. *)
LEMMA FoundAt ==
  ASSUME NEW s, IsSeq(s), NEW T, NEW n, T = {k \in 1 .. Len(s) : k \in T},
         n = IF T # {} THEN Min(T) ELSE 0, n # 0
  PROVE  n \in T /\ n \in DOMAIN s
<1>1. Len(s) \in Nat /\ DOMAIN s = 1 .. Len(s)
  BY SeqFacts
<1>2. T \subseteq Nat /\ T # {} /\ n = Min(T)
  BY <1>1
<1>3. Min(T) \in T
  BY <1>2, LeastIn
<1> QED
  BY <1>1, <1>2, <1>3

(* The position SelectInSeq finds, or 0, is within the list. *)
LEMMA PositionOrNone ==
  ASSUME NEW m \in Nat, NEW I, I \subseteq 1 .. m, NEW n, n = IF I # {} THEN Min(I) ELSE 0
  PROVE  n \in 0 .. m
<1>1. CASE I = {}
  BY <1>1
<1>2. CASE I # {}
  <2>1. n = Min(I) /\ I \subseteq Nat
    BY <1>2
  <2>2. Min(I) \in I
    BY <1>2, <2>1, LeastIn
  <2>3. n \in I
    BY <2>1, <2>2
  <2> QED
    BY <2>3
<1> QED
  BY <1>1, <1>2

(* Ascending lists what it is given. *)
LEMMA AscendingIsSeq == ASSUME NEW S, NEW n \in Nat PROVE IsSeq(Ascending(S, n))
<1> DEFINE s == [k \in 1 .. n |-> k]
<1>1. s = [k \in 1 .. n |-> s[k]]
  OBVIOUS
<1>. HIDE DEF s
<1>2. IsSeq(s)
  BY <1>1, ListIs
<1>3. IsSeq(KeptAt(s, S))
  BY <1>2, KeptFrom
<1> QED
  BY <1>3 DEF Ascending, s

(* Ascending lists numbers of the set it is given, up to the bound. *)
LEMMA AscendingFrom ==
  ASSUME NEW S, NEW n \in Nat
  PROVE  /\ IsSeq(Ascending(S, n))
         /\ \A x \in Range(Ascending(S, n)) : x \in S /\ x \in 1 .. n
<1> DEFINE s == [k \in 1 .. n |-> k]
           t == KeptAt(s, S)
<1>1. s = [k \in 1 .. n |-> s[k]]
  OBVIOUS
<1>2. \A j \in DOMAIN s : s[j] = j /\ s[j] \in 1 .. n
  OBVIOUS
<1>. HIDE DEF s
<1>3. IsSeq(s)
  BY <1>1, ListIs
<1>4. IsSeq(t) /\ \A k \in DOMAIN t : \E j \in DOMAIN s : j \in S /\ t[k] = s[j]
  BY <1>3, KeptFrom
<1>. HIDE DEF t
<1>5. \A x \in Range(t) : x \in S /\ x \in 1 .. n
  BY <1>2, <1>4 DEF Range
<1>6. Ascending(S, n) = t
  BY DEF Ascending, t, s
<1> QED
  BY <1>4, <1>5, <1>6

(* A list of lists, one behind the other, is what joining them one by one  *)
(* ends in.                                                                *)
LEMMA FlattenUnfolds ==
  ASSUME NEW s, IsSeq(s), s # <<>>, NEW E, \A n \in DOMAIN s : s[n] \in Seq(E)
  PROVE  \E h : /\ h[1] = s[1] /\ FlattenSeq(s) = h[Len(s)]
                /\ \A i \in 1 .. Len(s) - 1 : h[i + 1] = h[i] \o s[i + 1]
<1> DEFINE N == Len(s)
           V == Seq(E)
           F == [p \in Nat \X V |-> IF p[1] \in 1 .. N THEN p[2] \o s[p[1]] ELSE p[2]]
           Flat(h) == h = [i \in 1 .. N |-> IF i = 1 THEN s[i] ELSE h[i - 1] \o s[i]]
<1>1. N \in Nat /\ DOMAIN s = 1 .. N
  BY SeqFacts
<1>2. N # 0
  BY SeqFacts
<1>3. \E g : Flat(g)
  <2>1. <<>> \in V /\ \A k \in 1 .. N : s[k] \in V
    BY <1>1
  <2>2. F \in [Nat \X V -> V]
    <3> SUFFICES ASSUME NEW n \in Nat, NEW v \in V PROVE F[<<n, v>>] \in V
      OBVIOUS
    <3>1. n \in 1 .. N => v \o s[n] \in V
      BY <2>1, ConcatProperties
    <3> QED
      BY <3>1
  <2>3. PICK f \in [0 .. N -> V] : IteratesFrom(f, <<>>, F, N)
    <3>. HIDE DEF N, V, F
    <3> QED
      BY <1>1, <2>1, <2>2, Iterate
  <2>4. ASSUME NEW n \in 1 .. N PROVE f[n] = f[n - 1] \o s[n]
    <3>1. n \in Nat /\ f[n - 1] \in V
      <4>. HIDE DEF N, V, F
      <4> QED
        BY <1>1
    <3>2. f[n] = F[<<n, f[n - 1]>>]
      BY <2>3 DEF IteratesFrom
    <3>3. <<n, f[n - 1]>> \in Nat \X V
      BY <3>1
    <3> QED
      BY <3>2, <3>3
  <2>5. f[1] = s[1]
    <3>1. 1 \in 1 .. N /\ f[0] = <<>>
      BY <1>1, <1>2, <2>3 DEF IteratesFrom
    <3>2. f[1] = f[1 - 1] \o s[1] /\ s[1] \in Seq(E)
      <4>. HIDE DEF N, F
      <4> QED
        BY <2>1, <2>4, <3>1
    <3>3. 1 - 1 = 0
      OBVIOUS
    <3>. HIDE DEF F, N, V
    <3>4. f[1] = <<>> \o s[1]
      BY <3>1, <3>2, <3>3
    <3> QED
      BY <3>2, <3>4, ConcatEmptySeq
  <2> DEFINE g == [i \in 1 .. N |-> f[i]]
  <2>6. Flat(g)
    <3>1. ASSUME NEW i \in 1 .. N PROVE g[i] = IF i = 1 THEN s[i] ELSE g[i - 1] \o s[i]
      <4>1. CASE i = 1
        BY <2>5, <4>1
      <4>2. CASE i # 1
        <5>1. i - 1 \in 1 .. N /\ g[i - 1] = f[i - 1] /\ g[i] = f[i]
          BY <1>1, <4>2
        <5>. HIDE DEF g, N, V, F
        <5> QED
          BY <2>4, <4>2, <5>1
      <4> QED
        BY <4>1, <4>2
    <3>2. g = [i \in 1 .. N |-> g[i]]
      OBVIOUS
    <3>. HIDE DEF g, N, V, F
    <3> QED
      BY <3>1, <3>2
  <2> QED
    BY <2>6
<1>4. \E h : Flat(h) /\ FlattenSeq(s) = h[N]
  <2>1. FlattenSeq(s) = (CHOOSE h : Flat(h))[N]
    BY <1>2 DEF FlattenSeq
  <2>. HIDE DEF Flat
  <2> QED
    BY <1>3, <2>1
<1>5. ASSUME NEW h, Flat(h)
      PROVE  h[1] = s[1] /\ \A i \in 1 .. N - 1 : h[i + 1] = h[i] \o s[i + 1]
  <2>1. \A i \in 1 .. N : h[i] = IF i = 1 THEN s[i] ELSE h[i - 1] \o s[i]
    BY <1>5
  <2>2. \A i \in 1 .. N - 1 : i + 1 \in 1 .. N /\ i + 1 # 1 /\ (i + 1) - 1 = i
    BY <1>1
  <2>3. 1 \in 1 .. N
    BY <1>1, <1>2
  <2>. HIDE DEF N
  <2> QED
    BY <2>1, <2>2, <2>3
<1> QED
  BY <1>4, <1>5

(* The order in which they are joined is an induction. *)
LEMMA FlattenInduct ==
  ASSUME NEW s, IsSeq(s), s # <<>>, NEW E, \A n \in DOMAIN s : s[n] \in Seq(E),
         NEW G, <<1, s[1]>> \in G,
         \A n \in 1 .. Len(s) - 1 : \A c : <<n, c>> \in G => <<n + 1, c \o s[n + 1]>> \in G
  PROVE  <<Len(s), FlattenSeq(s)>> \in G
<1> DEFINE N == Len(s)
<1>1. N \in Nat /\ N >= 1
  BY SeqFacts
<1>2. PICK h : /\ h[1] = s[1] /\ FlattenSeq(s) = h[N]
               /\ \A i \in 1 .. N - 1 : h[i + 1] = h[i] \o s[i + 1]
  BY FlattenUnfolds
<1> DEFINE T == {n \in 0 .. N - 1 : <<n + 1, h[n + 1]>> \in G}
<1>. HIDE DEF N
<1>3. 0 \in T
  BY <1>1, <1>2
<1>4. ASSUME NEW n \in 0 .. (N - 1) - 1, n \in T PROVE n + 1 \in T
  <2>1. n + 1 \in 1 .. N - 1 /\ n + 1 \in 0 .. N - 1 /\ <<n + 1, h[n + 1]>> \in G
    BY <1>1, <1>4
  <2>2. <<(n + 1) + 1, h[n + 1] \o s[(n + 1) + 1]>> \in G
    BY <2>1 DEF N
  <2> QED
    BY <1>2, <2>1, <2>2
<1>. HIDE DEF T
<1>5. \A n \in 0 .. N - 1 : n \in T
  <2>1. N - 1 \in Nat
    BY <1>1
  <2> QED
    BY <1>3, <1>4, <2>1, Induct
<1>6. N - 1 \in T /\ (N - 1) + 1 = N
  BY <1>1, <1>5
<1> QED
  BY <1>2, <1>6 DEF T, N

(* It holds what they hold. *)
LEMMA Flattened ==
  ASSUME NEW s, IsSeq(s), NEW E, \A n \in DOMAIN s : s[n] \in Seq(E)
  PROVE  FlattenSeq(s) \in Seq(E)
<1>1. CASE s = <<>>
  <2>1. <<>> \in Seq(E) /\ Len(s) = 0
    BY <1>1, EmptyList
  <2> QED
    BY <1>1, <2>1 DEF FlattenSeq
<1>2. CASE s # <<>>
  <2> DEFINE G == Nat \X Seq(E)
  <2>1. Len(s) \in Nat /\ DOMAIN s = 1 .. Len(s) /\ Len(s) >= 1
    BY <1>2, SeqFacts
  <2>2. <<1, s[1]>> \in G
    BY <2>1
  <2>3. ASSUME NEW n \in 1 .. Len(s) - 1, NEW c, <<n, c>> \in G
        PROVE  <<n + 1, c \o s[n + 1]>> \in G
    <3>1. n + 1 \in DOMAIN s /\ n + 1 \in Nat /\ c \in Seq(E)
      BY <2>1, <2>3
    <3>2. c \o s[n + 1] \in Seq(E)
      BY <3>1, ConcatProperties
    <3> QED
      BY <3>1, <3>2
  <2>4. <<Len(s), FlattenSeq(s)>> \in G
    <3>. HIDE DEF G
    <3> QED
      BY <1>2, <2>2, <2>3, FlattenInduct
  <2> QED
    BY <2>4
<1> QED
  BY <1>1, <1>2

-----------------------------------------------------------------------------
(* Blocks and functions *)

(* A list that control runs through to its end. *)
Open(c) == IsSeq(c) /\ \A k \in DOMAIN c : IsInstr(c[k]) /\ ~ IsTerminator(c[k].op)

(* Where control goes from the end of a list. *)
Goes(c) == IF c = <<>> THEN {} ELSE Range(Last(c).to)

(* An empty list holds nothing. *)
LEMMA NothingThere == ASSUME NEW t, t = <<>> PROVE Range(t) = {}
BY EmptyList, SeqFacts DEF Range

(* What a block is. *)
LEMMA BlockFacts ==
  ASSUME NEW c, IsBlock(c)
  PROVE  /\ IsSeq(c) /\ Len(c) \in Nat /\ DOMAIN c = 1 .. Len(c)
         /\ c # <<>> => Len(c) >= 1 /\ Last(c) = c[Len(c)] /\ Len(c) \in DOMAIN c
         /\ \A k \in DOMAIN c : IsInstr(c[k])
         /\ \A k \in DOMAIN c : k # Len(c) => ~ IsTerminator(c[k].op)
         /\ Len(c) = 0 => c = <<>>
BY SeqFacts DEF IsBlock

(* What a list is that control runs through. *)
LEMMA OpenFacts ==
  ASSUME NEW c, Open(c)
  PROVE  /\ IsSeq(c) /\ Len(c) \in Nat /\ DOMAIN c = 1 .. Len(c)
         /\ \A k \in DOMAIN c : IsInstr(c[k]) /\ ~ IsTerminator(c[k].op)
         /\ IsBlock(c) /\ Goes(c) = {}
<1>1. /\ IsSeq(c) /\ Len(c) \in Nat /\ DOMAIN c = 1 .. Len(c)
      /\ \A k \in DOMAIN c : IsInstr(c[k]) /\ ~ IsTerminator(c[k].op)
  BY SeqFacts DEF Open
<1>2. IsBlock(c)
  BY <1>1 DEF IsBlock
<1>3. Goes(c) = {}
  <2>1. CASE c = <<>>
    BY <2>1 DEF Goes
  <2>2. CASE c # <<>>
    <3>1. IsInstr(Last(c)) /\ ~ IsTerminator(Last(c).op)
      BY <1>1, <1>2, <2>2, BlockFacts
    <3>2. Last(c).to = <<>>
      BY <3>1 DEF IsInstr
    <3> QED
      BY <2>2, <3>2, NothingThere DEF Goes
  <2> QED
    BY <2>1, <2>2
<1> QED
  BY <1>1, <1>2, <1>3

(* Control runs through an empty list. *)
LEMMA EmptyIsOpen == Open(<<>>)
BY EmptyList, SeqFacts DEF Open

(* The same number of instructions, each of the same effect on control. *)
LEMMA Edited ==
  ASSUME NEW c, IsBlock(c), NEW d, d = [k \in DOMAIN c |-> d[k]],
         \A k \in DOMAIN c : /\ IsInstr(d[k])
                             /\ IsTerminator(d[k].op) => IsTerminator(c[k].op)
                             /\ d[k].to = c[k].to
  PROVE  IsBlock(d) /\ Goes(d) = Goes(c) /\ Len(d) = Len(c) /\ DOMAIN d = DOMAIN c
<1>1. Len(c) \in Nat /\ DOMAIN c = 1 .. Len(c)
  BY BlockFacts
<1>2. IsSeq(d) /\ Len(d) = Len(c) /\ DOMAIN d = 1 .. Len(c)
  BY <1>1, ListIs
<1>3. IsBlock(d)
  BY <1>1, <1>2, BlockFacts DEF IsBlock
<1>4. Goes(d) = Goes(c)
  <2>1. CASE Len(c) = 0
    BY <1>2, <1>3, <2>1, BlockFacts DEF Goes
  <2>2. CASE Len(c) # 0
    <3>1. c # <<>> /\ d # <<>>
      BY <1>2, <2>2, EmptyList
    <3>2. Last(c) = c[Len(c)] /\ Last(d) = d[Len(c)] /\ Len(c) \in DOMAIN c
      BY <1>2, <1>3, <3>1, BlockFacts
    <3> QED
      BY <3>1, <3>2 DEF Goes
  <2> QED
    BY <2>1, <2>2
<1> QED
  BY <1>1, <1>2, <1>3, <1>4

(* An instruction appended to a list that control runs through ends it. *)
LEMMA Closing ==
  ASSUME NEW c, Open(c), NEW i, IsInstr(i)
  PROVE  /\ IsBlock(Append(c, i)) /\ Goes(Append(c, i)) = Range(i.to)
         /\ ~ IsTerminator(i.op) => Open(Append(c, i))
<1> DEFINE d == Append(c, i)
<1>1. Len(c) \in Nat /\ IsSeq(c) /\ DOMAIN c = 1 .. Len(c)
      /\ \A k \in DOMAIN c : IsInstr(c[k]) /\ ~ IsTerminator(c[k].op)
  BY OpenFacts
<1>2. /\ IsSeq(d) /\ Len(d) = Len(c) + 1 /\ DOMAIN d = 1 .. Len(c) + 1
      /\ \A k \in 1 .. Len(c) : d[k] = c[k]
      /\ d[Len(c) + 1] = i
  BY <1>1, Appended
<1>. HIDE DEF d
<1>3. \A k \in DOMAIN d : k \in DOMAIN c \/ k = Len(c) + 1
  BY <1>1, <1>2
<1>4. IsBlock(d)
  BY <1>1, <1>2, <1>3 DEF IsBlock
<1>5. Goes(d) = Range(i.to)
  <2>1. d # <<>>
    BY <1>1, <1>2, EmptyList
  <2>2. Last(d) = i
    BY <1>2, <1>4, <2>1, BlockFacts
  <2> QED
    BY <2>1, <2>2 DEF Goes
<1>6. ~ IsTerminator(i.op) => Open(d)
  BY <1>1, <1>2, <1>3 DEF Open
<1> QED
  BY <1>4, <1>5, <1>6 DEF d

(* Such a list in front of a block. *)
LEMMA Prefixed ==
  ASSUME NEW c, Open(c), NEW d, IsBlock(d)
  PROVE  /\ IsBlock(c \o d) /\ Goes(c \o d) = Goes(d)
         /\ Open(d) => Open(c \o d)
<1> DEFINE e == c \o d
<1>1. Len(c) \in Nat /\ IsSeq(c) /\ DOMAIN c = 1 .. Len(c)
      /\ \A k \in DOMAIN c : IsInstr(c[k]) /\ ~ IsTerminator(c[k].op)
  BY OpenFacts
<1>2. Len(d) \in Nat /\ IsSeq(d) /\ DOMAIN d = 1 .. Len(d)
  BY BlockFacts
<1>3. /\ IsSeq(e) /\ Len(e) = Len(c) + Len(d) /\ DOMAIN e = 1 .. Len(c) + Len(d)
      /\ \A k \in 1 .. Len(c) + Len(d) : e[k] = IF k <= Len(c) THEN c[k] ELSE d[k - Len(c)]
  BY <1>1, <1>2, JoinedSeq
<1>. HIDE DEF e
<1>4. ASSUME NEW k \in DOMAIN e
      PROVE  \/ k \in DOMAIN c /\ e[k] = c[k]
             \/ k - Len(c) \in DOMAIN d /\ e[k] = d[k - Len(c)]
  BY <1>1, <1>2, <1>3
<1>5. IsBlock(e)
  <2>1. ASSUME NEW k \in DOMAIN e PROVE IsInstr(e[k]) /\ (IsTerminator(e[k].op) => k = Len(e))
    <3>1. CASE k \in DOMAIN c /\ e[k] = c[k]
      BY <1>1, <3>1
    <3>2. CASE k - Len(c) \in DOMAIN d /\ e[k] = d[k - Len(c)]
      <4>1. IsInstr(e[k]) /\ (IsTerminator(e[k].op) => k - Len(c) = Len(d))
        BY <3>2 DEF IsBlock
      <4> QED
        BY <1>1, <1>2, <1>3, <4>1
    <3> QED
      BY <1>4, <3>1, <3>2
  <2> QED
    BY <1>3, <2>1 DEF IsBlock
<1>6. Open(d) => Open(e)
  <2> SUFFICES ASSUME Open(d), NEW k \in DOMAIN e PROVE IsInstr(e[k]) /\ ~ IsTerminator(e[k].op)
    BY <1>3 DEF Open
  <2> QED
    BY <1>1, <1>4, OpenFacts
<1>7. Goes(e) = Goes(d)
  <2>1. CASE d = <<>>
    <3>1. Open(e)
      BY <1>6, <2>1, EmptyIsOpen
    <3>2. Goes(e) = {}
      BY <3>1, OpenFacts
    <3> QED
      BY <2>1, <3>2 DEF Goes
  <2>2. CASE d # <<>>
    <3>1. Len(d) >= 1 /\ Last(d) = d[Len(d)]
      BY <2>2, BlockFacts
    <3>2. e # <<>>
      BY <1>1, <1>2, <1>3, <3>1, EmptyList
    <3>3. Last(e) = e[Len(e)]
      BY <1>5, <3>2, BlockFacts
    <3>4. e[Len(e)] = d[Len(d)]
      <4>1. Len(e) \in 1 .. Len(c) + Len(d) /\ ~ (Len(e) <= Len(c)) /\ Len(e) - Len(c) = Len(d)
        BY <1>1, <1>2, <1>3, <3>1
      <4> QED
        BY <1>3, <4>1
    <3> QED
      BY <2>2, <3>1, <3>2, <3>3, <3>4 DEF Goes
  <2> QED
    BY <2>1, <2>2
<1> QED
  BY <1>5, <1>6, <1>7 DEF e

(* An instruction that does not end its block goes. *)
LEMMA Unlinked ==
  ASSUME NEW c, IsBlock(c), NEW i \in DOMAIN c, ~ IsTerminator(c[i].op)
  PROVE  IsBlock(RemoveAt(c, i)) /\ Goes(RemoveAt(c, i)) = Goes(c)
<1> DEFINE d == RemoveAt(c, i)
           n == Len(c)
<1>1. /\ IsSeq(c) /\ n \in Nat /\ DOMAIN c = 1 .. n /\ i \in 1 .. n
      /\ \A k \in DOMAIN c : IsInstr(c[k])
      /\ \A k \in DOMAIN c : k # n => ~ IsTerminator(c[k].op)
  BY BlockFacts
<1>2. /\ IsSeq(d) /\ Len(d) = n - 1 /\ DOMAIN d = 1 .. n - 1
      /\ \A k \in 1 .. i - 1 : d[k] = c[k]
      /\ \A k \in i .. n - 1 : d[k] = c[k + 1]
  BY <1>1, Removed
<1>. HIDE DEF d, n
<1>3. ASSUME NEW k \in DOMAIN d
      PROVE  \/ k \in DOMAIN c /\ k < i /\ d[k] = c[k]
             \/ k + 1 \in DOMAIN c /\ i <= k /\ d[k] = c[k + 1]
  BY <1>1, <1>2
<1>4. ASSUME NEW k \in DOMAIN d PROVE IsInstr(d[k]) /\ (IsTerminator(d[k].op) => k = n - 1)
  <2>1. CASE k \in DOMAIN c /\ k < i /\ d[k] = c[k]
    BY <1>1, <2>1
  <2>2. CASE k + 1 \in DOMAIN c /\ i <= k /\ d[k] = c[k + 1]
    BY <1>1, <1>2, <2>2
  <2> QED
    BY <1>3, <2>1, <2>2
<1>5. IsBlock(d)
  BY <1>2, <1>4 DEF IsBlock
<1>6. Goes(d) = Goes(c)
  <2>1. c # <<>> /\ Last(c) = c[n]
    <3>1. c # <<>>
      <4>1. Len(c) >= 1
        BY <1>1 DEF n
      <4> QED
        BY <4>1, EmptyList
    <3> QED
      BY <3>1, BlockFacts DEF n
  <2>2. CASE i = n
    <3>1. \A k \in DOMAIN d : IsInstr(d[k]) /\ ~ IsTerminator(d[k].op)
      BY <1>1, <1>2, <1>3, <2>2
    <3>2. Open(d) /\ Goes(d) = {}
      BY <1>2, <3>1, OpenFacts DEF Open
    <3>3. Last(c).to = <<>>
      BY <1>1, <2>1, <2>2 DEF IsInstr
    <3> QED
      BY <2>1, <3>2, <3>3, NothingThere DEF Goes
  <2>3. CASE i # n
    <3>1. n - 1 \in i .. n - 1 /\ n - 1 >= 1 /\ (n - 1) + 1 = n
      BY <1>1, <2>3
    <3>2. d[n - 1] = c[n]
      BY <1>2, <3>1
    <3>3. d # <<>> /\ Last(d) = d[n - 1]
      <4>1. d # <<>>
        BY <1>2, <3>1, EmptyList
      <4> QED
        BY <1>2, <1>5, <4>1, BlockFacts
    <3> QED
      BY <2>1, <3>2, <3>3 DEF Goes
  <2> QED
    BY <2>2, <2>3
<1> QED
  BY <1>5, <1>6 DEF d

(* One that does not end a block is put before another. *)
LEMMA PutBefore ==
  ASSUME NEW c, IsBlock(c), NEW i \in DOMAIN c, NEW x, IsInstr(x), ~ IsTerminator(x.op)
  PROVE  IsBlock(InsertAt(c, i, x)) /\ Goes(InsertAt(c, i, x)) = Goes(c)
<1> DEFINE d == InsertAt(c, i, x)
           n == Len(c)
<1>1. /\ IsSeq(c) /\ n \in Nat /\ DOMAIN c = 1 .. n /\ i \in 1 .. n /\ i \in 1 .. n + 1
      /\ \A k \in DOMAIN c : IsInstr(c[k])
      /\ \A k \in DOMAIN c : k # n => ~ IsTerminator(c[k].op)
  BY BlockFacts
<1>2. /\ IsSeq(d) /\ Len(d) = n + 1 /\ DOMAIN d = 1 .. n + 1
      /\ \A k \in 1 .. i - 1 : d[k] = c[k]
      /\ d[i] = x
      /\ \A k \in i + 1 .. n + 1 : d[k] = c[k - 1]
  BY <1>1, Inserted
<1>. HIDE DEF d, n
<1>3. ASSUME NEW k \in DOMAIN d
      PROVE  \/ k \in DOMAIN c /\ k < i /\ d[k] = c[k]
             \/ k = i
             \/ k - 1 \in DOMAIN c /\ i < k /\ d[k] = c[k - 1]
  BY <1>1, <1>2
<1>4. ASSUME NEW k \in DOMAIN d PROVE IsInstr(d[k]) /\ (IsTerminator(d[k].op) => k = n + 1)
  <2>1. CASE k \in DOMAIN c /\ k < i /\ d[k] = c[k]
    BY <1>1, <2>1
  <2>2. CASE k = i
    BY <1>2, <2>2
  <2>3. CASE k - 1 \in DOMAIN c /\ i < k /\ d[k] = c[k - 1]
    BY <1>1, <1>2, <2>3
  <2> QED
    BY <1>3, <2>1, <2>2, <2>3
<1>5. IsBlock(d)
  BY <1>2, <1>4 DEF IsBlock
<1>6. Goes(d) = Goes(c)
  <2>1. c # <<>> /\ d # <<>>
    <3>1. Len(c) >= 1 /\ Len(d) >= 1
      BY <1>1, <1>2 DEF n
    <3> QED
      BY <3>1, EmptyList
  <2>2. Last(c) = c[n] /\ Last(d) = d[n + 1]
    <3>1. Last(c) = c[n]
      BY <2>1, BlockFacts DEF n
    <3>2. Last(d) = d[n + 1]
      BY <1>2, <1>5, <2>1, BlockFacts
    <3> QED
      BY <3>1, <3>2
  <2>3. n + 1 \in i + 1 .. n + 1 /\ (n + 1) - 1 = n
    BY <1>1
  <2> QED
    BY <1>2, <2>1, <2>2, <2>3 DEF Goes
<1> QED
  BY <1>5, <1>6 DEF d

(* Dropping what does not end the block. *)
LEMMA Thinned ==
  ASSUME NEW c, IsBlock(c), NEW K, \A k \in DOMAIN c : IsTerminator(c[k].op) => k \in K
  PROVE  IsBlock(KeptAt(c, K)) /\ Goes(KeptAt(c, K)) = Goes(c)
<1>1. CASE c = <<>>
  BY <1>1, KeptOfNothing
<1>2. CASE c # <<>>
  <2> DEFINE n == Len(c)
             t == KeptAt(c, K)
             x == c[n]
  <2>1. /\ IsSeq(c) /\ n \in Nat /\ n >= 1 /\ Last(c) = x /\ n \in DOMAIN c /\ DOMAIN c = 1 .. n
        /\ \A k \in DOMAIN c : IsInstr(c[k])
        /\ \A k \in DOMAIN c : k # n => ~ IsTerminator(c[k].op)
    BY <1>2, BlockFacts
  <2>2. PICK g : /\ IsSeq(g)
                 /\ \A k \in DOMAIN g : \E j \in 1 .. n - 1 : j \in K /\ g[k] = c[j]
                 /\ t = IF n \in K THEN Append(g, x) ELSE g
    BY <1>2, <2>1, KeptFacts
  <2>. HIDE DEF t, n
  <2>3. Open(g)
    <3> SUFFICES ASSUME NEW k \in DOMAIN g PROVE IsInstr(g[k]) /\ ~ IsTerminator(g[k].op)
      BY <2>2 DEF Open
    <3>1. PICK j \in 1 .. n - 1 : g[k] = c[j]
      BY <2>2
    <3>2. j \in DOMAIN c /\ j # n
      BY <2>1
    <3> QED
      BY <2>1, <3>1, <3>2
  <2>4. IsInstr(x) /\ Goes(c) = Range(x.to)
    BY <1>2, <2>1 DEF Goes
  <2>5. CASE n \in K
    <3>1. t = Append(g, x)
      BY <2>2, <2>5
    <3>. HIDE DEF x
    <3>2. IsBlock(Append(g, x)) /\ Goes(Append(g, x)) = Range(x.to)
      BY <2>3, <2>4, Closing
    <3> QED
      BY <2>4, <3>1, <3>2 DEF t
  <2>6. CASE n \notin K
    <3>1. t = g /\ ~ IsTerminator(x.op)
      BY <2>1, <2>2, <2>6
    <3>2. x.to = <<>>
      BY <2>4, <3>1 DEF IsInstr
    <3>3. Range(x.to) = {}
      BY <3>2, NothingThere
    <3> QED
      BY <2>3, <2>4, <3>1, <3>3, OpenFacts DEF t
  <2> QED
    BY <2>5, <2>6 DEF t
<1> QED
  BY <1>1, <1>2

(* Picking instructions that do not end a block. *)
LEMMA Picked ==
  ASSUME NEW c, IsSeq(c), NEW K,
         \A k \in DOMAIN c : k \in K => IsInstr(c[k]) /\ ~ IsTerminator(c[k].op)
  PROVE  Open(KeptAt(c, K))
<1>1. IsSeq(KeptAt(c, K))
  BY KeptFrom
<1>2. ASSUME NEW k \in DOMAIN KeptAt(c, K)
      PROVE  IsInstr(KeptAt(c, K)[k]) /\ ~ IsTerminator(KeptAt(c, K)[k].op)
  <2>1. PICK j \in DOMAIN c : j \in K /\ KeptAt(c, K)[k] = c[j]
    BY KeptFrom
  <2> QED
    BY <2>1
<1> QED
  BY <1>1, <1>2 DEF Open

(* What is before a position, and what is behind it. *)
LEMMA Before ==
  ASSUME NEW c, IsBlock(c), NEW n \in Int, 0 <= n, n <= Len(c),
         \A k \in 1 .. n : ~ IsTerminator(c[k].op)
  PROVE  Open(SubSeq(c, 1, n))
<1>1. IsSeq(c) /\ Len(c) \in Nat /\ DOMAIN c = 1 .. Len(c) /\ \A k \in DOMAIN c : IsInstr(c[k])
  BY BlockFacts
<1>2. /\ IsSeq(SubSeq(c, 1, n)) /\ DOMAIN SubSeq(c, 1, n) = 1 .. n
      /\ \A k \in 1 .. n : SubSeq(c, 1, n)[k] = c[k]
  BY <1>1, FirstPart
<1>3. ASSUME NEW k \in DOMAIN SubSeq(c, 1, n)
      PROVE  IsInstr(SubSeq(c, 1, n)[k]) /\ ~ IsTerminator(SubSeq(c, 1, n)[k].op)
  <2>1. k \in 1 .. n /\ k \in DOMAIN c /\ SubSeq(c, 1, n)[k] = c[k]
    BY <1>1, <1>2
  <2> QED
    BY <1>1, <2>1
<1> QED
  BY <1>2, <1>3 DEF Open

(* A block without its last instruction. *)
LEMMA FrontIsOpen ==
  ASSUME NEW c, IsBlock(c)
  PROVE  Open(Front(c))
<1>1. /\ IsSeq(c) /\ Len(c) \in Nat /\ DOMAIN c = 1 .. Len(c)
      /\ \A k \in DOMAIN c : k # Len(c) => ~ IsTerminator(c[k].op)
  BY BlockFacts
<1> DEFINE n == Len(c) - 1
<1>2. Front(c) = SubSeq(c, 1, n)
  BY DEF Front
<1>3. CASE c = <<>>
  <2>1. n \in Int /\ n < 1
    BY <1>1, <1>3, EmptyList
  <2>. HIDE DEF n
  <2>2. SubSeq(c, 1, n) = <<>>
    BY <2>1, SubSeqEmpty
  <2> QED
    BY <1>2, <2>2, EmptyIsOpen
<1>4. CASE c # <<>>
  <2>0. Len(c) \in Nat /\ Len(c) >= 1
    BY <1>1, <1>4, SeqFacts
  <2>1. n \in Int /\ 0 <= n /\ n <= Len(c)
    BY <1>1, <2>0
  <2>2. ASSUME NEW k \in 1 .. n PROVE ~ IsTerminator(c[k].op)
    <3>1. k \in 1 .. Len(c) /\ k # Len(c)
      BY <2>0
    <3> QED
      BY <1>1, <3>1
  <2>. HIDE DEF n
  <2>3. Open(SubSeq(c, 1, n))
    BY <2>1, <2>2, Before
  <2> QED
    BY <1>2, <2>3
<1> QED
  BY <1>3, <1>4

(* What follows a position in a block. *)
LEMMA Behind ==
  ASSUME NEW c, IsBlock(c), NEW m \in Int, 1 <= m, m <= Len(c) + 1
  PROVE  IsBlock(SubSeq(c, m, Len(c))) /\ Goes(SubSeq(c, m, Len(c))) \subseteq Goes(c)
<1> DEFINE n == Len(c)
           d == SubSeq(c, m, n)
<1>1. /\ IsSeq(c) /\ n \in Nat /\ DOMAIN c = 1 .. n
      /\ \A k \in DOMAIN c : IsInstr(c[k])
      /\ \A k \in DOMAIN c : k # n => ~ IsTerminator(c[k].op)
      /\ c # <<>> => Last(c) = c[n]
  BY BlockFacts
<1>2. m <= n + 1 /\ n \in Int /\ n <= Len(c)
  BY <1>1
<1>3. /\ IsSeq(d) /\ Len(d) = n - m + 1 /\ DOMAIN d = 1 .. n - m + 1
      /\ \A k \in 1 .. n - m + 1 : d[k] = c[m + k - 1]
  <2>. HIDE DEF n
  <2> QED
    BY <1>1, <1>2, PartOf
<1>. HIDE DEF d, n
<1>4. ASSUME NEW k \in DOMAIN d PROVE IsInstr(d[k]) /\ (IsTerminator(d[k].op) => k = Len(d))
  <2>1. k \in 1 .. n - m + 1 /\ m + k - 1 \in DOMAIN c /\ (m + k - 1 = n => k = n - m + 1)
    BY <1>1, <1>2, <1>3
  <2>2. d[k] = c[m + k - 1]
    BY <1>3, <2>1
  <2> QED
    BY <1>1, <1>3, <2>1, <2>2
<1>5. IsBlock(d)
  BY <1>3, <1>4 DEF IsBlock
<1>6. Goes(d) \subseteq Goes(c)
  <2>1. CASE d = <<>>
    BY <2>1 DEF Goes
  <2>2. CASE d # <<>>
    <3>1. Len(d) >= 1 /\ Last(d) = d[Len(d)]
      BY <1>5, <2>2, BlockFacts
    <3>2. Len(d) \in 1 .. n - m + 1 /\ m + Len(d) - 1 = n /\ n >= 1
      BY <1>1, <1>2, <1>3, <3>1
    <3>3. d[Len(d)] = c[n]
      BY <1>3, <3>2
    <3>4. c # <<>>
      BY <3>2, EmptyList DEF n
    <3> QED
      BY <1>1, <2>2, <3>1, <3>3, <3>4 DEF Goes
  <2> QED
    BY <2>1, <2>2
<1> QED
  BY <1>5, <1>6 DEF d, n

-----------------------------------------------------------------------------
(* Functions *)

(* An edit that leaves a function whose edges are those of f. *)
SameFlow(g, f) == IsFunction(g) /\ EdgesOf(g) = EdgesOf(f)

(* The analyses read the edges and nothing else. *)
LEMMA SameAnalyses ==
  ASSUME NEW f, NEW g, SameFlow(g, f)
  PROVE  Analyses(g) = Analyses(f)
BY DEF SameFlow, Analyses, ReachedBlocks

(* One edit after another. *)
LEMMA SameFlowTwice ==
  ASSUME NEW f, NEW g, NEW h, SameFlow(g, f), SameFlow(h, g)
  PROVE  SameFlow(h, f)
BY DEF SameFlow

(* What a function is. *)
LEMMA FunctionFacts ==
  ASSUME NEW f, IsFunction(f)
  PROVE  /\ DOMAIN f = {"code", "values"}
         /\ IsSeq(f.code) /\ f.code # <<>> /\ Len(f.code) \in Nat /\ Len(f.code) >= 1
         /\ BlocksOf(f) = 1 .. Len(f.code) /\ DOMAIN f.code = 1 .. Len(f.code)
         /\ \A b \in BlocksOf(f) : /\ IsBlock(f.code[b])
                                   /\ Successors(f, b) = Goes(f.code[b])
                                   /\ Goes(f.code[b]) \subseteq BlocksOf(f)
         /\ EdgesOf(f) = [b \in BlocksOf(f) |-> Goes(f.code[b])]
         /\ SameFlow(f, f)
<1>1. /\ DOMAIN f = {"code", "values"}
      /\ IsSeq(f.code) /\ f.code # <<>> /\ Len(f.code) \in Nat /\ Len(f.code) >= 1
      /\ BlocksOf(f) = 1 .. Len(f.code) /\ DOMAIN f.code = 1 .. Len(f.code)
  BY SeqFacts DEF IsFunction, BlocksOf
<1>2. \A b \in BlocksOf(f) : Successors(f, b) = Goes(f.code[b])
  BY DEF Successors, Goes
<1>3. \A b \in BlocksOf(f) : IsBlock(f.code[b]) /\ Goes(f.code[b]) \subseteq BlocksOf(f)
  BY <1>2 DEF IsFunction
<1>4. EdgesOf(f) = [b \in BlocksOf(f) |-> Goes(f.code[b])]
  BY <1>2 DEF EdgesOf
<1> QED
  BY <1>1, <1>2, <1>3, <1>4 DEF SameFlow

(* How to be one. *)
LEMMA FunctionOf ==
  ASSUME NEW g, DOMAIN g = {"code", "values"}, IsSeq(g.code), g.code # <<>>,
         \A b \in DOMAIN g.code : IsBlock(g.code[b]) /\ Goes(g.code[b]) \subseteq DOMAIN g.code
  PROVE  IsFunction(g)
BY DEF IsFunction, BlocksOf, Successors, Goes

(* Every block replaced by one that goes where it went. *)
LEMMA EveryBlock ==
  ASSUME NEW f, IsFunction(f), NEW g, DOMAIN g = {"code", "values"},
         g.code = [b \in DOMAIN f.code |-> g.code[b]],
         \A b \in DOMAIN f.code : IsBlock(g.code[b]) /\ Goes(g.code[b]) = Goes(f.code[b])
  PROVE  SameFlow(g, f) /\ DOMAIN g.code = DOMAIN f.code
<1>1. /\ Len(f.code) \in Nat /\ Len(f.code) >= 1 /\ DOMAIN f.code = 1 .. Len(f.code)
      /\ \A b \in DOMAIN f.code : Goes(f.code[b]) \subseteq DOMAIN f.code
      /\ EdgesOf(f) = [b \in DOMAIN f.code |-> Goes(f.code[b])]
  BY FunctionFacts DEF BlocksOf
<1>2. DOMAIN g.code = DOMAIN f.code
  OBVIOUS
<1>3. IsSeq(g.code) /\ Len(g.code) = Len(f.code)
  BY <1>1, ListIs
<1>4. g.code # <<>>
  BY <1>1, <1>3, EmptyList
<1>5. IsFunction(g)
  BY <1>1, <1>2, <1>3, <1>4, FunctionOf
<1>6. EdgesOf(g) = [b \in DOMAIN f.code |-> Goes(g.code[b])]
  BY <1>2, <1>5, FunctionFacts DEF BlocksOf
<1>7. EdgesOf(g) = EdgesOf(f)
  BY <1>1, <1>6
<1> QED
  BY <1>2, <1>5, <1>7 DEF SameFlow

(* One block replaced by one that goes where it went. *)
LEMMA OneBlock ==
  ASSUME NEW f, IsFunction(f), NEW b, NEW c,
         b \in BlocksOf(f) => IsBlock(c) /\ Goes(c) = Goes(f.code[b]),
         NEW g, DOMAIN g = {"code", "values"}, g.code = [f.code EXCEPT ![b] = c]
  PROVE  /\ SameFlow(g, f) /\ DOMAIN g.code = DOMAIN f.code
         /\ \A x \in DOMAIN f.code : g.code[x] = IF x = b THEN c ELSE f.code[x]
<1>1. \A x \in DOMAIN f.code : IsBlock(f.code[x])
  BY FunctionFacts DEF BlocksOf
<1>3. DOMAIN g.code = DOMAIN f.code
  OBVIOUS
<1>4. \A x \in DOMAIN f.code : g.code[x] = IF x = b THEN c ELSE f.code[x]
  OBVIOUS
<1>5. g.code = [x \in DOMAIN f.code |-> g.code[x]]
  OBVIOUS
<1>6. \A x \in DOMAIN f.code : IsBlock(g.code[x]) /\ Goes(g.code[x]) = Goes(f.code[x])
  BY <1>1, <1>4 DEF BlocksOf
<1> QED
  BY <1>3, <1>4, <1>5, <1>6, EveryBlock

(* Instructions rewritten where they are. *)
LEMMA EveryInstr ==
  ASSUME NEW f, IsFunction(f), NEW g, DOMAIN g = {"code", "values"},
         g.code = [b \in DOMAIN f.code |-> g.code[b]],
         \A b \in DOMAIN f.code : g.code[b] = [k \in DOMAIN f.code[b] |-> g.code[b][k]],
         \A b \in DOMAIN f.code : \A k \in DOMAIN f.code[b] :
           /\ IsInstr(g.code[b][k])
           /\ IsTerminator(g.code[b][k].op) => IsTerminator(f.code[b][k].op)
           /\ g.code[b][k].to = f.code[b][k].to
  PROVE  /\ SameFlow(g, f) /\ DOMAIN g.code = DOMAIN f.code
         /\ \A b \in DOMAIN f.code : DOMAIN g.code[b] = DOMAIN f.code[b]
<1>1. ASSUME NEW b \in DOMAIN f.code
      PROVE  IsBlock(g.code[b]) /\ Goes(g.code[b]) = Goes(f.code[b])
             /\ DOMAIN g.code[b] = DOMAIN f.code[b]
  <2> DEFINE c == f.code[b]
             d == g.code[b]
  <2>1. IsBlock(c)
    BY FunctionFacts DEF BlocksOf
  <2>2. d = [k \in DOMAIN c |-> d[k]]
    OBVIOUS
  <2>3. \A k \in DOMAIN c : /\ IsInstr(d[k])
                            /\ IsTerminator(d[k].op) => IsTerminator(c[k].op)
                            /\ d[k].to = c[k].to
    OBVIOUS
  <2>. HIDE DEF c, d
  <2>4. IsBlock(d) /\ Goes(d) = Goes(c) /\ DOMAIN d = DOMAIN c
    BY <2>1, <2>2, <2>3, Edited
  <2> QED
    BY <2>4 DEF c, d
<1> QED
  BY <1>1, EveryBlock

(* Where an instruction that does not end a block was taken out. *)
LEMMA SiteRemoved ==
  ASSUME NEW f, IsFunction(f), NEW b, NEW k,
         b \in BlocksOf(f) => k \in DOMAIN f.code[b] /\ ~ IsTerminator(f.code[b][k].op)
  PROVE  /\ SameFlow(RemoveSite(f, <<b, k>>), f)
         /\ \A x \in DOMAIN f.code : x # b => RemoveSite(f, <<b, k>>).code[x] = f.code[x]
<1> DEFINE c == RemoveAt(f.code[b], k)
           g == RemoveSite(f, <<b, k>>)
<1>1. b \in BlocksOf(f) => IsBlock(c) /\ Goes(c) = Goes(f.code[b])
  <2> SUFFICES ASSUME b \in BlocksOf(f) PROVE IsBlock(c) /\ Goes(c) = Goes(f.code[b])
    OBVIOUS
  <2>1. IsBlock(f.code[b]) /\ k \in DOMAIN f.code[b] /\ ~ IsTerminator(f.code[b][k].op)
    BY FunctionFacts
  <2> QED
    BY <2>1, Unlinked
<1>2. DOMAIN g = {"code", "values"} /\ g.code = [f.code EXCEPT ![b] = c]
  BY FunctionFacts DEF RemoveSite
<1>. HIDE DEF c, g
<1>3. /\ SameFlow(g, f)
      /\ \A x \in DOMAIN f.code : g.code[x] = IF x = b THEN c ELSE f.code[x]
  BY <1>1, <1>2, OneBlock
<1> QED
  BY <1>3 DEF g

(* ir_emit_before of what does not end a block. *)
LEMMA InstrPut ==
  ASSUME NEW f, IsFunction(f), NEW b, NEW k, NEW i, IsInstr(i), ~ IsTerminator(i.op),
         b \in BlocksOf(f) => k \in DOMAIN f.code[b]
  PROVE  SameFlow(EmitBefore(f, <<b, k>>, i), f)
<1> DEFINE c == InsertAt(f.code[b], k, i)
           g == EmitBefore(f, <<b, k>>, i)
<1>1. b \in BlocksOf(f) => IsBlock(c) /\ Goes(c) = Goes(f.code[b])
  <2> SUFFICES ASSUME b \in BlocksOf(f) PROVE IsBlock(c) /\ Goes(c) = Goes(f.code[b])
    OBVIOUS
  <2>1. IsBlock(f.code[b]) /\ k \in DOMAIN f.code[b]
    BY FunctionFacts
  <2> QED
    BY <2>1, PutBefore
<1>2. DOMAIN g = {"code", "values"} /\ g.code = [f.code EXCEPT ![b] = c]
  BY FunctionFacts DEF EmitBefore
<1>. HIDE DEF c, g
<1>3. SameFlow(g, f)
  BY <1>1, <1>2, OneBlock
<1> QED
  BY <1>3 DEF g

(* Reading another value changes neither what ends a block nor what is     *)
(* defined where.                                                          *)
LEMMA UsesReplaced ==
  ASSUME NEW f, IsFunction(f), NEW v, NEW w
  PROVE  /\ SameFlow(ReplaceUses(f, v, w), f)
         /\ DOMAIN ReplaceUses(f, v, w).code = DOMAIN f.code
         /\ \A b \in DOMAIN f.code :
              /\ DOMAIN ReplaceUses(f, v, w).code[b] = DOMAIN f.code[b]
              /\ \A k \in DOMAIN f.code[b] :
                   ReplaceUses(f, v, w).code[b][k].op = f.code[b][k].op
<1> DEFINE g == ReplaceUses(f, v, w)
           R(i) == [i EXCEPT !.args = [a \in DOMAIN @ |-> IF @[a] = v THEN w ELSE @[a]]]
<1>1. DOMAIN f = {"code", "values"}
  BY FunctionFacts
<1>2. /\ DOMAIN g = {"code", "values"}
      /\ g.code = [b \in DOMAIN f.code |-> [k \in DOMAIN f.code[b] |-> R(f.code[b][k])]]
  BY <1>1 DEF ReplaceUses, EditInstrs
<1>3. ASSUME NEW i, IsInstr(i) PROVE IsInstr(R(i)) /\ R(i).op = i.op /\ R(i).to = i.to
  <2>1. /\ DOMAIN R(i) = InstrFields /\ R(i).op = i.op /\ R(i).to = i.to /\ R(i).dst = i.dst
    BY <1>3 DEF IsInstr, InstrFields
  <2>. HIDE DEF R
  <2> QED
    BY <1>3, <2>1 DEF IsInstr
<1>. HIDE DEF g, R
<1>4. /\ g.code = [b \in DOMAIN f.code |-> g.code[b]]
      /\ \A b \in DOMAIN f.code : g.code[b] = [k \in DOMAIN f.code[b] |-> g.code[b][k]]
  BY <1>2
<1>5. \A b \in DOMAIN f.code : \A k \in DOMAIN f.code[b] :
        IsInstr(f.code[b][k]) /\ g.code[b][k] = R(f.code[b][k])
  BY <1>2, FunctionFacts, BlockFacts DEF BlocksOf
<1>6. \A b \in DOMAIN f.code : \A k \in DOMAIN f.code[b] :
        IsInstr(g.code[b][k]) /\ g.code[b][k].op = f.code[b][k].op
          /\ g.code[b][k].to = f.code[b][k].to
  BY <1>3, <1>5
<1>7. /\ SameFlow(g, f) /\ DOMAIN g.code = DOMAIN f.code
      /\ \A b \in DOMAIN f.code : DOMAIN g.code[b] = DOMAIN f.code[b]
  <2>1. DOMAIN g = {"code", "values"}
    BY <1>2
  <2>2. \A b \in DOMAIN f.code : \A k \in DOMAIN f.code[b] :
          /\ IsInstr(g.code[b][k])
          /\ IsTerminator(g.code[b][k].op) => IsTerminator(f.code[b][k].op)
          /\ g.code[b][k].to = f.code[b][k].to
    BY <1>6
  <2> QED
    BY <1>4, <2>1, <2>2, EveryInstr
<1> QED
  BY <1>6, <1>7 DEF g

(* ir_analyze_cfg leaves a function behind. *)
LEMMA DroppedUnreachable ==
  ASSUME NEW f, IsFunction(f)
  PROVE  /\ IsFunction(DropUnreachable(f))
         /\ \A b \in DOMAIN f.code : DropUnreachable(f).code[b] \in {f.code[b], <<>>}
<1> DEFINE g == DropUnreachable(f)
           reached == ReachedBlocks(f)
<1>1. /\ DOMAIN f = {"code", "values"} /\ Len(f.code) \in Nat /\ Len(f.code) >= 1
      /\ DOMAIN f.code = 1 .. Len(f.code)
      /\ \A b \in DOMAIN f.code : IsBlock(f.code[b]) /\ Goes(f.code[b]) \subseteq DOMAIN f.code
  BY FunctionFacts DEF BlocksOf
<1>2. /\ DOMAIN g = {"code", "values"}
      /\ g.code = [b \in DOMAIN f.code |-> IF b \in reached THEN f.code[b] ELSE <<>>]
  BY <1>1 DEF DropUnreachable
<1>. HIDE DEF g, reached
<1>3. DOMAIN g.code = DOMAIN f.code /\ \A b \in DOMAIN f.code : g.code[b] \in {f.code[b], <<>>}
  BY <1>2
<1>4. IsSeq(g.code) /\ Len(g.code) = Len(f.code)
  <2>1. g.code = [b \in 1 .. Len(f.code) |-> g.code[b]]
    BY <1>1, <1>2
  <2> QED
    BY <1>1, <2>1, ListIs
<1>5. g.code # <<>>
  BY <1>1, <1>4, EmptyList
<1>6. IsBlock(<<>>) /\ Goes(<<>>) = {}
  BY EmptyIsOpen, OpenFacts
<1>7. \A b \in DOMAIN g.code : IsBlock(g.code[b]) /\ Goes(g.code[b]) \subseteq DOMAIN g.code
  BY <1>1, <1>3, <1>6
<1>8. IsFunction(g)
  BY <1>2, <1>4, <1>5, <1>7, FunctionOf
<1> QED
  BY <1>3, <1>8 DEF g

-----------------------------------------------------------------------------
(* Edits of the passes *)

(* A site of a function is a block of it and a position in that block. *)
LEMMA SiteFacts ==
  ASSUME NEW f, IsFunction(f), NEW s \in Sites(f)
  PROVE  /\ s = <<s[1], s[2]>> /\ s \in Nat \X Nat
         /\ s[1] \in BlocksOf(f) /\ s[1] \in DOMAIN f.code /\ s[2] \in DOMAIN f.code[s[1]]
         /\ IsBlock(f.code[s[1]])
         /\ InstrAt(f, s) = f.code[s[1]][s[2]] /\ IsInstr(InstrAt(f, s))
<1>1. PICK b \in BlocksOf(f) : s \in {b} \X DOMAIN f.code[b]
  BY DEF Sites
<1>2. s = <<s[1], s[2]>> /\ s[1] = b /\ s[2] \in DOMAIN f.code[b]
  BY <1>1
<1>3. BlocksOf(f) = 1 .. Len(f.code) /\ Len(f.code) \in Nat /\ IsBlock(f.code[b])
  BY FunctionFacts
<1>4. DOMAIN f.code[b] = 1 .. Len(f.code[b]) /\ Len(f.code[b]) \in Nat
      /\ \A k \in DOMAIN f.code[b] : IsInstr(f.code[b][k])
  BY <1>3, BlockFacts
<1>5. s[1] \in Nat /\ s[2] \in Nat
  BY <1>2, <1>3, <1>4
<1> QED
  BY <1>1, <1>2, <1>3, <1>4, <1>5 DEF InstrAt, BlocksOf

(* There is a first site among some. *)
LEMMA FirstOfIn ==
  ASSUME NEW S, S \subseteq Nat \X Nat, S # {}
  PROVE  FirstOf(S) \in S
<1> DEFINE A == {s[1] : s \in S}
           m == Min(A)
           B == {s[2] : s \in {t \in S : t[1] = m}}
           k == Min(B)
<1>1. A \subseteq Nat /\ A # {}
  OBVIOUS
<1>2. m \in A /\ \A y \in A : m <= y
  <2>. HIDE DEF A
  <2> QED
    BY <1>1, LeastIn
<1>. HIDE DEF m
<1>3. B \subseteq Nat /\ B # {}
  BY <1>2
<1>4. k \in B /\ \A y \in B : k <= y
  <2>. HIDE DEF B
  <2> QED
    BY <1>3, LeastIn
<1>. HIDE DEF k
<1>5. <<m, k>> \in S
  BY <1>4
<1>6. ASSUME NEW t \in S PROVE <<m, k>> = t \/ IsBefore(<<m, k>>, t)
  <2>1. t = <<t[1], t[2]>> /\ t[1] \in Nat /\ t[2] \in Nat /\ m \in Nat /\ k \in Nat
    BY <1>1, <1>2, <1>3, <1>4
  <2>2. m <= t[1] /\ (t[1] = m => k <= t[2])
    BY <1>2, <1>4
  <2> QED
    BY <2>1, <2>2 DEF IsBefore
<1> QED
  BY <1>5, <1>6 DEF FirstOf

(* The count of values says nothing about control. *)
LEMMA ValuesSet ==
  ASSUME NEW f, IsFunction(f), NEW v, NEW g, g = [f EXCEPT !.values = v]
  PROVE  SameFlow(g, f) /\ g.code = f.code
<1>1. DOMAIN g = {"code", "values"} /\ g.code = f.code
  BY FunctionFacts
<1>2. g.code = [b \in DOMAIN f.code |-> g.code[b]]
  BY <1>1, FunctionFacts DEF IsSeq
<1>3. \A b \in DOMAIN f.code : IsBlock(g.code[b]) /\ Goes(g.code[b]) = Goes(f.code[b])
  BY <1>1, FunctionFacts DEF BlocksOf
<1> QED
  BY <1>1, <1>2, <1>3, EveryBlock

(* One instruction replaced by one that does not end the block. *)
LEMMA InstrReplaced ==
  ASSUME NEW f, IsFunction(f), NEW b \in BlocksOf(f), NEW k \in DOMAIN f.code[b],
         NEW x, IsInstr(x), ~ IsTerminator(x.op), x.to = f.code[b][k].to,
         NEW g, DOMAIN g = {"code", "values"},
         g.code = [f.code EXCEPT ![b] = [f.code[b] EXCEPT ![k] = x]]
  PROVE  /\ SameFlow(g, f) /\ DOMAIN g.code = DOMAIN f.code
         /\ DOMAIN g.code[b] = DOMAIN f.code[b]
<1> DEFINE c == f.code[b]
           d == [c EXCEPT ![k] = x]
<1>1. IsBlock(c) /\ IsSeq(c) /\ \A j \in DOMAIN c : IsInstr(c[j])
  BY FunctionFacts, BlockFacts
<1>2. d = [j \in DOMAIN c |-> d[j]] /\ \A j \in DOMAIN c : d[j] = IF j = k THEN x ELSE c[j]
  BY <1>1
<1>3. \A j \in DOMAIN c : /\ IsInstr(d[j])
                          /\ IsTerminator(d[j].op) => IsTerminator(c[j].op)
                          /\ d[j].to = c[j].to
  BY <1>1, <1>2
<1>4. DOMAIN g = {"code", "values"} /\ g.code = [f.code EXCEPT ![b] = d]
  OBVIOUS
<1>. HIDE DEF d
<1>5. IsBlock(d) /\ Goes(d) = Goes(c) /\ DOMAIN d = DOMAIN c
  <2>. HIDE DEF c
  <2> QED
    BY <1>1, <1>2, <1>3, Edited
<1>6. /\ SameFlow(g, f) /\ DOMAIN g.code = DOMAIN f.code
      /\ \A y \in DOMAIN f.code : g.code[y] = IF y = b THEN d ELSE f.code[y]
  <2>1. b \in BlocksOf(f) => IsBlock(d) /\ Goes(d) = Goes(f.code[b])
    BY <1>5
  <2>2. SameFlow(g, f) /\ DOMAIN g.code = DOMAIN f.code
    BY <1>4, <2>1, OneBlock
  <2>3. \A y \in DOMAIN f.code : g.code[y] = IF y = b THEN d ELSE f.code[y]
    BY <1>4
  <2> QED
    BY <2>2, <2>3
<1> QED
  BY <1>5, <1>6 DEF BlocksOf

(* An instruction that defines something is no terminator. *)
LEMMA DefinesSo ==
  ASSUME NEW i, IsInstr(i), i.dst # NoValue
  PROVE  ~ IsTerminator(i.op) /\ i.to = <<>>
BY DEF IsInstr

(* What the passes create: constants, jumps, phis. *)
LEMMA ConstIsInstr ==
  ASSUME NEW v, NEW n, NEW ty
  PROVE  IsInstr(Const(v, n, ty)) /\ ~ IsTerminator(Const(v, n, ty).op)
BY DEF Const, Instr, IsInstr, IsTerminator, InstrFields

LEMMA JumpIsInstr ==
  ASSUME NEW b
  PROVE  IsInstr(Jump(b)) /\ Jump(b).to = <<b>> /\ Range(Jump(b).to) = {b}
<1>1. /\ DOMAIN Jump(b) = InstrFields /\ Jump(b).to = <<b>> /\ Jump(b).op = "jmp"
      /\ Jump(b).dst = NoValue
  BY DEF Jump, Instr, InstrFields
<1>2. IsInstr(Jump(b))
  <2>1. DOMAIN Jump(b).to = 1 .. 1
    BY <1>1
  <2> QED
    BY <1>1, <2>1 DEF IsInstr, IsTerminator
<1>3. Range(<<b>>) = {b}
  BY DEF Range
<1> QED
  BY <1>1, <1>2, <1>3

(* A phi does not end a block. *)
LEMMA PhiIsInstr ==
  ASSUME NEW v, NEW args
  PROVE  IsInstr(Instr("phi", v, args)) /\ ~ IsTerminator(Instr("phi", v, args).op)
BY DEF Instr, IsInstr, IsTerminator, InstrFields

LEMMA TypedPhiIsInstr ==
  ASSUME NEW v, NEW ty
  PROVE  IsInstr(TypedPhi(v, ty)) /\ ~ IsTerminator(TypedPhi(v, ty).op)
BY DEF TypedPhi, Instr, IsInstr, IsTerminator, InstrFields

(* A value is read in place of one whose instruction goes. *)
LEMMA ReplacedAndRemoved ==
  ASSUME NEW f, IsFunction(f), NEW s \in Sites(f), ~ IsTerminator(InstrAt(f, s).op), NEW v, NEW w
  PROVE  SameFlow(RemoveSite(ReplaceUses(f, v, w), s), f)
<1> DEFINE g == ReplaceUses(f, v, w)
           b == s[1]
           k == s[2]
<1>1. s = <<b, k>> /\ b \in DOMAIN f.code /\ k \in DOMAIN f.code[b]
      /\ ~ IsTerminator(f.code[b][k].op)
  BY SiteFacts
<1>. HIDE DEF b, k
<1>2. /\ SameFlow(g, f) /\ DOMAIN g.code = DOMAIN f.code
      /\ \A x \in DOMAIN f.code :
           /\ DOMAIN g.code[x] = DOMAIN f.code[x]
           /\ \A y \in DOMAIN f.code[x] : g.code[x][y].op = f.code[x][y].op
  BY UsesReplaced
<1>. HIDE DEF g
<1>3. k \in DOMAIN g.code[b] /\ ~ IsTerminator(g.code[b][k].op) /\ IsFunction(g)
  BY <1>1, <1>2 DEF SameFlow
<1>4. SameFlow(RemoveSite(g, <<b, k>>), g)
  BY <1>3, SiteRemoved
<1> QED
  BY <1>1, <1>2, <1>4, SameFlowTwice DEF g

(* What is kept of a list is kept from its positions. *)
LEMMA NothingElse ==
  ASSUME NEW t, t = <<>>, NEW u, u = [a \in DOMAIN t |-> u[a]]
  PROVE  u = <<>>
<1>1. DOMAIN t = 1 .. 0
  BY EmptyList, SeqFacts
<1>2. IsSeq(u) /\ Len(u) = 0
  BY <1>1, ListIs
<1> QED
  BY <1>2, SeqFacts

(* One instruction that does not end a block. *)
LEMMA OpenOne ==
  ASSUME NEW i, IsInstr(i), ~ IsTerminator(i.op)
  PROVE  Open(<<i>>)
<1> DEFINE t == <<i>>
<1>1. t = [k \in 1 .. 1 |-> t[k]] /\ t[1] = i
  OBVIOUS
<1>. HIDE DEF t
<1>2. IsSeq(t) /\ DOMAIN t = 1 .. 1
  BY <1>1, ListIs
<1>3. Open(t)
  BY <1>1, <1>2 DEF Open
<1> QED
  BY <1>3 DEF t

(* An instruction rewritten in other fields than those control depends on. *)
Touched(x, i) ==
  IsInstr(i) => DOMAIN x = InstrFields /\ x.op = i.op /\ x.dst = i.dst /\ x.to = i.to

(* The same blocks, each of as many instructions. *)
SameSlots(g, f) ==
  /\ DOMAIN g = {"code", "values"}
  /\ g.code = [b \in DOMAIN f.code |-> g.code[b]]
  /\ \A b \in DOMAIN f.code : g.code[b] = [k \in DOMAIN f.code[b] |-> g.code[b][k]]

AllTouched(g, f) ==
  \A b \in DOMAIN f.code : \A k \in DOMAIN f.code[b] : Touched(g.code[b][k], f.code[b][k])

(* A function all of whose instructions are rewritten in that way. *)
LEMMA Retouched ==
  ASSUME NEW f, IsFunction(f), NEW g, SameSlots(g, f), AllTouched(g, f)
  PROVE  /\ SameFlow(g, f) /\ DOMAIN g.code = DOMAIN f.code
         /\ \A b \in DOMAIN f.code :
              /\ DOMAIN g.code[b] = DOMAIN f.code[b]
              /\ \A k \in DOMAIN f.code[b] : /\ g.code[b][k].op = f.code[b][k].op
                                             /\ g.code[b][k].dst = f.code[b][k].dst
<1>1. \A b \in DOMAIN f.code : \A k \in DOMAIN f.code[b] : IsInstr(f.code[b][k])
  BY FunctionFacts, BlockFacts DEF BlocksOf
<1>2. ASSUME NEW b \in DOMAIN f.code, NEW k \in DOMAIN f.code[b]
      PROVE  /\ IsInstr(g.code[b][k]) /\ g.code[b][k].op = f.code[b][k].op
             /\ g.code[b][k].dst = f.code[b][k].dst /\ g.code[b][k].to = f.code[b][k].to
  <2> DEFINE x == g.code[b][k]
             i == f.code[b][k]
  <2>1. IsInstr(i) /\ DOMAIN x = InstrFields /\ x.op = i.op /\ x.dst = i.dst /\ x.to = i.to
    BY <1>1 DEF AllTouched, Touched
  <2>. HIDE DEF x, i
  <2>2. IsInstr(x)
    BY <2>1 DEF IsInstr
  <2> QED
    BY <2>1, <2>2 DEF x, i
<1>3. \A b \in DOMAIN f.code : \A k \in DOMAIN f.code[b] :
        /\ IsInstr(g.code[b][k])
        /\ IsTerminator(g.code[b][k].op) => IsTerminator(f.code[b][k].op)
        /\ g.code[b][k].to = f.code[b][k].to
  BY <1>2
<1>4. /\ SameFlow(g, f) /\ DOMAIN g.code = DOMAIN f.code
      /\ \A b \in DOMAIN f.code : DOMAIN g.code[b] = DOMAIN f.code[b]
  BY <1>3, EveryInstr DEF SameSlots
<1> QED
  BY <1>2, <1>4

(* Every function has an entry. *)
LEMMA EntryIsBlock ==
  ASSUME NEW f, IsFunction(f)
  PROVE  EntryBlock \in BlocksOf(f) /\ EntryBlock \in DOMAIN f.code /\ IsBlock(f.code[EntryBlock])
<1>1. 1 \in 1 .. Len(f.code) /\ DOMAIN f.code = 1 .. Len(f.code) /\ BlocksOf(f) = 1 .. Len(f.code)
  BY FunctionFacts
<1> QED
  BY <1>1, FunctionFacts DEF EntryBlock

(* Instructions that do not end a block put at the top of one. *)
LEMMA BlockPrefixed ==
  ASSUME NEW f, IsFunction(f), NEW b, b \in BlocksOf(f), NEW p, Open(p),
         NEW g, DOMAIN g = {"code", "values"}, g.code = [f.code EXCEPT ![b] = p \o f.code[b]]
  PROVE  SameFlow(g, f) /\ DOMAIN g.code = DOMAIN f.code
<1> DEFINE c == f.code[b]
           d == p \o c
<1>1. IsBlock(c)
  BY FunctionFacts
<1>2. IsBlock(p \o c) /\ Goes(p \o c) = Goes(c)
  BY <1>1, Prefixed
<1>3. IsBlock(d) /\ Goes(d) = Goes(f.code[b]) /\ g.code = [f.code EXCEPT ![b] = d]
  BY <1>2
<1>. HIDE DEF c, d
<1> QED
  BY <1>3, OneBlock

(* A list of constants does not end a block. *)
LEMMA ConstsAreOpen ==
  ASSUME NEW z, IsSeq(z), NEW v, NEW p, p = [n \in DOMAIN z |-> p[n]],
         \A n \in DOMAIN z : \E ty : p[n] = Const(v + n, 0, ty)
  PROVE  Open(p)
<1>1. Len(z) \in Nat /\ DOMAIN z = 1 .. Len(z)
  BY SeqFacts
<1>2. p = [n \in 1 .. Len(z) |-> p[n]]
  BY <1>1
<1>3. IsSeq(p) /\ DOMAIN p = 1 .. Len(z)
  BY <1>1, <1>2, ListIs
<1>4. \A n \in DOMAIN p : \E ty : p[n] = Const(v + n, 0, ty)
  BY <1>1
<1> QED
  BY <1>3, <1>4, ConstIsInstr DEF Open

(* A block one longer than before, a new list in it. *)
LEMMA BlockAdded ==
  ASSUME NEW f, IsFunction(f)
  PROVE  /\ IsFunction(NewBlock(f)) /\ DOMAIN NewBlock(f) = {"code", "values"}
         /\ Len(NewBlock(f).code) = Len(f.code) + 1
         /\ DOMAIN NewBlock(f).code = 1 .. Len(f.code) + 1
         /\ \A b \in DOMAIN f.code : NewBlock(f).code[b] = f.code[b]
         /\ NewBlock(f).code[Len(f.code) + 1] = <<>>
<1> DEFINE g == NewBlock(f)
           e == <<>>
           n == Len(f.code)
<1>1. /\ IsSeq(f.code) /\ n \in Nat /\ DOMAIN f.code = 1 .. n
      /\ \A b \in DOMAIN f.code : IsBlock(f.code[b]) /\ Goes(f.code[b]) \subseteq DOMAIN f.code
  BY FunctionFacts DEF BlocksOf
<1>2. DOMAIN g = {"code", "values"} /\ g.code = Append(f.code, e)
  BY FunctionFacts DEF NewBlock
<1>3. IsBlock(e) /\ Goes(e) = {}
  BY EmptyIsOpen, OpenFacts
<1>. HIDE DEF g, e
<1>4. /\ IsSeq(g.code) /\ Len(g.code) = n + 1 /\ DOMAIN g.code = 1 .. n + 1
      /\ \A b \in 1 .. n : g.code[b] = f.code[b]
      /\ g.code[n + 1] = e
  BY <1>1, <1>2, Appended
<1>. HIDE DEF n
<1>5. g.code # <<>>
  BY <1>1, <1>4, EmptyList
<1>6. ASSUME NEW b \in DOMAIN g.code PROVE IsBlock(g.code[b]) /\ Goes(g.code[b]) \subseteq DOMAIN g.code
  <2>1. CASE b = n + 1
    BY <1>3, <1>4, <2>1
  <2>2. CASE b # n + 1
    <3>1. b \in DOMAIN f.code /\ g.code[b] = f.code[b]
      BY <1>1, <1>4, <2>2
    <3>2. DOMAIN f.code \subseteq DOMAIN g.code
      BY <1>1, <1>4
    <3> QED
      BY <1>1, <3>1, <3>2
  <2> QED
    BY <2>1, <2>2
<1>7. IsFunction(g)
  BY <1>2, <1>4, <1>5, <1>6, FunctionOf
<1> QED
  BY <1>1, <1>2, <1>4, <1>7 DEF g, e, n

(* Blocks replaced by others of the same function. *)
LEMMA BlocksReplaced ==
  ASSUME NEW f, IsFunction(f), NEW g, DOMAIN g = {"code", "values"},
         g.code = [b \in DOMAIN f.code |-> g.code[b]],
         \A b \in DOMAIN f.code : IsBlock(g.code[b]) /\ Goes(g.code[b]) \subseteq DOMAIN f.code
  PROVE  IsFunction(g) /\ DOMAIN g.code = DOMAIN f.code /\ Len(g.code) = Len(f.code)
<1>1. /\ Len(f.code) \in Nat /\ Len(f.code) >= 1 /\ DOMAIN f.code = 1 .. Len(f.code)
  BY FunctionFacts
<1>2. DOMAIN g.code = DOMAIN f.code /\ IsSeq(g.code) /\ Len(g.code) = Len(f.code)
  BY <1>1, ListIs
<1>3. g.code # <<>>
  BY <1>1, <1>2, EmptyList
<1>4. \A b \in DOMAIN g.code : IsBlock(g.code[b]) /\ Goes(g.code[b]) \subseteq DOMAIN g.code
  BY <1>2
<1>5. IsFunction(g)
  BY <1>2, <1>3, <1>4, FunctionOf
<1> QED
  BY <1>2, <1>5

(* Blocks laid out behind those there are. *)
LEMMA BlocksJoined ==
  ASSUME NEW f, IsFunction(f), NEW q, IsSeq(q),
         \A n \in DOMAIN q : IsBlock(q[n]) /\ Goes(q[n]) \subseteq 1 .. Len(f.code) + Len(q),
         NEW g, DOMAIN g = {"code", "values"}, g.code = f.code \o q
  PROVE  IsFunction(g) /\ Len(g.code) = Len(f.code) + Len(q)
<1> DEFINE m == Len(f.code)
           n == Len(q)
<1>1. /\ IsSeq(f.code) /\ m \in Nat /\ m >= 1 /\ DOMAIN f.code = 1 .. m
      /\ \A b \in DOMAIN f.code : IsBlock(f.code[b]) /\ Goes(f.code[b]) \subseteq DOMAIN f.code
  BY FunctionFacts DEF BlocksOf
<1>2. n \in Nat /\ DOMAIN q = 1 .. n
  BY SeqFacts
<1>3. /\ IsSeq(g.code) /\ Len(g.code) = m + n /\ DOMAIN g.code = 1 .. m + n
      /\ \A k \in 1 .. m + n : g.code[k] = IF k <= m THEN f.code[k] ELSE q[k - m]
  BY <1>1, JoinedSeq
<1>4. \A k \in DOMAIN q : IsBlock(q[k]) /\ Goes(q[k]) \subseteq 1 .. m + n
  OBVIOUS
<1>. HIDE DEF m, n
<1>5. g.code # <<>>
  BY <1>1, <1>2, <1>3, EmptyList
<1>6. ASSUME NEW b \in DOMAIN g.code PROVE IsBlock(g.code[b]) /\ Goes(g.code[b]) \subseteq DOMAIN g.code
  <2>1. CASE b <= m
    <3>1. b \in DOMAIN f.code /\ g.code[b] = f.code[b] /\ DOMAIN f.code \subseteq DOMAIN g.code
      BY <1>1, <1>2, <1>3, <2>1
    <3> QED
      BY <1>1, <3>1
  <2>2. CASE ~ (b <= m)
    <3>1. b - m \in DOMAIN q /\ g.code[b] = q[b - m]
      BY <1>1, <1>2, <1>3, <2>2
    <3> QED
      BY <1>3, <1>4, <3>1
  <2> QED
    BY <2>1, <2>2
<1>7. IsFunction(g)
  BY <1>3, <1>5, <1>6, FunctionOf
<1> QED
  BY <1>3, <1>7 DEF m, n

(* What is kept of a list ends as the list does if its last one is        *)
(* kept.                                                                  *)
LEMMA KeepsLast ==
  ASSUME NEW c, IsSeq(c), c # <<>>, NEW K, Len(c) \in K
  PROVE  KeptAt(c, K) # <<>>
<1>1. PICK g : IsSeq(g) /\ KeptAt(c, K) = IF Len(c) \in K THEN Append(g, c[Len(c)]) ELSE g
  BY KeptFacts
<1>2. KeptAt(c, K) = Append(g, c[Len(c)])
  BY <1>1
<1>3. Len(Append(g, c[Len(c)])) = Len(g) + 1 /\ Len(g) \in Nat
  BY <1>1, Appended, SeqFacts
<1> QED
  BY <1>2, <1>3, EmptyList

(* What is before the return goes. *)
LEMMA LastButOneGone ==
  ASSUME NEW c, IsBlock(c), c # <<>>
  PROVE  IsBlock(RemoveAt(c, Len(c) - 1)) /\ Goes(RemoveAt(c, Len(c) - 1)) = Goes(c)
<1> DEFINE n == Len(c)
<1>1. IsSeq(c) /\ n \in Nat /\ n >= 1 /\ DOMAIN c = 1 .. n
      /\ \A k \in DOMAIN c : k # n => ~ IsTerminator(c[k].op)
  BY BlockFacts
<1>2. CASE n >= 2
  <2> DEFINE m == n - 1
  <2>1. m \in DOMAIN c /\ m # n
    <3>. HIDE DEF n
    <3> QED
      BY <1>1, <1>2
  <2>2. m \in DOMAIN c /\ ~ IsTerminator(c[m].op)
    BY <1>1, <2>1
  <2>. HIDE DEF m
  <2>3. IsBlock(RemoveAt(c, m)) /\ Goes(RemoveAt(c, m)) = Goes(c)
    BY <2>2, Unlinked
  <2> QED
    BY <2>3 DEF m, n
<1>3. CASE n = 1
  <2> DEFINE a == SubSeq(c, 1, -1)
             b == SubSeq(c, 1, n)
  <2>1. RemoveAt(c, Len(c) - 1) = a \o b
    BY <1>3 DEF RemoveAt
  <2>2. a = <<>>
    BY SubSeqEmpty
  <2>3. b = c
    BY <1>1, <1>3 DEF IsSeq
  <2>4. Open(a) /\ IsBlock(b)
    BY <2>2, <2>3, EmptyIsOpen
  <2>. HIDE DEF a, b
  <2>5. IsBlock(a \o b) /\ Goes(a \o b) = Goes(b)
    BY <2>4, Prefixed
  <2> QED
    BY <2>1, <2>3, <2>5
<1> QED
  BY <1>1, <1>2, <1>3

(* A block that jumps to one of the targets it has. *)
LEMMA JumpsInstead ==
  ASSUME NEW c, IsBlock(c), NEW t
  PROVE  IsBlock(Append(Front(c), Jump(t))) /\ Goes(Append(Front(c), Jump(t))) = {t}
BY FrontIsOpen, JumpIsInstr, Closing

(* A list of one instruction, which may end it. *)
LEMMA BlockOne ==
  ASSUME NEW i, IsInstr(i)
  PROVE  IsBlock(<<i>>) /\ Goes(<<i>>) = Range(i.to)
<1> DEFINE t == <<i>>
<1>1. t = [k \in 1 .. 1 |-> t[k]] /\ t[1] = i
  OBVIOUS
<1>. HIDE DEF t
<1>2. IsSeq(t) /\ DOMAIN t = 1 .. 1 /\ Len(t) = 1
  BY <1>1, ListIs
<1>3. IsBlock(t)
  BY <1>1, <1>2 DEF IsBlock
<1>4. t # <<>> /\ Last(t) = i
  BY <1>1, <1>2, <1>3, EmptyList, BlockFacts
<1>5. Goes(t) = Range(i.to)
  BY <1>4 DEF Goes
<1> QED
  BY <1>3, <1>5 DEF t

(* A list of two, of which the second may end it. *)
LEMMA BlockTwo ==
  ASSUME NEW i, IsInstr(i), ~ IsTerminator(i.op), NEW j, IsInstr(j)
  PROVE  IsBlock(<<i, j>>) /\ Goes(<<i, j>>) = Range(j.to)
<1> DEFINE t == <<i, j>>
<1>1. t = [k \in 1 .. 2 |-> t[k]] /\ t[1] = i /\ t[2] = j
  OBVIOUS
<1>. HIDE DEF t
<1>2. IsSeq(t) /\ DOMAIN t = 1 .. 2 /\ Len(t) = 2
  BY <1>1, ListIs
<1>3. IsBlock(t)
  BY <1>1, <1>2 DEF IsBlock
<1>4. t # <<>> /\ Last(t) = j
  BY <1>1, <1>2, <1>3, EmptyList, BlockFacts
<1>5. Goes(t) = Range(j.to)
  BY <1>4 DEF Goes
<1> QED
  BY <1>3, <1>5 DEF t

(* A list control runs through, instruction for instruction. *)
LEMMA CopiedOpen ==
  ASSUME NEW c, Open(c), NEW d, d = [k \in DOMAIN c |-> d[k]],
         \A k \in DOMAIN c : IsInstr(d[k]) /\ d[k].op = c[k].op
  PROVE  Open(d)
<1>1. /\ Len(c) \in Nat /\ DOMAIN c = 1 .. Len(c)
      /\ \A k \in DOMAIN c : ~ IsTerminator(c[k].op)
  BY OpenFacts
<1>2. IsSeq(d) /\ DOMAIN d = 1 .. Len(c)
  BY <1>1, ListIs
<1> QED
  BY <1>1, <1>2 DEF Open

(* A whole block copied, to go where the copies are. *)
LEMMA CopiedBlock ==
  ASSUME NEW c, IsBlock(c), NEW d, d = [k \in DOMAIN c |-> d[k]], NEW R,
         \A k \in DOMAIN c : IsInstr(d[k]) /\ d[k].op = c[k].op /\ Range(d[k].to) \subseteq R
  PROVE  IsBlock(d) /\ Goes(d) \subseteq R
<1>1. /\ Len(c) \in Nat /\ DOMAIN c = 1 .. Len(c)
      /\ \A k \in DOMAIN c : k # Len(c) => ~ IsTerminator(c[k].op)
  BY BlockFacts
<1>2. IsSeq(d) /\ Len(d) = Len(c) /\ DOMAIN d = 1 .. Len(c)
  BY <1>1, ListIs
<1>3. IsBlock(d)
  BY <1>1, <1>2 DEF IsBlock
<1>4. d # <<>> => Last(d) = d[Len(d)] /\ Len(d) \in DOMAIN c
  BY <1>1, <1>2, <1>3, BlockFacts
<1> QED
  BY <1>3, <1>4 DEF Goes

(* Nothing put behind a list. *)
LEMMA NothingBehind ==
  ASSUME NEW s, IsSeq(s)
  PROVE  s \o <<>> = s
BY DEF IsSeq

(* All the instructions of some blocks that are of kinds which do not end  *)
(* a block.                                                                *)
LEMMA GatheredOpen ==
  ASSUME NEW t, IsSeq(t), \A n \in DOMAIN t : IsBlock(t[n]),
         NEW ops, \A op \in ops : ~ IsTerminator(op)
  PROVE  Open(Reverse(Only(FlattenSeq(t), ops)))
<1> DEFINE E == UNION {Range(t[n]) : n \in DOMAIN t}
           all == FlattenSeq(t)
           K == {k \in DOMAIN all : all[k].op \in ops}
           c == KeptAt(all, K)
           d == Reverse(c)
<1>1. ASSUME NEW n \in DOMAIN t PROVE t[n] \in Seq(E)
  <2>1. t[n] \in Seq(Range(t[n])) /\ Range(t[n]) \subseteq E
    BY BlockFacts DEF IsSeq
  <2>. HIDE DEF E
  <2> QED
    BY <2>1, SeqMonotonic
<1>2. \A i \in E : IsInstr(i)
  BY BlockFacts DEF Range
<1>3. all \in Seq(E)
  <2>. HIDE DEF E
  <2> QED
    BY <1>1, Flattened
<1>. HIDE DEF all, E
<1>4. IsSeq(all) /\ \A k \in DOMAIN all : IsInstr(all[k])
  <2>1. \A k \in DOMAIN all : all[k] \in E
    BY <1>3
  <2> QED
    BY <1>2, <1>3, <2>1, TypedSeq
<1>5. \A k \in DOMAIN all : k \in K => IsInstr(all[k]) /\ ~ IsTerminator(all[k].op)
  BY <1>4
<1>. HIDE DEF K
<1>6. Open(c)
  BY <1>4, <1>5, Picked
<1>. HIDE DEF c
<1>7. /\ Len(c) \in Nat /\ DOMAIN c = 1 .. Len(c)
      /\ \A k \in DOMAIN c : IsInstr(c[k]) /\ ~ IsTerminator(c[k].op)
  BY <1>6, OpenFacts
<1>8. d = [k \in 1 .. Len(c) |-> d[k]] /\ \A k \in 1 .. Len(c) : d[k] = c[Len(c) - k + 1]
  BY DEF Reverse
<1>. HIDE DEF d
<1>9. IsSeq(d) /\ DOMAIN d = 1 .. Len(c)
  BY <1>7, <1>8, ListIs
<1>10. Open(d)
  <2>1. ASSUME NEW k \in DOMAIN d PROVE IsInstr(d[k]) /\ ~ IsTerminator(d[k].op)
    <3>1. k \in 1 .. Len(c) /\ Len(c) - k + 1 \in DOMAIN c
      BY <1>7, <1>9
    <3> QED
      BY <1>7, <1>8, <3>1
  <2> QED
    BY <1>9, <2>1 DEF Open
<1> QED
  BY <1>10 DEF d, c, K, all, Only

(* An instruction with its values and blocks renamed. *)
LEMMA CopyIsInstr ==
  ASSUME NEW i, IsInstr(i), NEW x, DOMAIN x = InstrFields, x.op = i.op,
         i.dst = NoValue => x.dst = NoValue, x.to = [a \in DOMAIN i.to |-> x.to[a]]
  PROVE  IsInstr(x)
<1>1. i.to = <<>> => x.to = <<>>
  BY NothingElse
<1>2. DOMAIN x.to = DOMAIN i.to
  OBVIOUS
<1> QED
  BY <1>1, <1>2 DEF IsInstr

(* ir_fix_phis: arguments of phis go. *)
LEMMA PhisFixed ==
  ASSUME NEW f, IsFunction(f), NEW a
  PROVE  SameFlow(FixPhis(f, a), f)
<1> DEFINE Kept(b, i) == Ascending({m \in DOMAIN i.args : i.from[m] \in a.preds[b]}, Len(i.args))
           Args(b, i) == [m \in DOMAIN Kept(b, i) |-> i.args[Kept(b, i)[m]]]
           From(b, i) == [m \in DOMAIN Kept(b, i) |-> i.from[Kept(b, i)[m]]]
           g == FixPhis(f, a)
<1>1. SameSlots(g, f)
  BY FunctionFacts DEF FixPhis, SameSlots
<1>2. \A b \in DOMAIN f.code : \A k \in DOMAIN f.code[b] :
        \/ g.code[b][k] = f.code[b][k]
        \/ g.code[b][k] = [f.code[b][k] EXCEPT !.args = Args(b, f.code[b][k]),
                                               !.from = From(b, f.code[b][k])]
  BY FunctionFacts DEF FixPhis
<1>. HIDE DEF g, Args, From
<1>3. ASSUME NEW b \in DOMAIN f.code, NEW k \in DOMAIN f.code[b]
      PROVE  Touched(g.code[b][k], f.code[b][k])
  <2>1. CASE g.code[b][k] = f.code[b][k]
    BY <2>1 DEF Touched, IsInstr
  <2>2. CASE g.code[b][k] = [f.code[b][k] EXCEPT !.args = Args(b, f.code[b][k]),
                                                 !.from = From(b, f.code[b][k])]
    BY <2>2 DEF Touched, IsInstr, InstrFields
  <2> QED
    BY <1>2, <2>1, <2>2
<1>4. AllTouched(g, f)
  BY <1>3 DEF AllTouched
<1> QED
  BY <1>1, <1>4, Retouched DEF g

-----------------------------------------------------------------------------
(* What the analyses say *)

(* A graph over the blocks bs, as FlowGraph speaks of it. *)
Graph(bs) == INSTANCE FlowGraph WITH Blocks <- bs, Entry <- EntryBlock, NULL <- NoValue

(* The edges as a set of pairs. *)
Pairs(edges) == {e \in (DOMAIN edges) \X (DOMAIN edges) : e[2] \in edges[e[1]]}

(* One step of the walk of ReachedAvoiding. *)
Grown(edges, a, S) == S \cup ((UNION {edges[b] : b \in S}) \ {a})

(* ReachedAvoiding: the n-th set of the walk. *)
LEMMA WalkOf ==
  ASSUME NEW edges, NEW a, IsFiniteSet(DOMAIN edges), EntryBlock \in DOMAIN edges,
         \A b \in DOMAIN edges : edges[b] \subseteq DOMAIN edges
  PROVE  \E R \in [0 .. Cardinality(DOMAIN edges) -> SUBSET DOMAIN edges] :
           /\ R[0] = {EntryBlock} \ {a}
           /\ \A k \in 1 .. Cardinality(DOMAIN edges) : R[k] = Grown(edges, a, R[k - 1])
           /\ ReachedAvoiding(edges, a) = R[Cardinality(DOMAIN edges)]
<1> DEFINE N == Cardinality(DOMAIN edges)
           V == SUBSET DOMAIN edges
           v0 == {EntryBlock} \ {a}
           F == [p \in Nat \X V |-> Grown(edges, a, p[2])]
           Walk(h) == h = [k \in 0 .. N |-> IF k = 0 THEN v0 ELSE
                             LET S == h[k - 1] IN S \cup ((UNION {edges[b] : b \in S}) \ {a})]
<1>1. N \in Nat
  BY FS_CardinalityType
<1>2. ASSUME NEW S \in V PROVE Grown(edges, a, S) \in V
  BY DEF Grown
<1>3. F \in [Nat \X V -> V]
  BY <1>2
<1>4. v0 \in V
  OBVIOUS
<1>5. ReachedAvoiding(edges, a) = (CHOOSE h : Walk(h))[N]
  BY DEF ReachedAvoiding
<1>6. PICK g \in [0 .. N -> V] : IteratesFrom(g, v0, F, N)
  <2>. HIDE DEF F, V, v0, N
  <2> QED
    BY <1>1, <1>3, <1>4, Iterate
<1>7. \A k \in 1 .. N : g[k] = Grown(edges, a, g[k - 1])
  <2> SUFFICES ASSUME NEW k \in 1 .. N PROVE g[k] = Grown(edges, a, g[k - 1])
    OBVIOUS
  <2>1. g[k] = F[<<k, g[k - 1]>>]
    BY <1>6 DEF IteratesFrom
  <2>2. k \in Nat /\ g[k - 1] \in V
    BY <1>1
  <2> QED
    BY <2>1, <2>2
<1>. HIDE DEF V, v0, N
<1>8. g[0] = v0
  BY <1>6 DEF IteratesFrom
<1>9. Walk(g)
  <2>1. ASSUME NEW k \in 0 .. N PROVE g[k] = IF k = 0 THEN v0 ELSE
            LET S == g[k - 1] IN S \cup ((UNION {edges[b] : b \in S}) \ {a})
    BY <1>1, <1>7, <1>8 DEF Grown
  <2>2. g = [k \in 0 .. N |-> g[k]]
    BY <1>6
  <2> QED
    BY <2>1, <2>2
<1>10. ASSUME NEW h, Walk(h)
       PROVE  \A k \in 0 .. N : h[k] = g[k]
  <2> DEFINE T == {k \in 0 .. N : h[k] = g[k]}
  <2>1. 0 \in T
    BY <1>1, <1>8, <1>10
  <2>2. ASSUME NEW k \in 0 .. N - 1, k \in T PROVE k + 1 \in T
    <3>1. k + 1 \in 0 .. N /\ k + 1 \in 1 .. N /\ k + 1 # 0 /\ (k + 1) - 1 = k
      BY <1>1
    <3>2. h[k + 1] = Grown(edges, a, h[k])
      BY <1>10, <3>1 DEF Grown
    <3>3. g[k + 1] = Grown(edges, a, g[k])
      BY <1>7, <3>1
    <3> QED
      BY <2>2, <3>1, <3>2, <3>3
  <2>. HIDE DEF T
  <2>3. \A k \in 0 .. N : k \in T
    BY <1>1, <2>1, <2>2, Induct
  <2> QED
    BY <2>3 DEF T
<1>11. ReachedAvoiding(edges, a) = g[N]
  <2>. HIDE DEF Walk
  <2>1. Walk(CHOOSE h : Walk(h))
    BY <1>9
  <2> QED
    BY <1>1, <1>5, <1>10, <2>1
<1> QED
  BY <1>6, <1>7, <1>8, <1>11 DEF N, V, v0

(* S is closed: no edge leaves it, but into a. *)
Closed(edges, a, S) == \A b \in S : edges[b] \subseteq S \cup {a}

(* The walk has found everything by the time it ends: while it finds      *)
(* something it finds at least one block a step, and there are no more.   *)
LEMMA WalkSettles ==
  ASSUME NEW edges, NEW a, IsFiniteSet(DOMAIN edges), EntryBlock \in DOMAIN edges,
         \A b \in DOMAIN edges : edges[b] \subseteq DOMAIN edges
  PROVE  LET S == ReachedAvoiding(edges, a)
         IN /\ S \subseteq DOMAIN edges
            /\ EntryBlock # a => EntryBlock \in S
            /\ a \notin S
            /\ Closed(edges, a, S)
            /\ \A U : (EntryBlock # a => EntryBlock \in U) /\ Closed(edges, a, U) => S \subseteq U
<1> DEFINE D == DOMAIN edges
           N == Cardinality(D)
<1>1. N \in Nat
  BY FS_CardinalityType
<1>2. PICK R \in [0 .. N -> SUBSET D] :
         /\ R[0] = {EntryBlock} \ {a}
         /\ \A k \in 1 .. N : R[k] = Grown(edges, a, R[k - 1])
         /\ ReachedAvoiding(edges, a) = R[N]
  BY WalkOf
<1>. HIDE DEF D, N
<1>3. ASSUME NEW k \in 0 .. N - 1
      PROVE  k + 1 \in 0 .. N /\ k \in 0 .. N /\ R[k + 1] = Grown(edges, a, R[k])
  <2>1. k + 1 \in 1 .. N /\ (k + 1) - 1 = k
    BY <1>1
  <2> QED
    BY <1>1, <1>2, <2>1
<1>4. ASSUME NEW U, EntryBlock # a => EntryBlock \in U, Closed(edges, a, U)
      PROVE  R[N] \subseteq U
  <2> DEFINE T == {k \in 0 .. N : R[k] \subseteq U}
  <2>1. 0 \in T
    BY <1>1, <1>2, <1>4
  <2>2. ASSUME NEW k \in 0 .. N - 1, k \in T PROVE k + 1 \in T
    BY <1>3, <1>4, <2>2 DEF Grown, Closed
  <2>. HIDE DEF T
  <2>3. \A k \in 0 .. N : k \in T
    BY <1>1, <2>1, <2>2, Induct
  <2> QED
    BY <1>1, <2>3 DEF T
<1>5. \A k \in 0 .. N : (EntryBlock # a => EntryBlock \in R[k]) /\ a \notin R[k]
  <2> DEFINE T == {k \in 0 .. N : (EntryBlock # a => EntryBlock \in R[k]) /\ a \notin R[k]}
  <2>1. 0 \in T
    BY <1>1, <1>2
  <2>2. ASSUME NEW k \in 0 .. N - 1, k \in T PROVE k + 1 \in T
    BY <1>3, <2>2 DEF Grown
  <2>. HIDE DEF T
  <2>3. \A k \in 0 .. N : k \in T
    BY <1>1, <2>1, <2>2, Induct
  <2> QED
    BY <2>3 DEF T
<1>6. ASSUME NEW k \in 0 .. N - 1, Closed(edges, a, R[k])
      PROVE  Closed(edges, a, R[k + 1])
  <2> DEFINE new == (UNION {edges[b] : b \in R[k]}) \ {a}
  <2>1. R[k + 1] = R[k] \cup new
    BY <1>3 DEF Grown
  <2>2. \A x \in new : x \in R[k]
    BY <1>6 DEF Closed
  <2>3. R[k + 1] = R[k]
    <3>. HIDE DEF new
    <3> QED
      BY <2>1, <2>2
  <2> QED
    BY <1>6, <2>3
<1>7. ASSUME NEW k \in 0 .. N - 1, ~ Closed(edges, a, R[k])
      PROVE  \E x \in R[k + 1] : R[k] \subseteq R[k + 1] /\ x \notin R[k]
  BY <1>3, <1>7 DEF Grown, Closed
<1>8. \A k \in 0 .. N : Closed(edges, a, R[k]) \/ Cardinality(R[k]) >= k
  <2> DEFINE T == {k \in 0 .. N : Closed(edges, a, R[k]) \/ Cardinality(R[k]) >= k}
  <2>0. IsFiniteSet(D)
    BY DEF D
  <2>1. \A k \in 0 .. N : IsFiniteSet(R[k]) /\ Cardinality(R[k]) \in Nat
    BY <2>0, <1>2, FS_Subset, FS_CardinalityType
  <2>2. 0 \in T
    BY <1>1, <2>1
  <2>3. ASSUME NEW k \in 0 .. N - 1, k \in T PROVE k + 1 \in T
    <3>1. CASE Closed(edges, a, R[k])
      BY <1>3, <1>6, <3>1
    <3>2. CASE ~ Closed(edges, a, R[k])
      <4>1. PICK x \in R[k + 1] : R[k] \subseteq R[k + 1] /\ x \notin R[k]
        BY <1>7, <3>2
      <4>2. /\ IsFiniteSet(R[k] \cup {x}) /\ Cardinality(R[k] \cup {x}) = Cardinality(R[k]) + 1
        BY <1>3, <2>1, <4>1, FS_AddElement
      <4>3. R[k] \cup {x} \subseteq R[k + 1] /\ IsFiniteSet(R[k + 1])
        BY <1>3, <2>1, <4>1
      <4>4. Cardinality(R[k]) + 1 <= Cardinality(R[k + 1])
        BY <4>2, <4>3, FS_Subset
      <4>5. Cardinality(R[k]) >= k /\ Cardinality(R[k]) \in Nat /\ Cardinality(R[k + 1]) \in Nat
        BY <1>3, <2>1, <2>3, <3>2
      <4> QED
        BY <1>1, <1>3, <4>4, <4>5
    <3> QED
      BY <3>1, <3>2
  <2>. HIDE DEF T
  <2>4. \A k \in 0 .. N : k \in T
    BY <1>1, <2>2, <2>3, Induct
  <2> QED
    BY <2>4 DEF T
<1>9. Closed(edges, a, R[N])
  <2>1. CASE Cardinality(R[N]) >= N
    <3>1. R[N] \subseteq D /\ IsFiniteSet(D)
      BY <1>1, <1>2 DEF D
    <3>2. Cardinality(R[N]) = N
      BY <1>1, <2>1, <3>1, FS_Subset, FS_CardinalityType DEF N
    <3>3. R[N] = D
      BY <3>1, <3>2, FS_Subset DEF N
    <3> QED
      BY <3>3 DEF D, Closed
  <2> QED
    BY <1>1, <1>8, <2>1
<1> QED
  BY <1>1, <1>2, <1>4, <1>5, <1>9 DEF D

(* The pairs and the successors say the same. *)
LEMMA PairsOf ==
  ASSUME NEW edges, NEW x \in DOMAIN edges, NEW y \in DOMAIN edges
  PROVE  <<x, y>> \in Pairs(edges) <=> y \in edges[x]
<1> DEFINE D == DOMAIN edges
           p == <<x, y>>
<1>1. Pairs(edges) = {e \in D \X D : e[2] \in edges[e[1]]}
  BY DEF Pairs
<1>2. p \in D \X D /\ p[1] = x /\ p[2] = y
  OBVIOUS
<1>. HIDE DEF D, p
<1>3. p \in Pairs(edges) <=> p[2] \in edges[p[1]]
  BY <1>1, <1>2
<1> QED
  BY <1>2, <1>3 DEF p

(* What the walk finds is what FlowGraph calls reachable. *)
LEMMA WalkFinds ==
  ASSUME NEW edges, NEW a, IsFiniteSet(DOMAIN edges), EntryBlock \in DOMAIN edges,
         \A b \in DOMAIN edges : edges[b] \subseteq DOMAIN edges
  PROVE  ReachedAvoiding(edges, a) = Graph(DOMAIN edges)!ReachableAvoiding(Pairs(edges), a)
<1> DEFINE D == DOMAIN edges
           S == ReachedAvoiding(edges, a)
<1>1. /\ S \subseteq D
      /\ EntryBlock # a => EntryBlock \in S
      /\ a \notin S
      /\ Closed(edges, a, S)
      /\ \A U : (EntryBlock # a => EntryBlock \in U) /\ Closed(edges, a, U) => S \subseteq U
  BY WalkSettles
<1>2. ASSUME NEW U \in SUBSET D
      PROVE  Graph(D)!ClosedAvoiding(Pairs(edges), a, U) <=> Closed(edges, a, U)
  <2>1. ASSUME NEW x \in U, NEW y \in D
        PROVE  <<x, y>> \in Pairs(edges) <=> y \in edges[x]
    BY PairsOf
  <2>2. Graph(D)!ClosedAvoiding(Pairs(edges), a, U) <=>
          \A x \in U, y \in D : <<x, y>> \in Pairs(edges) /\ y # a => y \in U
    BY DEF Graph!ClosedAvoiding
  <2>3. Closed(edges, a, U) <=> \A x \in U, y \in D : y \in edges[x] /\ y # a => y \in U
    BY DEF Closed
  <2> QED
    BY <2>1, <2>2, <2>3
<1>3. Graph(D)!ReachableAvoiding(Pairs(edges), a) =
        {x \in D : \A U \in SUBSET D : (EntryBlock # a => EntryBlock \in U) /\ Closed(edges, a, U) => x \in U}
  BY <1>2 DEF Graph!ReachableAvoiding
<1>. HIDE DEF S
<1>4. S \in SUBSET D
  BY <1>1
<1>5. ASSUME NEW x \in D
      PROVE  x \in S <=> \A U \in SUBSET D : (EntryBlock # a => EntryBlock \in U) /\ Closed(edges, a, U) => x \in U
  BY <1>1, <1>4
<1>6. S = Graph(D)!ReachableAvoiding(Pairs(edges), a)
  <2>. HIDE DEF D
  <2> QED
    BY <1>3, <1>4, <1>5
<1> QED
  BY <1>6 DEF S

(* What the analyses an record of f -- the blocks control reaches, which  *)
(* of them dominate which, where that dominance stops -- is what the      *)
(* definitions of FlowGraph say of the edges of f.                        *)
TellsDominance(an, f) ==
  LET E  == Pairs(EdgesOf(f))
      bs == BlocksOf(f)
  IN /\ an.reach = Graph(bs)!Reachable(E)
     /\ \A b \in an.reach : an.preds[b] = {q \in an.reach : <<q, b>> \in E}
     /\ \A a, b \in an.reach :
          /\ Dominates(an, a, b) <=> Graph(bs)!Dominates(E, a, b)
          /\ b \in FrontierOf(an, a) <=> b \in Graph(bs)!DominanceFrontier(E, a)

(* Run on any function, they do.                                          *)
LEMMA AnalysesTell ==
  ASSUME NEW f, IsFunction(f)
  PROVE  TellsDominance(Analyses(f), f)
<1> DEFINE an == Analyses(f)
           edges == EdgesOf(f)
           E == Pairs(edges)
           bs == BlocksOf(f)
<1>1. /\ DOMAIN edges = bs /\ EntryBlock \in bs /\ bs = 1 .. Len(f.code) /\ Len(f.code) \in Nat
      /\ \A b \in bs : edges[b] \subseteq bs
  <2>1. edges = [b \in bs |-> Goes(f.code[b])] /\ \A b \in bs : Goes(f.code[b]) \subseteq bs
    BY FunctionFacts
  <2> QED
    BY <2>1, FunctionFacts, EntryIsBlock
<1>2. IsFiniteSet(bs) /\ NoValue \notin bs
  BY <1>1, FS_Interval DEF NoValue
<1>. HIDE DEF edges, bs
<1>3. \A a : ReachedAvoiding(edges, a) = Graph(bs)!ReachableAvoiding(E, a)
  BY <1>1, <1>2, WalkFinds
<1>4. /\ an.reach = ReachedAvoiding(edges, NoValue)
      /\ an.preds = Predecessors(edges, an.reach)
      /\ an.doms = DominatorSets(edges, an.reach)
  BY DEF Analyses, AnalysesOn, ReachedBlocks, edges, NoValue
<1>. HIDE DEF an
<1>5. an.reach \subseteq bs /\ an.reach = Graph(bs)!Reachable(E)
  BY <1>3, <1>4 DEF Graph!Reachable, Graph!ReachableAvoiding
<1>6. ASSUME NEW b \in an.reach PROVE an.preds[b] = {q \in an.reach : <<q, b>> \in E}
  <2>1. an.preds[b] = {q \in an.reach : b \in edges[q]}
    BY <1>1, <1>4, <1>5 DEF Predecessors
  <2>2. ASSUME NEW q \in an.reach PROVE <<q, b>> \in E <=> b \in edges[q]
    BY <1>1, <1>5, PairsOf
  <2>. HIDE DEF E
  <2> QED
    BY <2>1, <2>2
<1>. HIDE DEF E
<1>7. ASSUME NEW b \in an.reach, NEW a \in an.reach
      PROVE  a \in an.doms[b] <=> Graph(bs)!Dominates(E, a, b)
  <2> DEFINE avoid == [c \in an.reach |-> ReachedAvoiding(edges, c)]
  <2>1. an.doms[b] = {c \in an.reach : b \notin avoid[c]}
    BY <1>1, <1>4, <1>5 DEF DominatorSets
  <2>2. avoid[a] = Graph(bs)!ReachableAvoiding(E, a)
    BY <1>3
  <2>. HIDE DEF avoid
  <2> QED
    BY <2>1, <2>2 DEF Graph!Dominates
<1>8. ASSUME NEW b \in an.reach, NEW a \in an.reach
      PROVE  b \in FrontierOf(an, a) <=> b \in Graph(bs)!DominanceFrontier(E, a)
  <2>1. a \in an.doms[b] \ {b} <=> Graph(bs)!StrictlyDominates(E, a, b)
    BY <1>7 DEF Graph!StrictlyDominates
  <2>2. (\E q \in an.preds[b] : a \in an.doms[q]) <=>
          \E p \in Graph(bs)!Reachable(E) : <<p, b>> \in E /\ Graph(bs)!Dominates(E, a, p)
    <3>1. \A q \in an.preds[b] : q \in an.reach /\ <<q, b>> \in E
      BY <1>6
    <3>2. \A q \in an.reach : <<q, b>> \in E => q \in an.preds[b]
      BY <1>6
    <3> QED
      BY <1>5, <1>7, <3>1, <3>2
  <2> QED
    BY <1>5, <2>1, <2>2 DEF FrontierOf, Graph!DominanceFrontier
<1> QED
  BY <1>5, <1>6, <1>7, <1>8 DEF TellsDominance, Dominates, an, E, edges, bs

(* The values a list defines. *)
Defs(c) == {c[k].dst : k \in DOMAIN c} \ {NoValue}

Once(c) == \A j, k \in DOMAIN c : c[j].dst # NoValue /\ c[j].dst = c[k].dst => j = k

Fine(c, n) == IsSeq(c) /\ Once(c) /\ \A k \in DOMAIN c : IsNumbered(c[k], n)

-----------------------------------------------------------------------------
(* Lists *)

(* Values do not stop being values when there are more. *)
LEMMA NumberedMore ==
  ASSUME NEW m \in Nat, NEW n \in Nat, m <= n, NEW i, IsNumbered(i, m)
  PROVE  IsNumbered(i, n)
<1>1. i.dst \in NoValue .. n
  BY DEF IsNumbered, NoValue
<1>2. Range(i.args) \subseteq 1 .. n
  BY DEF IsNumbered
<1> QED
  BY <1>1, <1>2 DEF IsNumbered

(* The same of a list.                                                     *)
LEMMA FineMore ==
  ASSUME NEW m \in Nat, NEW n \in Nat, m <= n, NEW c, Fine(c, m)
  PROVE  Fine(c, n)
BY NumberedMore DEF Fine

(* What is defined are values. *)
LEMMA DefsAreValues ==
  ASSUME NEW n \in Nat, NEW c, Fine(c, n)
  PROVE  Defs(c) \subseteq 1 .. n
BY DEF Defs, Fine, IsNumbered, NoValue

(* A list that holds, once each, elements of another. *)
LEMMA FinePicked ==
  ASSUME NEW n, NEW c, Fine(c, n), NEW t, IsSeq(t), NEW p \in [DOMAIN t -> DOMAIN c],
         \A j, k \in DOMAIN t : p[j] = p[k] => j = k,
         \A k \in DOMAIN t : t[k] = c[p[k]]
  PROVE  /\ Fine(t, n) /\ Defs(t) \subseteq Defs(c)
         /\ \A v \in Defs(t) : \E k \in DOMAIN t : v = c[p[k]].dst
<1>1. Once(t)
  BY DEF Fine, Once
<1>2. Fine(t, n)
  BY <1>1 DEF Fine
<1>3. Defs(t) \subseteq Defs(c)
  BY DEF Defs
<1>4. \A v \in Defs(t) : \E k \in DOMAIN t : v = c[p[k]].dst
  BY DEF Defs
<1> QED
  BY <1>2, <1>3, <1>4

(* The empty list. *)
LEMMA FineNothing == ASSUME NEW n PROVE Fine(<<>>, n) /\ Defs(<<>>) = {}
<1>1. IsSeq(<<>>) /\ DOMAIN <<>> = {}
  BY EmptyList, SeqFacts
<1> QED
  BY <1>1 DEF Fine, Once, Defs

(* One instruction. *)
LEMMA FineOne ==
  ASSUME NEW n, NEW i, IsNumbered(i, n)
  PROVE  Fine(<<i>>, n) /\ Defs(<<i>>) = {i.dst} \ {NoValue}
<1> DEFINE c == <<i>>
<1>1. IsSeq(c) /\ DOMAIN c = {1} /\ c[1] = i
  <2>1. c \in Seq({i})
    OBVIOUS
  <2>2. IsSeq(c)
    BY <2>1, TypedSeq
  <2>3. DOMAIN c = {1}
    OBVIOUS
  <2> QED
    BY <2>2, <2>3
<1>. HIDE DEF c
<1>2. Fine(c, n) /\ Defs(c) = {i.dst} \ {NoValue}
  BY <1>1 DEF Fine, Once, Defs
<1> QED
  BY <1>2 DEF c

(* One list behind another. *)
LEMMA FineJoined ==
  ASSUME NEW n, NEW c, Fine(c, n), NEW d, Fine(d, n), Defs(c) \cap Defs(d) = {}
  PROVE  Fine(c \o d, n) /\ Defs(c \o d) \subseteq Defs(c) \cup Defs(d)
<1> DEFINE e == c \o d
<1>1. /\ IsSeq(c) /\ Len(c) \in Nat /\ DOMAIN c = 1 .. Len(c)
      /\ IsSeq(d) /\ Len(d) \in Nat /\ DOMAIN d = 1 .. Len(d)
  BY SeqFacts DEF Fine
<1>2. /\ IsSeq(e) /\ DOMAIN e = 1 .. Len(c) + Len(d)
      /\ \A k \in 1 .. Len(c) + Len(d) : e[k] = IF k <= Len(c) THEN c[k] ELSE d[k - Len(c)]
  BY <1>1, JoinedSeq
<1>. HIDE DEF e
<1>3. ASSUME NEW k \in DOMAIN e
      PROVE  \/ k <= Len(c) /\ k \in DOMAIN c /\ e[k] = c[k]
             \/ ~ (k <= Len(c)) /\ k - Len(c) \in DOMAIN d /\ e[k] = d[k - Len(c)]
  BY <1>1, <1>2
<1>4. \A k \in DOMAIN e : IsNumbered(e[k], n)
  BY <1>3 DEF Fine
<1>5. \A k \in DOMAIN e : e[k].dst # NoValue =>
        IF k <= Len(c) THEN e[k].dst \in Defs(c) ELSE e[k].dst \in Defs(d)
  BY <1>3 DEF Defs
<1>6. Defs(e) \subseteq Defs(c) \cup Defs(d)
  BY <1>5 DEF Defs
<1>7. ASSUME NEW j \in DOMAIN e, NEW k \in DOMAIN e, e[j].dst # NoValue, e[j].dst = e[k].dst
      PROVE  j = k
  <2>1. (j <= Len(c)) <=> (k <= Len(c))
    BY <1>5, <1>7
  <2>2. CASE j <= Len(c)
    <3>1. j \in DOMAIN c /\ k \in DOMAIN c /\ e[j] = c[j] /\ e[k] = c[k]
      BY <1>3, <2>1, <2>2
    <3> QED
      BY <1>7, <3>1 DEF Fine, Once
  <2>3. CASE ~ (j <= Len(c))
    <3>1. /\ j - Len(c) \in DOMAIN d /\ k - Len(c) \in DOMAIN d
          /\ e[j] = d[j - Len(c)] /\ e[k] = d[k - Len(c)]
      BY <1>3, <2>1, <2>3
    <3>2. j - Len(c) = k - Len(c)
      BY <1>7, <3>1 DEF Fine, Once
    <3> QED
      BY <1>1, <1>2, <3>2
  <2> QED
    BY <2>2, <2>3
<1>8. Once(e)
  BY <1>7 DEF Once
<1> QED
  BY <1>2, <1>4, <1>6, <1>8 DEF Fine, e

(* One more instruction at the end. *)
LEMMA FineAppended ==
  ASSUME NEW n, NEW c, Fine(c, n), NEW i, IsNumbered(i, n), i.dst \notin Defs(c)
  PROVE  Fine(Append(c, i), n) /\ Defs(Append(c, i)) \subseteq Defs(c) \cup ({i.dst} \ {NoValue})
<1> DEFINE e == Append(c, i)
<1>1. IsSeq(c) /\ Len(c) \in Nat /\ DOMAIN c = 1 .. Len(c)
  BY SeqFacts DEF Fine
<1>2. /\ IsSeq(e) /\ DOMAIN e = 1 .. Len(c) + 1
      /\ \A k \in 1 .. Len(c) : e[k] = c[k]
      /\ e[Len(c) + 1] = i
  BY <1>1, Appended
<1>. HIDE DEF e
<1>3. \A k \in DOMAIN e : \/ k \in DOMAIN c /\ e[k] = c[k]
                          \/ k = Len(c) + 1 /\ e[k] = i
  BY <1>1, <1>2
<1>4. \A k \in DOMAIN e : IsNumbered(e[k], n)
  BY <1>3 DEF Fine
<1>5. Once(e)
  BY <1>3 DEF Fine, Once, Defs
<1>6. Defs(e) \subseteq Defs(c) \cup ({i.dst} \ {NoValue})
  BY <1>3 DEF Defs
<1> QED
  BY <1>2, <1>4, <1>5, <1>6 DEF Fine, e

(* A part of a list. *)
LEMMA FinePart ==
  ASSUME NEW n, NEW c, Fine(c, n), NEW l \in Int, NEW m \in Int, 1 <= l, l <= m + 1, m <= Len(c)
  PROVE  /\ Fine(SubSeq(c, l, m), n) /\ Defs(SubSeq(c, l, m)) \subseteq Defs(c)
         /\ \A v \in Defs(SubSeq(c, l, m)) : \E k \in DOMAIN c : k \in l .. m /\ v = c[k].dst
<1> DEFINE t == SubSeq(c, l, m)
           p == [k \in DOMAIN t |-> l + k - 1]
<1>1. IsSeq(c) /\ Len(c) \in Nat /\ DOMAIN c = 1 .. Len(c)
  BY SeqFacts DEF Fine
<1>2. IsSeq(t) /\ DOMAIN t = 1 .. m - l + 1 /\ \A k \in 1 .. m - l + 1 : t[k] = c[l + k - 1]
  BY <1>1, PartOf
<1>. HIDE DEF t
<1>3. \A k \in DOMAIN t : p[k] \in DOMAIN c /\ p[k] \in l .. m /\ t[k] = c[p[k]]
  BY <1>1, <1>2
<1>4. \A j, k \in DOMAIN t : p[j] = p[k] => j = k
  BY <1>2
<1>5. p \in [DOMAIN t -> DOMAIN c] /\ \A k \in DOMAIN t : t[k] = c[p[k]]
  BY <1>3
<1>. HIDE DEF p
<1>6. /\ Fine(t, n) /\ Defs(t) \subseteq Defs(c)
      /\ \A v \in Defs(t) : \E k \in DOMAIN t : v = c[p[k]].dst
  <2>1. IsSeq(t)
    BY <1>2
  <2> QED
    BY <2>1, <1>4, <1>5, FinePicked
<1> QED
  BY <1>3, <1>6 DEF t

(* All but the last. *)
LEMMA FineFront ==
  ASSUME NEW n, NEW c, Fine(c, n), c # <<>>
  PROVE  /\ Fine(Front(c), n) /\ Defs(Front(c)) \subseteq Defs(c)
         /\ Last(c).dst \notin Defs(Front(c))
<1>1. /\ IsSeq(c) /\ Len(c) \in Nat /\ DOMAIN c = 1 .. Len(c) /\ Len(c) >= 1
      /\ Last(c) = c[Len(c)]
  BY SeqFacts DEF Fine
<1> DEFINE m == Len(c) - 1
<1>2. m \in Int /\ 1 <= m + 1 /\ m <= Len(c) /\ Front(c) = SubSeq(c, 1, m)
  BY <1>1 DEF Front
<1>3. Len(c) \notin 1 .. m
  BY <1>1
<1>. HIDE DEF m
<1>4. /\ Fine(SubSeq(c, 1, m), n) /\ Defs(SubSeq(c, 1, m)) \subseteq Defs(c)
      /\ \A v \in Defs(SubSeq(c, 1, m)) : \E k \in DOMAIN c : k \in 1 .. m /\ v = c[k].dst
  BY <1>2, FinePart, SMT
<1>5. Last(c).dst \notin Defs(Front(c))
  BY <1>1, <1>2, <1>3, <1>4 DEF Fine, Once, Defs
<1> QED
  BY <1>2, <1>4, <1>5

(* One instruction less. *)
LEMMA FineRemoved ==
  ASSUME NEW n, NEW c, Fine(c, n), NEW i \in DOMAIN c
  PROVE  /\ Fine(RemoveAt(c, i), n) /\ Defs(RemoveAt(c, i)) \subseteq Defs(c) \ {c[i].dst}
<1> DEFINE t == RemoveAt(c, i)
           p == [k \in DOMAIN t |-> IF k < i THEN k ELSE k + 1]
<1>1. IsSeq(c) /\ Len(c) \in Nat /\ DOMAIN c = 1 .. Len(c) /\ i \in 1 .. Len(c)
  BY SeqFacts DEF Fine
<1>2. /\ IsSeq(t) /\ DOMAIN t = 1 .. Len(c) - 1
      /\ \A k \in 1 .. i - 1 : t[k] = c[k]
      /\ \A k \in i .. Len(c) - 1 : t[k] = c[k + 1]
  BY <1>1, Removed
<1>. HIDE DEF t
<1>3. \A k \in DOMAIN t : p[k] \in DOMAIN c /\ p[k] # i /\ t[k] = c[p[k]]
  BY <1>1, <1>2
<1>4. \A j, k \in DOMAIN t : p[j] = p[k] => j = k
  BY <1>1, <1>2
<1>5. p \in [DOMAIN t -> DOMAIN c] /\ \A k \in DOMAIN t : t[k] = c[p[k]]
  BY <1>3
<1>. HIDE DEF p
<1>6. /\ Fine(t, n) /\ Defs(t) \subseteq Defs(c)
      /\ \A v \in Defs(t) : \E k \in DOMAIN t : v = c[p[k]].dst
  <2>1. IsSeq(t)
    BY <1>2
  <2> QED
    BY <2>1, <1>4, <1>5, FinePicked
<1>7. c[i].dst \notin Defs(t)
  <2> SUFFICES ASSUME c[i].dst \in Defs(t) PROVE FALSE
    OBVIOUS
  <2>1. PICK k \in DOMAIN t : c[i].dst = c[p[k]].dst
    BY <1>6
  <2>2. c[i].dst # NoValue
    BY DEF Defs
  <2> QED
    BY <1>3, <2>1, <2>2 DEF Fine, Once
<1> QED
  BY <1>6, <1>7 DEF t

(* One instruction more. *)
LEMMA FineInserted ==
  ASSUME NEW n, NEW c, Fine(c, n), NEW i \in DOMAIN c, NEW x, IsNumbered(x, n), x.dst \notin Defs(c)
  PROVE  /\ Fine(InsertAt(c, i, x), n)
         /\ Defs(InsertAt(c, i, x)) \subseteq Defs(c) \cup ({x.dst} \ {NoValue})
<1> DEFINE t == InsertAt(c, i, x)
           p == [k \in DOMAIN t |-> IF k < i THEN k ELSE k - 1]
<1>1. IsSeq(c) /\ Len(c) \in Nat /\ DOMAIN c = 1 .. Len(c) /\ i \in 1 .. Len(c) + 1
  BY SeqFacts DEF Fine
<1>2. /\ IsSeq(t) /\ DOMAIN t = 1 .. Len(c) + 1
      /\ \A k \in 1 .. i - 1 : t[k] = c[k]
      /\ t[i] = x
      /\ \A k \in i + 1 .. Len(c) + 1 : t[k] = c[k - 1]
  BY <1>1, Inserted
<1>. HIDE DEF t
<1>3. \A k \in DOMAIN t : \/ k = i /\ t[k] = x
                          \/ k # i /\ p[k] \in DOMAIN c /\ t[k] = c[p[k]]
  BY <1>1, <1>2
<1>4. \A j, k \in DOMAIN t : j # i /\ k # i /\ p[j] = p[k] => j = k
  BY <1>1, <1>2
<1>. HIDE DEF p
<1>5. \A k \in DOMAIN t : IsNumbered(t[k], n)
  BY <1>3 DEF Fine
<1>6. \A k \in DOMAIN t : k # i /\ t[k].dst # NoValue => t[k].dst \in Defs(c)
  BY <1>3 DEF Defs
<1>7. Once(t)
  BY <1>3, <1>4, <1>6 DEF Fine, Once
<1>8. Defs(t) \subseteq Defs(c) \cup ({x.dst} \ {NoValue})
  BY <1>3, <1>6 DEF Defs
<1> QED
  BY <1>2, <1>5, <1>7, <1>8 DEF Fine, t

(* The same list of results, otherwise rewritten. *)
LEMMA FineEdited ==
  ASSUME NEW n, NEW m, NEW c, Fine(c, m), NEW d, d = [k \in DOMAIN c |-> d[k]],
         \A k \in DOMAIN c : IsNumbered(d[k], n) /\ d[k].dst = c[k].dst
  PROVE  Fine(d, n) /\ Defs(d) = Defs(c)
<1>1. DOMAIN d = DOMAIN c /\ IsSeq(d)
  BY SeqFacts, ListIs DEF Fine
<1>2. Once(d)
  BY <1>1 DEF Fine, Once
<1>3. Defs(d) = Defs(c)
  BY <1>1 DEF Defs
<1> QED
  BY <1>1, <1>2, <1>3 DEF Fine

(* The instructions at some positions. *)
LEMMA FineKept ==
  ASSUME NEW n, NEW c, Fine(c, n), NEW K
  PROVE  /\ Fine(KeptAt(c, K), n) /\ Defs(KeptAt(c, K)) \subseteq Defs(c)
         /\ \A v \in Defs(KeptAt(c, K)) : \E k \in DOMAIN c : k \in K /\ v = c[k].dst
<1> DEFINE t == KeptAt(c, K)
<1>1. IsSeq(t) /\ IsSeq(c)
  BY KeptPicked DEF Fine
<1>2. PICK p \in [DOMAIN t -> DOMAIN c \cap K] :
        /\ \A j, k \in DOMAIN t : p[j] = p[k] => j = k
        /\ \A k \in DOMAIN t : t[k] = c[p[k]]
  BY <1>1, KeptPicked
<1>. HIDE DEF t
<1>3. p \in [DOMAIN t -> DOMAIN c] /\ \A k \in DOMAIN t : p[k] \in DOMAIN c /\ p[k] \in K
  BY <1>2
<1>4. /\ Fine(t, n) /\ Defs(t) \subseteq Defs(c)
      /\ \A v \in Defs(t) : \E k \in DOMAIN t : v = c[p[k]].dst
  BY <1>1, <1>2, <1>3, FinePicked
<1> QED
  BY <1>3, <1>4 DEF t

(* The same instructions backwards. *)
LEMMA FineReversed ==
  ASSUME NEW n, NEW c, Fine(c, n)
  PROVE  Fine(Reverse(c), n) /\ Defs(Reverse(c)) \subseteq Defs(c)
<1> DEFINE t == Reverse(c)
           p == [k \in DOMAIN t |-> Len(c) - k + 1]
<1>1. IsSeq(c) /\ Len(c) \in Nat /\ DOMAIN c = 1 .. Len(c)
  BY SeqFacts DEF Fine
<1>2. t = [k \in 1 .. Len(c) |-> c[(Len(c) - k) + 1]]
  BY DEF Reverse
<1>3. \A k \in 1 .. Len(c) : t[k] = c[p[k]] /\ p[k] \in DOMAIN c /\ p[k] = Len(c) - k + 1
  BY <1>1, <1>2
<1>4. t = [k \in 1 .. Len(c) |-> t[k]]
  BY <1>2
<1>. HIDE DEF t
<1>5. IsSeq(t) /\ DOMAIN t = 1 .. Len(c)
  BY <1>1, <1>4, ListIs
<1>6. p \in [DOMAIN t -> DOMAIN c] /\ \A k \in DOMAIN t : t[k] = c[p[k]]
  BY <1>3, <1>5
<1>7. \A j, k \in DOMAIN t : p[j] = p[k] => j = k
  BY <1>1, <1>3, <1>5
<1>. HIDE DEF p
<1>8. Fine(t, n) /\ Defs(t) \subseteq Defs(c)
  <2>1. IsSeq(t)
    BY <1>5
  <2> QED
    BY <2>1, <1>6, <1>7, FinePicked
<1> QED
  BY <1>8 DEF t

(* Lists that define different values, one behind the other. *)
LEMMA FineFlattened ==
  ASSUME NEW n, NEW s, IsSeq(s), \A j \in DOMAIN s : Fine(s[j], n),
         \A j, k \in DOMAIN s : j # k => Defs(s[j]) \cap Defs(s[k]) = {}
  PROVE  /\ Fine(FlattenSeq(s), n)
         /\ \A v \in Defs(FlattenSeq(s)) : \E j \in DOMAIN s : v \in Defs(s[j])
<1>1. CASE s = <<>>
  <2>1. FlattenSeq(s) = <<>>
    BY <1>1, EmptyList DEF FlattenSeq
  <2> QED
    BY <2>1, FineNothing
<1>2. CASE s # <<>>
  <2> DEFINE E == UNION {Range(s[j]) : j \in DOMAIN s}
             Upto(m, v) == \E j \in 1 .. m : v \in Defs(s[j])
             G == {x \in Nat \X Seq(E) : Fine(x[2], n) /\ \A v \in Defs(x[2]) : Upto(x[1], v)}
  <2>1. Len(s) \in Nat /\ DOMAIN s = 1 .. Len(s) /\ Len(s) >= 1
    BY <1>2, SeqFacts
  <2>2. \A j \in DOMAIN s : s[j] \in Seq(E)
    BY SeqMonotonic DEF Fine, IsSeq
  <2>. HIDE DEF E
  <2>3. <<1, s[1]>> \in G
    <3>1. 1 \in DOMAIN s
      BY <2>1
    <3> QED
      BY <2>2, <3>1
  <2>4. ASSUME NEW m \in 1 .. Len(s) - 1, NEW c, <<m, c>> \in G
        PROVE  <<m + 1, c \o s[m + 1]>> \in G
    <3> DEFINE d == s[m + 1]
    <3>1. /\ m + 1 \in DOMAIN s /\ m + 1 \in 1 .. m + 1 /\ m \in Nat /\ m + 1 \in Nat
          /\ \A j \in 1 .. m : j \in DOMAIN s /\ j # m + 1 /\ j \in 1 .. m + 1
      BY <2>1
    <3>2. c \in Seq(E) /\ Fine(c, n) /\ \A v \in Defs(c) : Upto(m, v)
      BY <2>4
    <3>3. d \in Seq(E) /\ Fine(d, n)
      BY <2>2, <3>1
    <3>4. Defs(c) \cap Defs(d) = {}
      BY <3>1, <3>2
    <3>. HIDE DEF d
    <3>5. Fine(c \o d, n) /\ Defs(c \o d) \subseteq Defs(c) \cup Defs(d)
      BY <3>2, <3>3, <3>4, FineJoined
    <3>6. c \o d \in Seq(E)
      BY <3>2, <3>3, ConcatProperties
    <3>7. \A v \in Defs(c \o d) : Upto(m + 1, v)
      BY <3>1, <3>2, <3>5 DEF d
    <3> QED
      BY <3>1, <3>5, <3>6, <3>7 DEF d
  <2>5. <<Len(s), FlattenSeq(s)>> \in G
    <3>. HIDE DEF G
    <3> QED
      BY <1>2, <2>2, <2>3, <2>4, FlattenInduct
  <2> QED
    BY <2>1, <2>5
<1> QED
  BY <1>1, <1>2

-----------------------------------------------------------------------------
(* Functions *)

(* What Numbered says of a function, block by block. *)
LEMMA NumberedFacts ==
  ASSUME NEW f, IsFunction(f), Numbered(f)
  PROVE  /\ f.values \in Nat
         /\ \A b \in DOMAIN f.code : Fine(f.code[b], f.values) /\ Defs(f.code[b]) \subseteq 1 .. f.values
         /\ \A b, c \in DOMAIN f.code : b # c => Defs(f.code[b]) \cap Defs(f.code[c]) = {}
<1>1. f.values \in Nat
  BY DEF Numbered
<1>2. \A b \in DOMAIN f.code : \A k \in DOMAIN f.code[b] :
        <<b, k>> \in Sites(f) /\ InstrAt(f, <<b, k>>) = f.code[b][k]
  BY DEF Sites, InstrAt, BlocksOf
<1>3. ASSUME NEW b \in DOMAIN f.code, NEW c \in DOMAIN f.code,
             NEW j \in DOMAIN f.code[b], NEW k \in DOMAIN f.code[c],
             f.code[b][j].dst # NoValue, f.code[b][j].dst = f.code[c][k].dst
      PROVE  b = c /\ j = k
  <2>1. <<b, j>> = <<c, k>>
    BY <1>2, <1>3 DEF Numbered, SingleAssignment
  <2> QED
    BY <2>1
<1>4. ASSUME NEW b \in DOMAIN f.code PROVE Fine(f.code[b], f.values)
  <2>1. IsSeq(f.code[b])
    BY FunctionFacts, BlockFacts DEF BlocksOf
  <2>2. \A k \in DOMAIN f.code[b] : IsNumbered(f.code[b][k], f.values)
    BY <1>2 DEF Numbered
  <2>3. Once(f.code[b])
    BY <1>3 DEF Once
  <2> QED
    BY <2>1, <2>2, <2>3 DEF Fine
<1>5. \A b, c \in DOMAIN f.code : b # c => Defs(f.code[b]) \cap Defs(f.code[c]) = {}
  BY <1>3 DEF Defs
<1> QED
  BY <1>1, <1>4, <1>5, DefsAreValues

(* It is enough to say so of each block: own lists disjoint sets, for each *)
(* block one that holds what it defines.                                   *)
LEMMA NumberedOf ==
  ASSUME NEW g, g.values \in Nat, NEW own,
         \A b \in DOMAIN g.code : Fine(g.code[b], g.values) /\ Defs(g.code[b]) \subseteq own[b],
         \A b, c \in DOMAIN g.code : b # c => own[b] \cap own[c] = {}
  PROVE  Numbered(g)
<1>1. ASSUME NEW s \in Sites(g)
      PROVE  /\ s[1] \in DOMAIN g.code /\ s[2] \in DOMAIN g.code[s[1]] /\ s = <<s[1], s[2]>>
             /\ InstrAt(g, s) = g.code[s[1]][s[2]]
  BY DEF Sites, InstrAt, BlocksOf
<1>2. \A s \in Sites(g) : IsNumbered(InstrAt(g, s), g.values)
  BY <1>1 DEF Fine
<1>3. ASSUME NEW s \in Sites(g), NEW t \in Sites(g), InstrAt(g, s).dst # NoValue,
             InstrAt(g, s).dst = InstrAt(g, t).dst
      PROVE  s = t
  <2>1. s[1] = t[1]
    <3>1. InstrAt(g, s).dst \in Defs(g.code[s[1]]) /\ InstrAt(g, s).dst \in Defs(g.code[t[1]])
      BY <1>1, <1>3 DEF Defs
    <3> QED
      BY <1>1, <3>1
  <2>2. s[2] = t[2]
    BY <1>1, <1>3, <2>1 DEF Fine, Once
  <2> QED
    BY <1>1, <2>1, <2>2
<1> QED
  BY <1>2, <1>3 DEF Numbered, SingleAssignment

(* Blocks that define no more than they did. *)
LEMMA NumberedWithin ==
  ASSUME NEW f, IsFunction(f), Numbered(f), NEW g, g.values \in Nat,
         \A b \in DOMAIN g.code : /\ b \in DOMAIN f.code
                                  /\ Fine(g.code[b], g.values)
                                  /\ Defs(g.code[b]) \subseteq Defs(f.code[b])
  PROVE  Numbered(g)
<1> DEFINE own == [b \in DOMAIN f.code |-> Defs(f.code[b])]
<1>1. \A b, c \in DOMAIN g.code : b # c => own[b] \cap own[c] = {}
  BY NumberedFacts
<1>2. \A b \in DOMAIN g.code : Fine(g.code[b], g.values) /\ Defs(g.code[b]) \subseteq own[b]
  OBVIOUS
<1>. HIDE DEF own
<1> QED
  BY <1>1, <1>2, NumberedOf

(* The same, but for new values one of the blocks defines. *)
LEMMA NumberedFresh ==
  ASSUME NEW f, IsFunction(f), Numbered(f), NEW g, g.values \in Nat, NEW e,
         \A b \in DOMAIN g.code :
           /\ b \in DOMAIN f.code
           /\ Fine(g.code[b], g.values)
           /\ Defs(g.code[b]) \subseteq
                Defs(f.code[b]) \cup (IF b = e THEN f.values + 1 .. g.values ELSE {})
  PROVE  Numbered(g)
<1> DEFINE own == [b \in DOMAIN f.code |->
                     Defs(f.code[b]) \cup (IF b = e THEN f.values + 1 .. g.values ELSE {})]
<1>1. /\ f.values \in Nat
      /\ \A b \in DOMAIN f.code : Defs(f.code[b]) \subseteq 1 .. f.values
      /\ \A b, c \in DOMAIN f.code : b # c => Defs(f.code[b]) \cap Defs(f.code[c]) = {}
  BY NumberedFacts
<1>2. \A b, c \in DOMAIN g.code : b # c => own[b] \cap own[c] = {}
  <2> SUFFICES ASSUME NEW b \in DOMAIN g.code, NEW c \in DOMAIN g.code, b # c,
                      NEW v \in own[b], v \in own[c]
               PROVE  FALSE
    OBVIOUS
  <2>1. v \in Defs(f.code[b]) \/ (b = e /\ v \in f.values + 1 .. g.values)
    OBVIOUS
  <2>2. v \in Defs(f.code[c]) \/ (c = e /\ v \in f.values + 1 .. g.values)
    OBVIOUS
  <2>3. b \in DOMAIN f.code /\ c \in DOMAIN f.code
    OBVIOUS
  <2>. HIDE DEF own
  <2>4. ~ (v \in 1 .. f.values /\ v \in f.values + 1 .. g.values)
    BY <1>1
  <2> QED
    BY <1>1, <2>1, <2>2, <2>3, <2>4
<1>3. \A b \in DOMAIN g.code : Fine(g.code[b], g.values) /\ Defs(g.code[b]) \subseteq own[b]
  OBVIOUS
<1>. HIDE DEF own
<1> QED
  BY <1>2, <1>3, NumberedOf

(* Instructions rewritten where they are, with the results they had. *)
LEMMA RewrittenFine ==
  ASSUME NEW f, IsFunction(f), Numbered(f), NEW n, NEW g, SameSlots(g, f),
         \A b \in DOMAIN f.code : \A k \in DOMAIN f.code[b] :
           IsNumbered(g.code[b][k], n) /\ g.code[b][k].dst = f.code[b][k].dst
  PROVE  /\ DOMAIN g.code = DOMAIN f.code
         /\ \A b \in DOMAIN f.code : Fine(g.code[b], n) /\ Defs(g.code[b]) = Defs(f.code[b])
<1>1. DOMAIN g.code = DOMAIN f.code
  BY DEF SameSlots
<1>2. ASSUME NEW b \in DOMAIN f.code PROVE Fine(g.code[b], n) /\ Defs(g.code[b]) = Defs(f.code[b])
  <2> DEFINE c == f.code[b]
             d == g.code[b]
  <2>1. Fine(c, f.values)
    BY NumberedFacts
  <2>2. d = [k \in DOMAIN c |-> d[k]]
    BY DEF SameSlots
  <2>3. \A k \in DOMAIN c : IsNumbered(d[k], n) /\ d[k].dst = c[k].dst
    OBVIOUS
  <2>. HIDE DEF c, d
  <2>4. Fine(d, n) /\ Defs(d) = Defs(c)
    BY <2>1, <2>2, <2>3, FineEdited
  <2> QED
    BY <2>4 DEF c, d
<1> QED
  BY <1>1, <1>2

(* A function whose instructions were each rewritten where they are.       *)
LEMMA RewrittenNumbered ==
  ASSUME NEW f, IsFunction(f), Numbered(f), NEW g, g.values \in Nat, SameSlots(g, f),
         \A b \in DOMAIN f.code : \A k \in DOMAIN f.code[b] :
           IsNumbered(g.code[b][k], g.values) /\ g.code[b][k].dst = f.code[b][k].dst
  PROVE  Numbered(g)
<1>1. /\ DOMAIN g.code = DOMAIN f.code
      /\ \A b \in DOMAIN f.code : Fine(g.code[b], g.values) /\ Defs(g.code[b]) = Defs(f.code[b])
  BY RewrittenFine
<1> QED
  BY <1>1, NumberedWithin

(* An instruction of a sound function. *)
LEMMA InstrIsNumbered ==
  ASSUME NEW f, IsFunction(f), Numbered(f)
  PROVE  /\ \A b \in DOMAIN f.code : \A k \in DOMAIN f.code[b] :
              IsInstr(f.code[b][k]) /\ IsNumbered(f.code[b][k], f.values)
         /\ \A s \in Sites(f) : IsInstr(InstrAt(f, s)) /\ IsNumbered(InstrAt(f, s), f.values)
<1>1. \A b \in DOMAIN f.code : \A k \in DOMAIN f.code[b] : IsNumbered(f.code[b][k], f.values)
  BY NumberedFacts DEF Fine
<1>2. \A b \in DOMAIN f.code : \A k \in DOMAIN f.code[b] : IsInstr(f.code[b][k])
  BY FunctionFacts, BlockFacts DEF BlocksOf
<1> QED
  BY <1>1, <1>2, SiteFacts

(* x is i, but for the values it reads. *)
Rereads(x, i, n) ==
  \E args : /\ x = [i EXCEPT !.args = args]
            /\ args = [a \in DOMAIN i.args |-> args[a]]
            /\ \A a \in DOMAIN i.args : args[a] \in 1 .. n

(* An instruction that reads other values defines what it defined.         *)
LEMMA Reread ==
  ASSUME NEW m, NEW n, NEW i, IsInstr(i), IsNumbered(i, m), i.dst \in NoValue .. n,
         NEW x, Rereads(x, i, n)
  PROVE  IsNumbered(x, n) /\ x.dst = i.dst
<1> PICK args : /\ x = [i EXCEPT !.args = args]
                /\ args = [a \in DOMAIN i.args |-> args[a]]
                /\ \A a \in DOMAIN i.args : args[a] \in 1 .. n
  BY DEF Rereads
<1>1. x.op = i.op /\ x.dst = i.dst /\ x.args = args /\ x.from = i.from
  BY DEF IsInstr, InstrFields
<1>2. IsSeq(i.args) /\ Len(i.args) \in Nat /\ DOMAIN i.args = 1 .. Len(i.args)
  BY SeqFacts DEF IsNumbered
<1>3. IsSeq(args) /\ Len(args) = Len(i.args)
  BY <1>2, ListIs
<1>4. Range(args) \subseteq 1 .. n
  BY DEF Range
<1>5. RequiredArgs(x)
  BY <1>1, <1>3 DEF RequiredArgs, IsNumbered
<1>6. x.op = "phi" => IsSeq(x.from) /\ Len(x.from) = Len(x.args)
  BY <1>1, <1>3 DEF IsNumbered
<1> QED
  BY <1>1, <1>3, <1>4, <1>5, <1>6 DEF IsNumbered

(* Operands rewritten to other values, and nothing else. *)
LEMMA OperandsEdited ==
  ASSUME NEW f, IsFunction(f), Numbered(f), NEW g, g.values \in Nat, f.values <= g.values,
         SameSlots(g, f),
         \A b \in DOMAIN f.code : \A k \in DOMAIN f.code[b] :
           Rereads(g.code[b][k], f.code[b][k], g.values)
  PROVE  /\ Numbered(g)
         /\ \A b \in DOMAIN f.code : \A k \in DOMAIN f.code[b] :
              g.code[b][k].dst = f.code[b][k].dst
<1>1. ASSUME NEW b \in DOMAIN f.code, NEW k \in DOMAIN f.code[b]
      PROVE  IsNumbered(g.code[b][k], g.values) /\ g.code[b][k].dst = f.code[b][k].dst
  <2> DEFINE i == f.code[b][k]
             x == g.code[b][k]
             n == g.values
             m == f.values
  <2>1. IsInstr(i) /\ IsNumbered(i, m) /\ m \in Nat
    BY InstrIsNumbered, NumberedFacts
  <2>2. i.dst \in NoValue .. n
    BY <2>1 DEF IsNumbered, NoValue
  <2>3. Rereads(x, i, n)
    OBVIOUS
  <2>. HIDE DEF i, x, m, n
  <2>4. IsNumbered(x, n) /\ x.dst = i.dst
    BY <2>1, <2>2, <2>3, Reread
  <2> QED
    BY <2>4 DEF i, x, n
<1> QED
  BY <1>1, RewrittenNumbered
=============================================================================
