----------------------------- MODULE DataProofs -----------------------------
(***************************************************************************)
(* What the codec gives back and how inputs are merged, for strings,       *)
(* messages, inputs and members of any number.                             *)
(*                                                                         *)
(* Induction over data is done by hand: Induction and BySize are about a   *)
(* set S of the values for which something is shown, and Recursion gives   *)
(* the function that a recursive definition names, from which each of them *)
(* has a ...Step lemma, its type and its equation.  Numbers as large as    *)
(* MaxSize and Limit stay unexpanded outside the few lemmas on them.       *)
(***************************************************************************)
EXTENDS Data, SequenceTheorems, FiniteSetTheorems, NaturalsInduction, WellFoundedInduction, TLAPS

-----------------------------------------------------------------------------
(* Induction and recursion. *)

LEMMA Induction ==
  ASSUME NEW S, 0 \in S, \A n \in Nat : n \in S => n + 1 \in S
  PROVE  \A n \in Nat : n \in S
<1> DEFINE T == Nat \ S
<1>1. SUFFICES ASSUME T # {} PROVE FALSE
  OBVIOUS
<1>2. PICK x \in T : \A y \in T : <<y, x>> \notin OpToRel(<, Nat)
  <2>1. T \subseteq Nat
    OBVIOUS
  <2> HIDE DEF T
  <2> QED
    BY <1>1, <2>1, NatLessThanWellFounded, WFMin
<1>3. x \in Nat /\ x # 0
  OBVIOUS
<1>4. x - 1 \in T /\ x - 1 < x
  BY <1>3
<1>5. <<x - 1, x>> \in OpToRel(<, Nat)
  BY <1>3, <1>4 DEF OpToRel
<1> QED
  BY <1>2, <1>4, <1>5

\* What holds of a member of D whenever it holds of all smaller ones holds of all.
LEMMA BySize ==
  ASSUME NEW D, NEW size \in [D -> Nat], NEW S,
         \A s \in D : (\A t \in D : size[t] < size[s] => t \in S) => s \in S
  PROVE  \A s \in D : s \in S
<1> DEFINE N == {n \in Nat : \A s \in D : size[s] < n => s \in S}
<1>1. 0 \in N
  OBVIOUS
<1>2. ASSUME NEW n \in Nat, n \in N PROVE n + 1 \in N
  <2> SUFFICES ASSUME NEW s \in D, size[s] < n + 1 PROVE s \in S
    OBVIOUS
  <2>1. \A t \in D : size[t] < size[s] => t \in S
    <3> SUFFICES ASSUME NEW t \in D, size[t] < size[s] PROVE t \in S
      OBVIOUS
    <3>1. size[t] < n
      OBVIOUS
    <3> QED
      BY <1>2, <3>1
  <2> QED
    BY <2>1
<1> HIDE DEF N
<1>3. \A n \in Nat : n \in N
  BY <1>1, <1>2, Induction
<1> SUFFICES ASSUME NEW s \in D PROVE s \in S
  OBVIOUS
<1>4. size[s] + 1 \in Nat /\ size[s] < size[s] + 1
  OBVIOUS
<1> QED
  BY <1>3, <1>4 DEF N

\* What gives a value at each s from the values of a function at smaller ones.
Local(D, T, size) ==
    {H \in [D -> [[D -> T] -> T]] :
        \A s \in D : \A f, g \in [D -> T] :
            (\A t \in D : size[t] < size[s] => f[t] = g[t]) => H[s][f] = H[s][g]}

LEMMA Recursion ==
  ASSUME NEW D, NEW T, T # {}, NEW size \in [D -> Nat], NEW H \in Local(D, T, size)
  PROVE  \E F \in [D -> T] : \A s \in D : F[s] = H[s][F]
<1> PICK base \in T : TRUE
  OBVIOUS
<1>0. /\ H \in [D -> [[D -> T] -> T]]
      /\ \A s \in D : \A f, g \in [D -> T] :
            (\A t \in D : size[t] < size[s] => f[t] = g[t]) => H[s][f] = H[s][g]
  BY DEF Local
<1> USE <1>0
<1> DEFINE A(n) == {f \in [D -> T] : \A s \in D : size[s] < n => f[s] = H[s][f]}
           N == {n \in Nat : A(n) # {}}
<1>1. 0 \in N
  <2>1. [s \in D |-> base] \in A(0)
    OBVIOUS
  <2> QED
    BY <2>1
<1>2. ASSUME NEW n \in Nat, n \in N PROVE n + 1 \in N
  <2>1. PICK f \in [D -> T] : \A s \in D : size[s] < n => f[s] = H[s][f]
    BY <1>2
  <2> DEFINE g == [s \in D |-> H[s][f]]
  <2>2. g \in [D -> T] /\ \A s \in D : g[s] = H[s][f]
    OBVIOUS
  <2> HIDE DEF g
  <2>3. ASSUME NEW s \in D, size[s] < n + 1 PROVE g[s] = H[s][g]
    <3>1. \A t \in D : size[t] < size[s] => f[t] = g[t]
      <4> SUFFICES ASSUME NEW t \in D, size[t] < size[s] PROVE f[t] = g[t]
        OBVIOUS
      <4>1. size[t] < n
        BY <2>3
      <4> QED
        BY <2>1, <2>2, <4>1
    <3>2. H[s][f] = H[s][g]
      BY <2>1, <2>2, <3>1
    <3> QED
      BY <2>2, <3>2
  <2>4. g \in A(n + 1)
    BY <2>2, <2>3
  <2> QED
    BY <2>4
<1>3. \A n \in Nat : n \in N
  <2> HIDE DEF N
  <2> QED
    BY <1>1, <1>2, Induction
<1>4. ASSUME NEW n \in Nat, NEW m \in Nat, NEW f \in A(n), NEW g \in A(m)
      PROVE  \A s \in D : size[s] < n /\ size[s] < m => f[s] = g[s]
  <2> DEFINE S == {s \in D : size[s] < n /\ size[s] < m => f[s] = g[s]}
  <2>1. ASSUME NEW s \in D, \A t \in D : size[t] < size[s] => t \in S PROVE s \in S
    <3> SUFFICES ASSUME size[s] < n, size[s] < m PROVE f[s] = g[s]
      OBVIOUS
    <3>1. \A t \in D : size[t] < size[s] => f[t] = g[t]
      <4> SUFFICES ASSUME NEW t \in D, size[t] < size[s] PROVE f[t] = g[t]
        OBVIOUS
      <4>1. size[t] < n /\ size[t] < m /\ t \in S
        BY <2>1
      <4> QED
        BY <4>1
    <3>2. H[s][f] = H[s][g]
      BY <3>1
    <3> QED
      BY <3>2
  <2> HIDE DEF S
  <2>2. \A s \in D : s \in S
    BY <2>1, BySize
  <2> QED
    BY <2>2 DEF S
<1> DEFINE Best(n) == CHOOSE f : f \in A(n)
           F == [s \in D |-> Best(size[s] + 1)[s]]
<1>5. \A s \in D : Best(size[s] + 1) \in A(size[s] + 1)
  <2>1. \A n \in Nat : Best(n) \in A(n)
    BY <1>3
  <2>2. \A s \in D : size[s] + 1 \in Nat
    OBVIOUS
  <2> HIDE DEF Best, A
  <2> QED
    BY <2>1, <2>2
<1>6. F \in [D -> T]
  <2> HIDE DEF Best
  <2> QED
    BY <1>5
<1>7. ASSUME NEW s \in D PROVE F[s] = H[s][F]
  <2> DEFINE f == Best(size[s] + 1)
  <2> HIDE DEF Best
  <2>1. f \in A(size[s] + 1)
    BY <1>5
  <2>2. \A t \in D : F[t] = Best(size[t] + 1)[t]
    OBVIOUS
  <2> HIDE DEF F
  <2>4. ASSUME NEW t \in D, size[t] < size[s] PROVE f[t] = F[t]
    <3>1. size[t] < size[s] + 1 /\ size[t] < size[t] + 1
      BY <2>4
    <3>2. size[s] + 1 \in Nat /\ size[t] + 1 \in Nat /\ Best(size[t] + 1) \in A(size[t] + 1)
      BY <1>5
    <3>3. f[t] = Best(size[t] + 1)[t]
      <4> HIDE DEF A, f
      <4> QED
        BY <1>4, <2>1, <3>1, <3>2
    <3> QED
      BY <2>2, <3>3
  <2>5. H[s][f] = H[s][F]
    BY <1>6, <2>1, <2>4
  <2>6. f[s] = H[s][f]
    BY <2>1
  <2> QED
    BY <2>2, <2>5, <2>6
<1> QED
  BY <1>6, <1>7

-----------------------------------------------------------------------------
(* Sequences. *)

LEMMA FromParts ==
  ASSUME NEW S, NEW s \in Seq(S), NEW i \in 1..Len(s) + 1
  PROVE  /\ From(s, i) \in Seq(S) /\ Len(From(s, i)) = Len(s) - i + 1
         /\ \A k \in 1..Len(s) - i + 1 : From(s, i)[k] = s[i + k - 1]
         /\ i > Len(s) => From(s, i) = <<>>
         /\ i = 1 => From(s, i) = s
<1>1. Len(s) \in Nat
  BY LenProperties
<1>2. i \in Int /\ Len(s) \in Int /\ \A k \in i..Len(s) : s[k] \in S
  BY <1>1, ElementOfSeq
<1>3. /\ From(s, i) \in Seq(S) /\ Len(From(s, i)) = IF i <= Len(s) THEN Len(s) - i + 1 ELSE 0
      /\ \A k \in 1..Len(s) - i + 1 : From(s, i)[k] = s[i + k - 1]
  BY <1>2, SubSeqProperties DEF From
<1>4. Len(From(s, i)) = Len(s) - i + 1
  BY <1>1, <1>3
<1>5. i > Len(s) => From(s, i) = <<>>
  BY <1>1, <1>3, EmptySeq
<1>6. i = 1 => From(s, i) = s
  BY <1>1, SubSeqFull DEF From
<1> QED
  BY <1>3, <1>4, <1>5, <1>6

LEMMA FrontParts ==
  ASSUME NEW S, NEW s \in Seq(S), NEW n \in 0..Len(s)
  PROVE  /\ SubSeq(s, 1, n) \in Seq(S) /\ Len(SubSeq(s, 1, n)) = n
         /\ \A k \in 1..n : SubSeq(s, 1, n)[k] = s[k]
         /\ s = SubSeq(s, 1, n) \o From(s, n + 1)
<1>1. Len(s) \in Nat
  BY LenProperties
<1>2. n \in Int /\ 1 \in Int /\ \A k \in 1..n : s[k] \in S
  BY <1>1, ElementOfSeq
<1>3. /\ SubSeq(s, 1, n) \in Seq(S) /\ Len(SubSeq(s, 1, n)) = IF 1 <= n THEN n - 1 + 1 ELSE 0
      /\ \A k \in 1..n - 1 + 1 : SubSeq(s, 1, n)[k] = s[1 + k - 1]
  BY <1>2, SubSeqProperties
<1>4. Len(SubSeq(s, 1, n)) = n /\ \A k \in 1..n : SubSeq(s, 1, n)[k] = s[k]
  BY <1>1, <1>3
<1>5. s = SubSeq(s, 1, n) \o From(s, n + 1)
  <2>1. SubSeq(s, 1, n) \o SubSeq(s, n + 1, Len(s)) = SubSeq(s, 1, Len(s))
    <3>1. 1 \in 1..Len(s) + 1 /\ n \in 1 - 1..Len(s) /\ Len(s) \in n..Len(s)
      BY <1>1
    <3> QED
      BY <3>1, ConcatAdjacentSubSeq
  <2> QED
    BY <2>1, SubSeqFull DEF From
<1> QED
  BY <1>3, <1>4, <1>5

LEMMA FromConcat ==
  ASSUME NEW S, NEW s \in Seq(S), NEW t \in Seq(S)
  PROVE  From(s \o t, Len(s) + 1) = t
<1>1. /\ s \o t \in Seq(S) /\ Len(s \o t) = Len(s) + Len(t) /\ Len(s) \in Nat /\ Len(t) \in Nat
      /\ \A k \in 1..Len(s) + Len(t) : (s \o t)[k] = IF k <= Len(s) THEN s[k] ELSE t[k - Len(s)]
  BY ConcatProperties, LenProperties
<1>2. Len(s) + 1 \in 1..Len(s \o t) + 1
  BY <1>1
<1> DEFINE u == From(s \o t, Len(s) + 1)
<1>3. /\ u \in Seq(S) /\ Len(u) = Len(s \o t) - (Len(s) + 1) + 1
      /\ \A k \in 1..Len(s \o t) - (Len(s) + 1) + 1 : u[k] = (s \o t)[Len(s) + 1 + k - 1]
  BY <1>1, <1>2, FromParts
<1> HIDE DEF u
<1>4. Len(u) = Len(t)
  BY <1>1, <1>3
<1>5. \A k \in 1..Len(t) : u[k] = t[k]
  <2> SUFFICES ASSUME NEW k \in 1..Len(t) PROVE u[k] = t[k]
    OBVIOUS
  <2>1. /\ k \in 1..Len(s \o t) - (Len(s) + 1) + 1 /\ Len(s) + 1 + k - 1 = Len(s) + k
        /\ Len(s) + k \in 1..Len(s) + Len(t) /\ ~(Len(s) + k <= Len(s)) /\ Len(s) + k - Len(s) = k
    BY <1>1
  <2>2. u[k] = (s \o t)[Len(s) + k]
    BY <1>3, <2>1
  <2>3. (s \o t)[Len(s) + k] = t[k]
    <3>1. ASSUME NEW j \in 1..Len(s) + Len(t), ~(j <= Len(s)) PROVE (s \o t)[j] = t[j - Len(s)]
      BY <1>1, <3>1
    <3> QED
      BY <2>1, <3>1
  <2> QED
    BY <2>2, <2>3
<1>6. u = t
  BY <1>3, <1>4, <1>5, SeqEqual
<1> QED
  BY <1>6 DEF u

LEMMA FrontConcat ==
  ASSUME NEW S, NEW s \in Seq(S), NEW t \in Seq(S)
  PROVE  SubSeq(s \o t, 1, Len(s)) = s
<1>1. /\ s \o t \in Seq(S) /\ Len(s \o t) = Len(s) + Len(t) /\ Len(s) \in Nat /\ Len(t) \in Nat
      /\ \A k \in 1..Len(s) + Len(t) : (s \o t)[k] = IF k <= Len(s) THEN s[k] ELSE t[k - Len(s)]
  BY ConcatProperties, LenProperties
<1>2. Len(s) \in 0..Len(s \o t)
  BY <1>1
<1> DEFINE u == SubSeq(s \o t, 1, Len(s))
<1>3. u \in Seq(S) /\ Len(u) = Len(s) /\ \A k \in 1..Len(s) : u[k] = (s \o t)[k]
  BY <1>1, <1>2, FrontParts
<1> HIDE DEF u
<1>4. \A k \in 1..Len(u) : u[k] = s[k]
  BY <1>1, <1>3
<1>5. u = s
  BY <1>3, <1>4, SeqEqual
<1> QED
  BY <1>5 DEF u

LEMMA OneMore ==
  ASSUME NEW S, NEW b \in S, NEW t \in Seq(S)
  PROVE  /\ <<b>> \in Seq(S) /\ Len(<<b>>) = 1 /\ <<b>> \o t \in Seq(S)
         /\ Len(<<b>> \o t) = Len(t) + 1 /\ (<<b>> \o t)[1] = b /\ <<b>> \o t # <<>>
         /\ \A k \in 1..Len(t) : (<<b>> \o t)[k + 1] = t[k]
         /\ Tail(<<b>> \o t) = t
<1>1. <<b>> \in Seq(S) /\ Len(<<b>>) = 1 /\ <<b>>[1] = b
  OBVIOUS
<1>2. /\ <<b>> \o t \in Seq(S) /\ Len(<<b>> \o t) = 1 + Len(t) /\ Len(t) \in Nat
      /\ \A k \in 1..1 + Len(t) : (<<b>> \o t)[k] = IF k <= 1 THEN <<b>>[k] ELSE t[k - 1]
  BY <1>1, ConcatProperties, LenProperties
<1> DEFINE u == <<b>> \o t
<1> HIDE DEF u
<1>3. u \in Seq(S) /\ Len(u) = Len(t) + 1 /\ u[1] = b /\ u # <<>>
  BY <1>1, <1>2, EmptySeq DEF u
<1>4. \A k \in 1..Len(t) : u[k + 1] = t[k]
  BY <1>2 DEF u
<1>5. Tail(u) \in Seq(S) /\ Len(Tail(u)) = Len(t) /\ \A k \in 1..Len(t) : Tail(u)[k] = u[k + 1]
  BY <1>2, <1>3, HeadTailProperties
<1>6. Tail(u) = t
  BY <1>4, <1>5, SeqEqual
<1> QED
  BY <1>1, <1>3, <1>4, <1>6 DEF u

-----------------------------------------------------------------------------
(* The recursive functions of the codec. *)

\* How long a string is, as a function.
Lens == [s \in Seq(Byte) |-> Len(s)]

LEMMA LensType == Lens \in [Seq(Byte) -> Nat] /\ \A s \in Seq(Byte) : Lens[s] = Len(s)
BY LenProperties DEF Lens

LEMMA ByLength ==
  ASSUME NEW S, \A s \in Seq(Byte) : (\A t \in Seq(Byte) : Len(t) < Len(s) => t \in S) => s \in S
  PROVE  \A s \in Seq(Byte) : s \in S
<1> DEFINE D == Seq(Byte)
<1>1. /\ Lens \in [D -> Nat]
      /\ \A s \in D : (\A t \in D : Lens[t] < Lens[s] => t \in S) => s \in S
  BY LensType
<1> HIDE DEF D
<1>2. \A s \in D : s \in S
  BY <1>1, BySize
<1> QED
  BY <1>2 DEF D

LEMMA StringRecursion ==
  ASSUME NEW T, T # {}, NEW H \in Local(Seq(Byte), T, Lens)
  PROVE  \E F \in [Seq(Byte) -> T] : \A s \in Seq(Byte) : F[s] = H[s][F]
<1> DEFINE D == Seq(Byte)
<1>1. Lens \in [D -> Nat] /\ H \in Local(D, T, Lens)
  BY LensType
<1> HIDE DEF D
<1>2. \E F \in [D -> T] : \A s \in D : F[s] = H[s][F]
  BY <1>1, Recursion
<1> QED
  BY <1>2 DEF D

LEMMA HalfOf == \A n \in Nat : n > 127 => n \div 128 \in Nat /\ n \div 128 < n /\ n \div 128 > 0
OBVIOUS

LEMMA VarStep ==
  /\ Var \in [Nat -> Seq(Byte)]
  /\ \A n \in Nat : Var[n] = IF n > 127 THEN <<128 + (n % 128)>> \o Var[n \div 128] ELSE <<n>>
<1> DEFINE T == Seq(Byte)
           size == [n \in Nat |-> n]
           Body(f, n) == IF n > 127 THEN <<128 + (n % 128)>> \o f[n \div 128] ELSE <<n>>
           H == [n \in Nat |-> [f \in [Nat -> T] |-> Body(f, n)]]
<1>1. T # {} /\ size \in [Nat -> Nat]
  <2>1. <<>> \in T
    OBVIOUS
  <2> QED
    BY <2>1
<1>2. ASSUME NEW n \in Nat, NEW f, \A m \in Nat : m < n => f[m] \in T PROVE Body(f, n) \in T
  <2>1. CASE n > 127
    <3>1. 128 + (n % 128) \in Byte /\ f[n \div 128] \in T
      BY <1>2, <2>1, HalfOf DEF Byte
    <3> QED
      BY <2>1, <3>1, OneMore
  <2>2. CASE ~(n > 127)
    BY <2>2 DEF Byte
  <2> QED
    BY <2>1, <2>2
<1>3. ASSUME NEW n \in Nat, NEW f, NEW g, \A m \in Nat : m < n => f[m] = g[m] PROVE Body(f, n) = Body(g, n)
  BY <1>3, HalfOf
<1> HIDE DEF Body, T
<1>4. H \in Local(Nat, T, size)
  <2>1. \A n \in Nat : \A f \in [Nat -> T] : Body(f, n) \in T
    BY <1>2
  <2>2. \A n \in Nat : \A f, g \in [Nat -> T] :
          (\A m \in Nat : size[m] < size[n] => f[m] = g[m]) => Body(f, n) = Body(g, n)
    BY <1>3
  <2> QED
    BY <2>1, <2>2 DEF Local
<1>5. \A n \in Nat : \A f \in [Nat -> T] : H[n][f] = Body(f, n)
  OBVIOUS
<1>6. PICK F \in [Nat -> T] : \A n \in Nat : F[n] = H[n][F]
  <2> DEFINE D == Nat
  <2>1. size \in [D -> Nat] /\ H \in Local(D, T, size)
    BY <1>1, <1>4
  <2> HIDE DEF D, H, size
  <2>2. \E F \in [D -> T] : \A n \in D : F[n] = H[n][F]
    BY <1>1, <2>1, Recursion
  <2> QED
    BY <2>2 DEF D
<1>7. F = [n \in Nat |-> Body(F, n)]
  <2> HIDE DEF H
  <2> QED
    BY <1>5, <1>6
<1>8. \E f : f = [n \in Nat |-> Body(f, n)]
  BY <1>7
<1>9. Var = [n \in Nat |-> Body(Var, n)]
  BY <1>8 DEF Var, Body
<1> DEFINE S == {n \in Nat : Var[n] \in T}
<1>10. \A n \in Nat : n \in S
  <2>1. ASSUME NEW n \in Nat, \A m \in Nat : size[m] < size[n] => m \in S PROVE n \in S
    <3>1. \A m \in Nat : m < n => Var[m] \in T
      BY <2>1
    <3> QED
      BY <1>2, <1>9, <3>1
  <2> HIDE DEF S, size
  <2> QED
    BY <1>1, <2>1, BySize
<1>11. Var \in [Nat -> T] /\ \A n \in Nat : Var[n] = Body(Var, n)
  BY <1>9, <1>10
<1> QED
  BY <1>11 DEF Body, T

-----------------------------------------------------------------------------
(* Numbers. *)

LEMMA MinOf ==
  ASSUME NEW S \in SUBSET Nat, S # {}
  PROVE  Min(S) \in S /\ \A y \in S : Min(S) <= y
<1>1. PICK x \in S : \A y \in S : <<y, x>> \notin OpToRel(<, Nat)
  BY NatLessThanWellFounded, WFMin
<1>2. \A y \in S : x <= y
  <2> SUFFICES ASSUME NEW y \in S, y < x PROVE FALSE
    OBVIOUS
  <2>1. <<y, x>> \in OpToRel(<, Nat)
    BY DEF OpToRel
  <2> QED
    BY <1>1, <2>1
<1> QED
  BY <1>2 DEF Min

LEMMA MaxOf ==
  ASSUME NEW N \in Nat, NEW S \in SUBSET (0..N), S # {}
  PROVE  Max(S) \in S /\ \A y \in S : Max(S) >= y
<1> DEFINE U == {n \in Nat : \A y \in S : y <= n}
<1>1. U \in SUBSET Nat /\ N \in U
  OBVIOUS
<1>2. Min(U) \in U /\ \A n \in U : Min(U) <= n
  <2> HIDE DEF U
  <2> QED
    BY <1>1, MinOf
<1>3. PICK x \in Nat : x \in U /\ \A n \in U : x <= n
  BY <1>2
<1>4. x \in S
  <2> SUFFICES ASSUME x \notin S PROVE FALSE
    OBVIOUS
  <2>1. \A y \in S : y \in Nat /\ y <= x - 1
    BY <1>3
  <2>2. x - 1 \in Nat
    <3>1. PICK y \in S : y \in Nat /\ y <= x - 1
      BY <2>1
    <3> QED
      BY <3>1
  <2>3. x - 1 \in U
    BY <2>1, <2>2
  <2> QED
    BY <1>3, <2>2, <2>3
<1>5. \A y \in S : x >= y
  BY <1>3
<1> QED
  BY <1>4, <1>5 DEF Max

LEMMA TailParts ==
  ASSUME NEW s \in Seq(Byte), s # <<>>
  PROVE  /\ s[1] \in Byte /\ Tail(s) \in Seq(Byte) /\ Len(Tail(s)) = Len(s) - 1 /\ Len(Tail(s)) < Len(s)
         /\ Len(s) \in Nat \ {0} /\ Len(Tail(s)) \in Nat
         /\ \A k \in 1..Len(s) - 1 : Tail(s)[k] = s[k + 1]
<1>1. Len(s) \in Nat /\ Len(s) # 0
  BY LenProperties, EmptySeq
<1>2. Tail(s) \in Seq(Byte) /\ Len(Tail(s)) = Len(s) - 1 /\ \A k \in 1..Len(s) - 1 : Tail(s)[k] = s[k + 1]
  BY HeadTailProperties
<1>3. s[1] \in Byte
  BY <1>1, ElementOfSeq
<1> QED
  BY <1>1, <1>2, <1>3

LEMMA ReadVarStep ==
  /\ ReadVar \in [Seq(Byte) -> Nat]
  /\ \A s \in Seq(Byte) : ReadVar[s] = IF s = <<>> THEN 0 ELSE IF s[1] < 128 THEN s[1] ELSE s[1] - 128 + 128 * ReadVar[Tail(s)]
<1> DEFINE T == Nat
           Body(f, s) == IF s = <<>> THEN 0 ELSE IF s[1] < 128 THEN s[1] ELSE s[1] - 128 + 128 * f[Tail(s)]
           H == [s \in Seq(Byte) |-> [f \in [Seq(Byte) -> T] |-> Body(f, s)]]
<1>1. T # {}
  <2>1. 0 \in T
    OBVIOUS
  <2> QED
    BY <2>1
<1>2. ASSUME NEW s \in Seq(Byte), NEW f, \A t \in Seq(Byte) : Len(t) < Len(s) => f[t] \in T
      PROVE  Body(f, s) \in T
  <2>1. CASE s # <<>>
    <3>1. s[1] \in Byte /\ Tail(s) \in Seq(Byte) /\ Len(Tail(s)) < Len(s)
      BY <2>1, TailParts
    <3>2. f[Tail(s)] \in Nat
      BY <1>2, <3>1
    <3>3. \A a \in Byte, n \in Nat : ~(a < 128) => a - 128 + 128 * n \in Nat
      BY DEF Byte
    <3>4. \A a \in Byte : a \in Nat
      BY DEF Byte
    <3> QED
      BY <2>1, <3>1, <3>2, <3>3, <3>4
  <2> QED
    BY <2>1
<1>3. ASSUME NEW s \in Seq(Byte), NEW f, NEW g, \A t \in Seq(Byte) : Len(t) < Len(s) => f[t] = g[t]
      PROVE  Body(f, s) = Body(g, s)
  BY <1>3, TailParts
<1> HIDE DEF Body, T
<1>4. H \in Local(Seq(Byte), T, Lens)
  <2>1. \A s \in Seq(Byte) : \A f \in [Seq(Byte) -> T] : Body(f, s) \in T
    BY <1>2
  <2>2. \A s \in Seq(Byte) : \A f, g \in [Seq(Byte) -> T] :
          (\A t \in Seq(Byte) : Lens[t] < Lens[s] => f[t] = g[t]) => Body(f, s) = Body(g, s)
    BY <1>3, LensType
  <2> QED
    BY <2>1, <2>2 DEF Local
<1>5. \A s \in Seq(Byte) : \A f \in [Seq(Byte) -> T] : H[s][f] = Body(f, s)
  OBVIOUS
<1> HIDE DEF H
<1>6. PICK F \in [Seq(Byte) -> T] : \A s \in Seq(Byte) : F[s] = H[s][F]
  BY <1>1, <1>4, StringRecursion
<1>7. F = [s \in Seq(Byte) |-> Body(F, s)]
  BY <1>5, <1>6
<1>8. \E f : f = [s \in Seq(Byte) |-> Body(f, s)]
  BY <1>7
<1>9. ReadVar = [s \in Seq(Byte) |-> Body(ReadVar, s)]
  BY <1>8 DEF ReadVar, Body
<1> DEFINE S == {s \in Seq(Byte) : ReadVar[s] \in T}
<1>10. \A s \in Seq(Byte) : s \in S
  <2>1. ASSUME NEW s \in Seq(Byte), \A t \in Seq(Byte) : Len(t) < Len(s) => t \in S PROVE s \in S
    <3>1. \A t \in Seq(Byte) : Len(t) < Len(s) => ReadVar[t] \in T
      BY <2>1
    <3> QED
      BY <1>2, <1>9, <3>1
  <2> HIDE DEF S
  <2> QED
    BY <2>1, ByLength
<1>11. ReadVar \in [Seq(Byte) -> T] /\ \A s \in Seq(Byte) : ReadVar[s] = Body(ReadVar, s)
  BY <1>9, <1>10
<1> QED
  BY <1>11 DEF Body, T


LEMMA AfterVarParts ==
  ASSUME NEW s \in Seq(Byte), HasVar(s)
  PROVE  /\ VarLen(s) \in 1..Len(s) /\ s[VarLen(s)] < 128 /\ \A k \in 1..Len(s) : s[k] < 128 => VarLen(s) <= k
         /\ AfterVar(s) \in Seq(Byte) /\ Len(AfterVar(s)) = Len(s) - VarLen(s)
         /\ Len(AfterVar(s)) < Len(s) /\ Len(AfterVar(s)) \in Nat /\ Len(s) \in Nat
<1> DEFINE U == {n \in 1..Len(s) : s[n] < 128}
<1>1. Len(s) \in Nat
  BY LenProperties
<1>2. U \in SUBSET Nat /\ U # {}
  BY DEF HasVar
<1>3. Min(U) \in U /\ \A n \in U : Min(U) <= n
  <2> HIDE DEF U
  <2> QED
    BY <1>2, MinOf
<1>4. VarLen(s) \in U /\ \A n \in U : VarLen(s) <= n
  BY <1>3 DEF VarLen
<1>5. VarLen(s) + 1 \in 1..Len(s) + 1
  BY <1>1, <1>4
<1>6. From(s, VarLen(s) + 1) \in Seq(Byte) /\ Len(From(s, VarLen(s) + 1)) = Len(s) - (VarLen(s) + 1) + 1
  BY <1>5, FromParts
<1> QED
  BY <1>1, <1>4, <1>6 DEF AfterVar

\* The number in front of any bytes is read back, and the bytes are left.
LEMMA VarRoundTrip ==
  ASSUME NEW n \in Nat, NEW rest \in Seq(Byte)
  PROVE  LET s == Var[n] \o rest
         IN  s \in Seq(Byte) /\ HasVar(s) /\ ReadVar[s] = n /\ AfterVar(s) = rest
<1> DEFINE Good(m) == /\ Var[m] # <<>> /\ Var[m] \in Seq(Byte) /\ HasVar(Var[m] \o rest)
                      /\ VarLen(Var[m] \o rest) = Len(Var[m]) /\ ReadVar[Var[m] \o rest] = m
           S == {m \in Nat : Good(m)}
<1>1. ASSUME NEW m \in Nat, \A j \in Nat : j < m => Good(j) PROVE Good(m)
  <2>1. Var[m] \in Seq(Byte) /\ rest \in Seq(Byte)
    BY VarStep
  <2> DEFINE s == Var[m] \o rest
  <2>2. s \in Seq(Byte)
    BY <2>1, ConcatProperties
  <2>3. CASE m > 127
    <3> DEFINE j == m \div 128
               b == 128 + (m % 128)
               t == Var[j] \o rest
    <3>1. j \in Nat /\ j < m /\ Good(j) /\ b \in Byte /\ m = b - 128 + 128 * j /\ ~(b < 128)
      BY <1>1, <2>3, HalfOf DEF Byte
    <3>2. Var[m] = <<b>> \o Var[j]
      BY <2>3, VarStep
    <3>3. Var[j] \in Seq(Byte) /\ t \in Seq(Byte)
      BY <3>1, VarStep, ConcatProperties
    <3>4. s = <<b>> \o t
      <4>1. <<b>> \in Seq(Byte)
        BY <3>1
      <4> HIDE DEF b, j
      <4>2. (<<b>> \o Var[j]) \o rest = <<b>> \o (Var[j] \o rest)
        <5> DEFINE h == <<b>>
                   k == Var[j]
        <5>1. h \in Seq(Byte) /\ k \in Seq(Byte) /\ rest \in Seq(Byte)
          BY <3>3, <4>1
        <5> HIDE DEF h, k
        <5>2. (h \o k) \o rest = h \o (k \o rest)
          BY <5>1, ConcatAssociative
        <5> QED
          BY <5>2 DEF h, k
      <4> QED
        BY <3>2, <4>2
    <3>5. Var[m] # <<>> /\ Len(Var[m]) = Len(Var[j]) + 1
      BY <3>1, <3>2, <3>3, OneMore
    <3>6. HasVar(t) /\ VarLen(t) = Len(Var[j]) /\ ReadVar[t] = j
      BY <3>1
    <3> HIDE DEF s, t, b, j
    <3>7. /\ s # <<>> /\ s[1] = b /\ Tail(s) = t /\ Len(s) = Len(t) + 1
          /\ \A k \in 1..Len(t) : s[k + 1] = t[k]
      BY <3>1, <3>3, <3>4, OneMore
    <3>8. ReadVar[s] = m
      BY <2>2, <3>1, <3>6, <3>7, ReadVarStep
    <3>9. /\ VarLen(t) \in 1..Len(t) /\ t[VarLen(t)] < 128 /\ Len(t) \in Nat
          /\ \A k \in 1..Len(t) : t[k] < 128 => VarLen(t) <= k
      BY <3>3, <3>6, AfterVarParts
    <3>10. VarLen(t) + 1 \in 1..Len(s) /\ s[VarLen(t) + 1] < 128
      BY <3>7, <3>9
    <3>11. HasVar(s)
      BY <3>10 DEF HasVar
    <3>12. /\ VarLen(s) \in 1..Len(s) /\ s[VarLen(s)] < 128
           /\ \A k \in 1..Len(s) : s[k] < 128 => VarLen(s) <= k
      BY <2>2, <3>11, AfterVarParts
    <3>13. VarLen(s) # 1
      BY <3>1, <3>7, <3>12
    <3>14. VarLen(s) - 1 \in 1..Len(t) /\ t[VarLen(s) - 1] < 128
      <4>1. VarLen(s) - 1 \in 1..Len(t)
        BY <3>7, <3>9, <3>12, <3>13
      <4>2. s[VarLen(s) - 1 + 1] = t[VarLen(s) - 1] /\ VarLen(s) - 1 + 1 = VarLen(s)
        BY <3>7, <3>12, <4>1
      <4> QED
        BY <3>12, <4>1, <4>2
    <3>15. VarLen(s) = VarLen(t) + 1
      <4>1. VarLen(t) <= VarLen(s) - 1
        BY <3>9, <3>14
      <4>2. VarLen(s) <= VarLen(t) + 1
        BY <3>10, <3>12
      <4> QED
        BY <3>9, <3>12, <4>1, <4>2
    <3>16. VarLen(s) = Len(Var[m])
      BY <3>5, <3>6, <3>15
    <3> QED
      BY <2>1, <3>5, <3>8, <3>11, <3>16 DEF s
  <2>4. CASE ~(m > 127)
    <3>1. Var[m] = <<m>> /\ m \in Byte /\ m < 128
      <4>1. m \in Byte /\ m < 128
        BY <2>4 DEF Byte
      <4>2. Var[m] = <<m>>
        BY <2>4, VarStep
      <4> QED
        BY <4>1, <4>2
    <3> HIDE DEF s
    <3>2. s # <<>> /\ s[1] = m /\ Len(s) = Len(rest) + 1 /\ Len(Var[m]) = 1 /\ Var[m] # <<>>
      BY <2>1, <3>1, OneMore DEF s
    <3>3. Len(rest) \in Nat
      BY LenProperties
    <3>4. 1 \in 1..Len(s) /\ s[1] < 128
      BY <3>1, <3>2, <3>3
    <3>5. HasVar(s)
      BY <3>4 DEF HasVar
    <3>6. ReadVar[s] = m
      BY <2>2, <3>1, <3>2, ReadVarStep
    <3>7. VarLen(s) = 1
      <4>1. VarLen(s) \in 1..Len(s) /\ VarLen(s) <= 1
        BY <2>2, <3>4, <3>5, AfterVarParts
      <4> QED
        BY <4>1
    <3> QED
      BY <2>1, <3>2, <3>5, <3>6, <3>7 DEF s
  <2> QED
    BY <2>3, <2>4
<1>2. \A m \in Nat : m \in S
  <2> DEFINE D == Nat
             size == [m \in D |-> m]
  <2>1. size \in [D -> Nat] /\ \A m \in D : (\A j \in D : size[j] < size[m] => j \in S) => m \in S
    <3> HIDE DEF Good
    <3> QED
      BY <1>1
  <2> HIDE DEF D, size, S
  <2>2. \A m \in D : m \in S
    BY <2>1, BySize
  <2> QED
    BY <2>2 DEF D
<1>3. Good(n)
  BY <1>2
<1>4. AfterVar(Var[n] \o rest) = rest
  <2>1. AfterVar(Var[n] \o rest) = From(Var[n] \o rest, Len(Var[n]) + 1)
    BY <1>3 DEF AfterVar
  <2> QED
    BY <1>3, <2>1, FromConcat
<1>5. Var[n] \o rest \in Seq(Byte)
  BY <1>3, ConcatProperties
<1> QED
  BY <1>3, <1>4, <1>5

-----------------------------------------------------------------------------
(* Strings, and the runs at their front. *)

LEMMA Cat == \A a, b \in Seq(Byte) : /\ a \o b \in Seq(Byte) /\ Len(a \o b) = Len(a) + Len(b)
                                     /\ Len(a) \in Nat /\ Len(b) \in Nat
BY ConcatProperties, LenProperties

LEMMA Assoc == \A a, b, c \in Seq(Byte) : (a \o b) \o c = a \o (b \o c)
BY ConcatAssociative

LEMMA NoBytes == \A a \in Seq(Byte) : <<>> \in Seq(Byte) /\ <<>> \o a = a /\ a \o <<>> = a /\ Len(<<>>) = 0
BY ConcatEmptySeq, EmptySeq

LEMMA Nonempty == \A a \in Seq(Byte) : Len(a) \in Nat /\ (a # <<>> <=> Len(a) > 0)
BY LenProperties, EmptySeq

LEMMA FromFrom ==
  ASSUME NEW S, NEW s \in Seq(S), NEW i \in 1..Len(s) + 1, NEW j \in 1..Len(From(s, i)) + 1
  PROVE  From(From(s, i), j) = From(s, i + j - 1)
<1>1. Len(s) \in Nat
  BY LenProperties
<1> DEFINE t == From(s, i)
           a == From(t, j)
           b == From(s, i + j - 1)
<1>2. t \in Seq(S) /\ Len(t) = Len(s) - i + 1 /\ \A k \in 1..Len(s) - i + 1 : t[k] = s[i + k - 1]
  BY FromParts
<1>3. i \in Int /\ j \in Int /\ i >= 1 /\ j >= 1 /\ i <= Len(s) + 1 /\ j <= Len(s) - i + 2 /\ i + j - 1 \in 1..Len(s) + 1
  BY <1>1, <1>2
<1> HIDE DEF t
<1>4. a \in Seq(S) /\ Len(a) = Len(t) - j + 1 /\ \A k \in 1..Len(t) - j + 1 : a[k] = t[j + k - 1]
  BY <1>2, FromParts DEF t
<1>5. b \in Seq(S) /\ Len(b) = Len(s) - (i + j - 1) + 1 /\ \A k \in 1..Len(s) - (i + j - 1) + 1 : b[k] = s[i + j - 1 + k - 1]
  BY <1>3, FromParts
<1> HIDE DEF a, b
<1>6. Len(a) = Len(b)
  BY <1>1, <1>2, <1>3, <1>4, <1>5
<1>7. ASSUME NEW k \in 1..Len(a) PROVE a[k] = b[k]
  <2>1. k \in 1..Len(t) - j + 1 /\ j + k - 1 \in 1..Len(s) - i + 1 /\ k \in 1..Len(s) - (i + j - 1) + 1
    BY <1>1, <1>2, <1>3, <1>4
  <2>2. a[k] = t[j + k - 1] /\ b[k] = s[i + j - 1 + k - 1]
    BY <1>4, <1>5, <2>1
  <2>3. t[j + k - 1] = s[i + (j + k - 1) - 1]
    BY <1>2, <2>1
  <2>4. i + (j + k - 1) - 1 = i + j - 1 + k - 1
    BY <1>3, <2>1
  <2> QED
    BY <2>2, <2>3, <2>4
<1>8. a = b
  BY <1>4, <1>5, <1>6, <1>7, SeqEqual
<1> QED
  BY <1>8 DEF a, b, t

\* A run is constant if its first two bytes are equal, and rises otherwise.
LEMMA RunParts ==
  ASSUME NEW v \in Seq(Byte), v # <<>>
  PROVE  /\ Run(v) \in 1..Len(v) /\ Len(v) \in Nat
         /\ Run(v) > 1 /\ v[1] = v[2] => \A k \in 1..Run(v) : v[k] = v[1]
         /\ Run(v) > 1 /\ v[1] # v[2] => \A k \in 1..Run(v) : v[k] = (v[1] + k - 1) % 256
<1>1. Len(v) \in Nat /\ Len(v) > 0 /\ v[1] \in 0..255
  BY Nonempty, TailParts DEF Byte
<1> DEFINE E == {n \in 1..Len(v) : \A k \in 1..n : v[k] = v[1]}
           R == {n \in 1..Len(v) : \A k \in 1..n : v[k] = (v[1] + k - 1) % 256}
<1>2. E \in SUBSET (0..Len(v)) /\ R \in SUBSET (0..Len(v))
  BY <1>1
<1>3. 1 \in E
  BY <1>1
<1>4. 1 \in R
  <2>1. \A k \in 1..1 : k = 1
    OBVIOUS
  <2>2. v[1] = (v[1] + 1 - 1) % 256
    <3>1. \A x \in 0..255 : x = (x + 1 - 1) % 256
      OBVIOUS
    <3> QED
      BY <1>1, <3>1
  <2> QED
    BY <1>1, <2>1, <2>2
<1>5. Max(E) \in E
  <2> HIDE DEF E
  <2> QED
    BY <1>1, <1>2, <1>3, MaxOf
<1>6. Max(R) \in R
  <2> HIDE DEF R
  <2> QED
    BY <1>1, <1>2, <1>4, MaxOf
<1>7. Equal(v) \in E /\ Rising(v) \in R
  BY <1>5, <1>6 DEF Equal, Rising
<1>8. CASE Equal(v) > 1
  <2>1. Run(v) = Equal(v)
    BY <1>8 DEF Run
  <2>2. 2 \in 1..Equal(v)
    BY <1>1, <1>7, <1>8
  <2>3. v[2] = v[1]
    BY <1>7, <2>2
  <2> QED
    BY <1>1, <1>7, <2>1, <2>3
<1>9. CASE ~(Equal(v) > 1)
  <2>1. Run(v) = Rising(v)
    BY <1>9 DEF Run
  <2>2. Rising(v) > 1 => v[1] # v[2]
    <3> SUFFICES ASSUME Rising(v) > 1 PROVE v[1] # v[2]
      OBVIOUS
    <3>1. 2 \in 1..Rising(v)
      BY <1>1, <1>7
    <3>2. v[2] = (v[1] + 2 - 1) % 256
      BY <1>7, <3>1
    <3>3. \A x \in 0..255 : x # (x + 2 - 1) % 256
      OBVIOUS
    <3> QED
      BY <1>1, <3>2, <3>3
  <2> QED
    BY <1>1, <1>7, <2>1, <2>2
<1> QED
  BY <1>8, <1>9

LEMMA AfterRun ==
  ASSUME NEW v \in Seq(Byte), v # <<>>
  PROVE  /\ From(v, Run(v) + 1) \in Seq(Byte) /\ Len(From(v, Run(v) + 1)) = Len(v) - Run(v)
         /\ Len(From(v, Run(v) + 1)) < Len(v) /\ Len(From(v, Run(v) + 1)) \in Nat
<1>1. Run(v) \in 1..Len(v) /\ Len(v) \in Nat
  BY RunParts
<1>2. Run(v) + 1 \in 1..Len(v) + 1
  BY <1>1
<1>3. From(v, Run(v) + 1) \in Seq(Byte) /\ Len(From(v, Run(v) + 1)) = Len(v) - (Run(v) + 1) + 1
  BY <1>2, FromParts
<1> QED
  BY <1>1, <1>3

LEMMA RawRestStep ==
  /\ RawRest \in [Seq(Byte) -> Nat]
  /\ \A s \in Seq(Byte) : RawRest[s] = IF s = <<>> \/ Worth(s, FALSE) THEN 0 ELSE Run(s) + RawRest[From(s, Run(s) + 1)]
<1> DEFINE T == Nat
           Body(f, s) == IF s = <<>> \/ Worth(s, FALSE) THEN 0 ELSE Run(s) + f[From(s, Run(s) + 1)]
           H == [s \in Seq(Byte) |-> [f \in [Seq(Byte) -> T] |-> Body(f, s)]]
<1>1. T # {}
  <2>1. 0 \in T
    OBVIOUS
  <2> QED
    BY <2>1
<1>2. ASSUME NEW s \in Seq(Byte), NEW f, \A t \in Seq(Byte) : Len(t) < Len(s) => f[t] \in T
      PROVE  Body(f, s) \in T
  <2>1. CASE s # <<>>
    <3>1. Run(s) \in Nat
      BY <2>1, RunParts
    <3>2. f[From(s, Run(s) + 1)] \in Nat
      BY <1>2, <2>1, AfterRun
    <3>3. Run(s) + f[From(s, Run(s) + 1)] \in Nat
      BY <3>1, <3>2
    <3> QED
      BY <2>1, <3>3
  <2> QED
    BY <2>1
<1>3. ASSUME NEW s \in Seq(Byte), NEW f, NEW g, \A t \in Seq(Byte) : Len(t) < Len(s) => f[t] = g[t]
      PROVE  Body(f, s) = Body(g, s)
  BY <1>3, AfterRun
<1> HIDE DEF Body, T
<1>4. H \in Local(Seq(Byte), T, Lens)
  <2>1. \A s \in Seq(Byte) : \A f \in [Seq(Byte) -> T] : Body(f, s) \in T
    BY <1>2
  <2>2. \A s \in Seq(Byte) : \A f, g \in [Seq(Byte) -> T] :
          (\A t \in Seq(Byte) : Lens[t] < Lens[s] => f[t] = g[t]) => Body(f, s) = Body(g, s)
    BY <1>3, LensType
  <2> QED
    BY <2>1, <2>2 DEF Local
<1>5. \A s \in Seq(Byte) : \A f \in [Seq(Byte) -> T] : H[s][f] = Body(f, s)
  OBVIOUS
<1> HIDE DEF H
<1>6. PICK F \in [Seq(Byte) -> T] : \A s \in Seq(Byte) : F[s] = H[s][F]
  BY <1>1, <1>4, StringRecursion
<1>7. F = [s \in Seq(Byte) |-> Body(F, s)]
  BY <1>5, <1>6
<1>8. \E f : f = [s \in Seq(Byte) |-> Body(f, s)]
  BY <1>7
<1>9. RawRest = [s \in Seq(Byte) |-> Body(RawRest, s)]
  BY <1>8 DEF RawRest, Body
<1> DEFINE S == {s \in Seq(Byte) : RawRest[s] \in T}
<1>10. \A s \in Seq(Byte) : s \in S
  <2>1. ASSUME NEW s \in Seq(Byte), \A t \in Seq(Byte) : Len(t) < Len(s) => t \in S PROVE s \in S
    <3>1. \A t \in Seq(Byte) : Len(t) < Len(s) => RawRest[t] \in T
      BY <2>1
    <3> QED
      BY <1>2, <1>9, <3>1
  <2> HIDE DEF S
  <2> QED
    BY <2>1, ByLength
<1>11. RawRest \in [Seq(Byte) -> T] /\ \A s \in Seq(Byte) : RawRest[s] = Body(RawRest, s)
  BY <1>9, <1>10
<1> QED
  BY <1>11 DEF Body, T

\* What is left behind the raw bytes starts with a run that is worth coding.
LEMMA RawRestParts ==
  ASSUME NEW v \in Seq(Byte)
  PROVE  /\ RawRest[v] \in 0..Len(v) /\ Len(v) \in Nat
         /\ From(v, RawRest[v] + 1) # <<>> => Run(From(v, RawRest[v] + 1)) >= 4
<1> DEFINE Good(u) == /\ RawRest[u] \in 0..Len(u)
                      /\ From(u, RawRest[u] + 1) # <<>> => Run(From(u, RawRest[u] + 1)) >= 4
           S == {u \in Seq(Byte) : Good(u)}
<1>1. ASSUME NEW u \in Seq(Byte), \A t \in Seq(Byte) : Len(t) < Len(u) => t \in S PROVE u \in S
  <2>1. Len(u) \in Nat
    BY Nonempty
  <2>2. CASE u = <<>> \/ Run(u) >= 4
    <3>1. RawRest[u] = 0 /\ 1 \in 1..Len(u) + 1
      <4>1. RawRest[u] = 0
        BY <2>2, RawRestStep DEF Worth
      <4> QED
        BY <2>1, <4>1
    <3>2. From(u, RawRest[u] + 1) = u
      BY <3>1, FromParts
    <3>3. RawRest[u] \in 0..Len(u)
      BY <2>1, <3>1
    <3> QED
      BY <2>2, <3>2, <3>3, Zenon
  <2>3. CASE ~(u = <<>> \/ Run(u) >= 4)
    <3> DEFINE t == From(u, Run(u) + 1)
    <3>1. Run(u) \in 1..Len(u) /\ t \in Seq(Byte) /\ Len(t) = Len(u) - Run(u) /\ Len(t) < Len(u)
      BY <2>3, RunParts, AfterRun
    <3>2. Good(t)
      BY <1>1, <3>1
    <3>3. RawRest[u] = Run(u) + RawRest[t]
      BY <2>3, RawRestStep DEF Worth
    <3>4. From(t, RawRest[t] + 1) = From(u, RawRest[u] + 1)
      <4>1. Run(u) + 1 \in 1..Len(u) + 1 /\ RawRest[t] + 1 \in 1..Len(t) + 1
        BY <2>1, <3>1, <3>2
      <4> HIDE DEF Good
      <4>2. From(From(u, Run(u) + 1), RawRest[t] + 1) = From(u, Run(u) + 1 + (RawRest[t] + 1) - 1)
        BY <3>1, <4>1, FromFrom
      <4>3. Run(u) + 1 + (RawRest[t] + 1) - 1 = RawRest[u] + 1
        <5>1. \A a, b \in Int : a + 1 + (b + 1) - 1 = a + b + 1
          OBVIOUS
        <5>2. Run(u) \in Int /\ RawRest[t] \in Int
          BY <3>1, <3>2 DEF Good
        <5> QED
          BY <3>3, <5>1, <5>2
      <4> QED
        BY <4>2, <4>3
    <3>5. RawRest[u] \in 0..Len(u)
      <4>1. Run(u) \in 1..Len(u) /\ RawRest[t] \in 0..Len(u) - Run(u)
        BY <3>1, <3>2
      <4>2. \A l \in Nat : \A a \in 1..l : \A b \in 0..l - a : a + b \in 0..l
        OBVIOUS
      <4> HIDE DEF t
      <4> QED
        BY <2>1, <3>3, <4>1, <4>2
    <3> QED
      BY <3>2, <3>4, <3>5
  <2> QED
    BY <2>2, <2>3
<1> HIDE DEF S
<1>2. \A u \in Seq(Byte) : u \in S
  BY <1>1, ByLength
<1> QED
  BY <1>2, Nonempty DEF S

LEMMA RawSizeParts ==
  ASSUME NEW v \in Seq(Byte), v # <<>>
  PROVE  /\ RawSize(v) \in 0..Len(v) /\ Len(v) \in Nat
         /\ From(v, RawSize(v) + 1) \in Seq(Byte)
         /\ Len(From(v, RawSize(v) + 1)) = Len(v) - RawSize(v)
         /\ From(v, RawSize(v) + 1) # <<>> =>
              /\ Run(From(v, RawSize(v) + 1)) >= 2
              /\ RawSize(v) > 0 => Run(From(v, RawSize(v) + 1)) >= 4
         /\ RawSize(v) = 0 => From(v, RawSize(v) + 1) = v
<1> DEFINE t == From(v, Run(v) + 1)
<1>1. /\ Run(v) \in 1..Len(v) /\ t \in Seq(Byte) /\ Len(t) = Len(v) - Run(v) /\ Len(v) \in Nat
      /\ Len(v) > 0 /\ Len(t) \in Nat
  BY RunParts, AfterRun, Nonempty
<1>2. CASE Run(v) >= 2
  <2>1. RawSize(v) = 0
    BY <1>2 DEF RawSize, Worth
  <2>2. 1 \in 1..Len(v) + 1
    BY <1>1
  <2>3. From(v, 1) = v
    BY <2>2, FromParts
  <2>4. RawSize(v) \in 0..Len(v) /\ Len(v) = Len(v) - RawSize(v)
    BY <1>1, <2>1
  <2> QED
    BY <1>1, <1>2, <2>1, <2>3, <2>4
<1>3. CASE ~(Run(v) >= 2)
  <2>1. RawSize(v) = Run(v) + RawRest[t]
    BY <1>1, <1>3 DEF RawSize, Worth
  <2>2. RawRest[t] \in 0..Len(t) /\ (From(t, RawRest[t] + 1) # <<>> => Run(From(t, RawRest[t] + 1)) >= 4)
    BY <1>1, RawRestParts
  <2>3. RawSize(v) \in 0..Len(v) /\ RawSize(v) # 0
    <3>1. RawRest[t] \in 0..Len(v) - Run(v)
      BY <1>1, <2>2
    <3>2. \A l \in Nat : \A a \in 1..l : \A b \in 0..l - a : a + b \in 0..l /\ a + b # 0
      OBVIOUS
    <3> HIDE DEF t
    <3> QED
      BY <1>1, <2>1, <3>1, <3>2
  <2>4. From(t, RawRest[t] + 1) = From(v, RawSize(v) + 1)
    <3>1. Run(v) + 1 \in 1..Len(v) + 1 /\ RawRest[t] + 1 \in 1..Len(t) + 1
      BY <1>1, <2>2
    <3>2. From(From(v, Run(v) + 1), RawRest[t] + 1) = From(v, Run(v) + 1 + (RawRest[t] + 1) - 1)
      BY <1>1, <3>1, FromFrom
    <3>3. Run(v) + 1 + (RawRest[t] + 1) - 1 = RawSize(v) + 1
      <4>1. \A a, b \in Int : a + 1 + (b + 1) - 1 = a + b + 1
        OBVIOUS
      <4>2. Run(v) \in Int /\ RawRest[t] \in Int
        BY <1>1, <2>2
      <4> QED
        BY <2>1, <4>1, <4>2
    <3> QED
      BY <3>2, <3>3
  <2>5. RawSize(v) + 1 \in 1..Len(v) + 1
    BY <1>1, <2>3
  <2>6. From(v, RawSize(v) + 1) \in Seq(Byte) /\ Len(From(v, RawSize(v) + 1)) = Len(v) - (RawSize(v) + 1) + 1
    BY <2>5, FromParts
  <2>7. Len(From(v, RawSize(v) + 1)) = Len(v) - RawSize(v)
    BY <1>1, <2>3, <2>6
  <2>8. From(v, RawSize(v) + 1) # <<>> => Run(From(v, RawSize(v) + 1)) >= 4
    BY <2>2, <2>4
  <2>9. From(v, RawSize(v) + 1) # <<>> => Run(From(v, RawSize(v) + 1)) >= 2
    <3>1. From(v, RawSize(v) + 1) # <<>> => Run(From(v, RawSize(v) + 1)) \in Nat
      BY <2>6, RunParts
    <3> QED
      BY <2>8, <3>1
  <2> QED
    BY <1>1, <2>3, <2>6, <2>7, <2>8, <2>9
<1> QED
  BY <1>2, <1>3

-----------------------------------------------------------------------------
(* What write_rle and read_rle do, piece by piece. *)

LEMMA RawType ==
  ASSUME NEW r \in Seq(Byte)
  PROVE  Raw(r) \in Seq(Byte) /\ (r # <<>> => Raw(r) = Var[Len(r) * 4] \o r) /\ (r = <<>> => Raw(r) = <<>>)
<1>1. Len(r) * 4 \in Nat
  <2>1. \A n \in Nat : n * 4 \in Nat
    OBVIOUS
  <2> QED
    BY <2>1, Nonempty
<1>2. Var[Len(r) * 4] \in Seq(Byte)
  BY <1>1, VarStep
<1> QED
  BY <1>2, Cat, NoBytes DEF Raw

LEMMA CodedRunType ==
  ASSUME NEW v \in Seq(Byte), v # <<>>
  PROVE  CodedRun(v) \in Seq(Byte)
<1>1. Run(v) * 4 + 1 \in Nat /\ Run(v) * 4 + 2 \in Nat /\ Run(v) * 4 + 3 \in Nat
  <2>1. \A n \in Nat : n * 4 + 1 \in Nat /\ n * 4 + 2 \in Nat /\ n * 4 + 3 \in Nat
    OBVIOUS
  <2>2. Run(v) \in Nat
    BY RunParts
  <2> QED
    BY <2>1, <2>2
<1> DEFINE h == <<v[1]>>
<1>2. h \in Seq(Byte)
  BY TailParts
<1>3. Var[Run(v) * 4 + 1] \in Seq(Byte) /\ Var[Run(v) * 4 + 2] \in Seq(Byte) /\ Var[Run(v) * 4 + 3] \in Seq(Byte)
  BY <1>1, VarStep
<1> HIDE DEF h
<1>4. Var[Run(v) * 4 + 2] \o h \in Seq(Byte) /\ Var[Run(v) * 4 + 3] \o h \in Seq(Byte)
  BY <1>2, <1>3, Cat
<1> QED
  BY <1>3, <1>4 DEF CodedRun, h

LEMMA WriteRleStep ==
  /\ WriteRle \in [Seq(Byte) -> Seq(Byte)]
  /\ \A s \in Seq(Byte) : WriteRle[s] = IF s = <<>> THEN Var[0]
            ELSE Raw(SubSeq(s, 1, RawSize(s)))
                 \o IF From(s, RawSize(s) + 1) = <<>> THEN Var[0]
                    ELSE CodedRun(From(s, RawSize(s) + 1))
                         \o WriteRle[From(From(s, RawSize(s) + 1), Run(From(s, RawSize(s) + 1)) + 1)]
<1> DEFINE T == Seq(Byte)
           Body(f, s) == IF s = <<>> THEN Var[0]
            ELSE Raw(SubSeq(s, 1, RawSize(s)))
                 \o IF From(s, RawSize(s) + 1) = <<>> THEN Var[0]
                    ELSE CodedRun(From(s, RawSize(s) + 1))
                         \o f[From(From(s, RawSize(s) + 1), Run(From(s, RawSize(s) + 1)) + 1)]
           H == [s \in Seq(Byte) |-> [f \in [Seq(Byte) -> T] |-> Body(f, s)]]
<1>1. T # {}
  <2>1. <<>> \in T
    OBVIOUS
  <2> QED
    BY <2>1
<1>2. ASSUME NEW s \in Seq(Byte), NEW f, \A t \in Seq(Byte) : Len(t) < Len(s) => f[t] \in T
      PROVE  Body(f, s) \in T
  <2>1. CASE s = <<>>
    BY <2>1, VarStep
  <2>2. CASE s # <<>>
    <3> DEFINE rest == From(s, RawSize(s) + 1)
               a == Raw(SubSeq(s, 1, RawSize(s)))
               b == CodedRun(rest)
               c == f[From(rest, Run(rest) + 1)]
               z == Var[0]
    <3>1. rest \in Seq(Byte) /\ Len(rest) <= Len(s) /\ RawSize(s) \in 0..Len(s) /\ Len(s) \in Nat /\ Len(rest) \in Nat
      BY <2>2, RawSizeParts
    <3>2. a \in Seq(Byte) /\ z \in Seq(Byte)
      BY <3>1, FrontParts, RawType, VarStep
    <3>3. rest # <<>> => b \in Seq(Byte) /\ c \in Seq(Byte)
      <4> SUFFICES ASSUME rest # <<>> PROVE b \in Seq(Byte) /\ c \in Seq(Byte)
        OBVIOUS
      <4> HIDE DEF rest
      <4>1. From(rest, Run(rest) + 1) \in Seq(Byte) /\ Len(From(rest, Run(rest) + 1)) < Len(s)
        BY <3>1, AfterRun
      <4>2. c \in Seq(Byte)
        BY <1>2, <4>1
      <4> QED
        BY <3>1, <4>2, CodedRunType
    <3> HIDE DEF a, b, c, z
    <3>4. a \o z \in Seq(Byte) /\ (rest # <<>> => a \o (b \o c) \in Seq(Byte))
      BY <3>2, <3>3, Cat
    <3> QED
      BY <2>2, <3>4 DEF a, b, c, z
  <2> QED
    BY <2>1, <2>2
<1>3. ASSUME NEW s \in Seq(Byte), NEW f, NEW g, \A t \in Seq(Byte) : Len(t) < Len(s) => f[t] = g[t]
      PROVE  Body(f, s) = Body(g, s)
  <2>1. CASE s # <<>> /\ From(s, RawSize(s) + 1) # <<>>
    <3> DEFINE rest == From(s, RawSize(s) + 1)
    <3>1. rest \in Seq(Byte) /\ Len(rest) <= Len(s) /\ RawSize(s) \in 0..Len(s) /\ Len(s) \in Nat /\ Len(rest) \in Nat
      BY <2>1, RawSizeParts
    <3>2. From(rest, Run(rest) + 1) \in Seq(Byte) /\ Len(From(rest, Run(rest) + 1)) < Len(s)
      <4> HIDE DEF rest
      <4>1. rest # <<>>
        BY <2>1 DEF rest
      <4> QED
        BY <3>1, <4>1, AfterRun
    <3> QED
      BY <1>3, <3>2
  <2>2. CASE ~(s # <<>> /\ From(s, RawSize(s) + 1) # <<>>)
    BY <2>2
  <2> QED
    BY <2>1, <2>2
<1> HIDE DEF Body, T
<1>4. H \in Local(Seq(Byte), T, Lens)
  <2>1. \A s \in Seq(Byte) : \A f \in [Seq(Byte) -> T] : Body(f, s) \in T
    BY <1>2
  <2>2. \A s \in Seq(Byte) : \A f, g \in [Seq(Byte) -> T] :
          (\A t \in Seq(Byte) : Lens[t] < Lens[s] => f[t] = g[t]) => Body(f, s) = Body(g, s)
    BY <1>3, LensType
  <2> QED
    BY <2>1, <2>2 DEF Local
<1>5. \A s \in Seq(Byte) : \A f \in [Seq(Byte) -> T] : H[s][f] = Body(f, s)
  OBVIOUS
<1> HIDE DEF H
<1>6. PICK F \in [Seq(Byte) -> T] : \A s \in Seq(Byte) : F[s] = H[s][F]
  BY <1>1, <1>4, StringRecursion
<1>7. F = [s \in Seq(Byte) |-> Body(F, s)]
  BY <1>5, <1>6
<1>8. \E f : f = [s \in Seq(Byte) |-> Body(f, s)]
  BY <1>7
<1>9. WriteRle = [s \in Seq(Byte) |-> Body(WriteRle, s)]
  BY <1>8 DEF WriteRle, Body
<1> DEFINE S == {s \in Seq(Byte) : WriteRle[s] \in T}
<1>10. \A s \in Seq(Byte) : s \in S
  <2>1. ASSUME NEW s \in Seq(Byte), \A t \in Seq(Byte) : Len(t) < Len(s) => t \in S PROVE s \in S
    <3>1. \A t \in Seq(Byte) : Len(t) < Len(s) => WriteRle[t] \in T
      BY <2>1
    <3> QED
      BY <1>2, <1>9, <3>1
  <2> HIDE DEF S
  <2> QED
    BY <2>1, ByLength
<1>11. WriteRle \in [Seq(Byte) -> T] /\ \A s \in Seq(Byte) : WriteRle[s] = Body(WriteRle, s)
  BY <1>9, <1>10
<1> QED
  BY <1>11 DEF Body, T

\* What read_rle can return.
Read == [thrown : BOOLEAN, bytes : Seq(Byte), left : Seq(Byte)]

LEMMA PrependType ==
  ASSUME NEW r \in Read, NEW b \in Seq(Byte)
  PROVE  Prepend(b, r) \in Read
<1>1. b \o r.bytes \in Seq(Byte)
  BY Cat DEF Read
<1> QED
  BY <1>1 DEF Read, Prepend

LEMMA MaxIsNat == MaxSize \in Nat
BY DEF MaxSize

LEMMA PieceType ==
  ASSUME NEW type \in 0..3, NEW size \in Nat, NEW t \in Seq(Byte), Taken(type, size) <= Len(t)
  PROVE  /\ Piece(type, size, t) \in Seq(Byte) /\ Taken(type, size) \in 0..Len(t)
         /\ From(t, Taken(type, size) + 1) \in Seq(Byte) /\ Len(From(t, Taken(type, size) + 1)) <= Len(t)
<1>1. Len(t) \in Nat
  BY Nonempty
<1>2. Taken(type, size) \in 0..Len(t)
  BY <1>1 DEF Taken
<1>3. Piece(type, size, t) \in Seq(Byte)
  <2>1. CASE type = 0
    <3>1. size \in 0..Len(t)
      BY <1>1, <2>1 DEF Taken
    <3> QED
      BY <2>1, <3>1, FrontParts DEF Piece
  <2>2. CASE type = 1
    <3>1. [k \in 1..size |-> 0] \in Seq(Byte)
      BY IsASeq DEF Byte
    <3> QED
      BY <2>2, <3>1 DEF Piece
  <2>3. ASSUME type \in {2, 3} PROVE t[1] \in Byte
    <3>1. Len(t) > 0
      BY <1>1, <2>3 DEF Taken
    <3> QED
      BY <3>1, Nonempty, TailParts
  <2>4. CASE type = 2
    <3>1. [k \in 1..size |-> t[1]] \in Seq(Byte)
      BY <2>3, <2>4, IsASeq
    <3> QED
      BY <2>4, <3>1 DEF Piece
  <2>5. CASE type = 3
    <3>1. \A k \in 1..size : (t[1] + k - 1) % 256 \in Byte
      <4>1. \A b \in 0..255 : \A k \in 1..size : (b + k - 1) % 256 \in 0..255
        OBVIOUS
      <4> QED
        BY <2>3, <2>5, <4>1 DEF Byte
    <3>2. [k \in 1..size |-> (t[1] + k - 1) % 256] \in Seq(Byte)
      BY <3>1, IsASeq
    <3> QED
      BY <2>5, <3>2 DEF Piece
  <2> QED
    BY <2>1, <2>2, <2>4, <2>5
<1>4. Taken(type, size) + 1 \in 1..Len(t) + 1
  BY <1>1, <1>2
<1>5. From(t, Taken(type, size) + 1) \in Seq(Byte) /\ Len(From(t, Taken(type, size) + 1)) = Len(t) - (Taken(type, size) + 1) + 1
  BY <1>4, FromParts
<1> QED
  BY <1>1, <1>2, <1>3, <1>5

LEMMA ReadRleStep ==
  /\ ReadRle \in [Seq(Byte) -> Read]
  /\ \A s \in Seq(Byte) : ReadRle[s] = IF ~HasVar(s) THEN Thrown
            ELSE IF ReadVar[s] = 0 THEN [thrown |-> FALSE, bytes |-> <<>>, left |-> AfterVar(s)]
            ELSE IF ReadVar[s] \div 4 > MaxSize \/ Taken(ReadVar[s] % 4, ReadVar[s] \div 4) > Len(AfterVar(s)) THEN Thrown
            ELSE Prepend(Piece(ReadVar[s] % 4, ReadVar[s] \div 4, AfterVar(s)),
                         ReadRle[From(AfterVar(s), Taken(ReadVar[s] % 4, ReadVar[s] \div 4) + 1)])
<1> DEFINE T == Read
           Body(f, s) == IF ~HasVar(s) THEN Thrown
            ELSE IF ReadVar[s] = 0 THEN [thrown |-> FALSE, bytes |-> <<>>, left |-> AfterVar(s)]
            ELSE IF ReadVar[s] \div 4 > MaxSize \/ Taken(ReadVar[s] % 4, ReadVar[s] \div 4) > Len(AfterVar(s)) THEN Thrown
            ELSE Prepend(Piece(ReadVar[s] % 4, ReadVar[s] \div 4, AfterVar(s)),
                         f[From(AfterVar(s), Taken(ReadVar[s] % 4, ReadVar[s] \div 4) + 1)])
           H == [s \in Seq(Byte) |-> [f \in [Seq(Byte) -> T] |-> Body(f, s)]]
<1>1. T # {}
  <2>1. Thrown \in T
    BY DEF Thrown, Read
  <2> QED
    BY <2>1
<1>2. ASSUME NEW s \in Seq(Byte), NEW f, \A t \in Seq(Byte) : Len(t) < Len(s) => f[t] \in T
      PROVE  Body(f, s) \in T
  <2>1. CASE HasVar(s) /\ ReadVar[s] # 0 /\ ~(ReadVar[s] \div 4 > MaxSize \/ Taken(ReadVar[s] % 4, ReadVar[s] \div 4) > Len(AfterVar(s)))
    <3>1. ReadVar[s] % 4 \in 0..3 /\ ReadVar[s] \div 4 \in Nat
      <4>1. \A n \in Nat : n % 4 \in 0..3 /\ n \div 4 \in Nat
        OBVIOUS
      <4> QED
        BY <4>1, ReadVarStep
    <3>2. AfterVar(s) \in Seq(Byte) /\ Len(AfterVar(s)) < Len(s) /\ Len(AfterVar(s)) \in Nat /\ Len(s) \in Nat
      BY <2>1, AfterVarParts
    <3>3. Taken(ReadVar[s] % 4, ReadVar[s] \div 4) \in Nat
      BY <3>1 DEF Taken
    <3>4. Taken(ReadVar[s] % 4, ReadVar[s] \div 4) <= Len(AfterVar(s))
      BY <2>1, <3>2, <3>3
    <3> DEFINE type == ReadVar[s] % 4
               size == ReadVar[s] \div 4
               t == AfterVar(s)
               u == From(t, Taken(type, size) + 1)
    <3>5. Piece(type, size, t) \in Seq(Byte) /\ u \in Seq(Byte) /\ Len(u) <= Len(t)
      <4> HIDE DEF type, size, t
      <4> QED
        BY <3>1, <3>2, <3>4, PieceType DEF type, size, t
    <3>6. Len(u) < Len(s)
      <4>1. Len(u) \in Nat
        BY <3>5, Nonempty
      <4> QED
        BY <3>2, <3>5, <4>1
    <3> DEFINE r == f[u]
               b == Piece(type, size, t)
    <3>7. r \in Read /\ b \in Seq(Byte)
      BY <1>2, <3>5, <3>6
    <3>8. Body(f, s) = Prepend(b, r)
      BY <2>1
    <3> HIDE DEF r, b
    <3>10. Prepend(b, r) \in Read
      BY <3>7, PrependType
    <3> QED
      BY <3>8, <3>10
  <2>2. CASE HasVar(s) /\ ReadVar[s] = 0
    <3>1. AfterVar(s) \in Seq(Byte)
      BY <2>2, AfterVarParts
    <3>2. [thrown |-> FALSE, bytes |-> <<>>, left |-> AfterVar(s)] \in Read
      BY <3>1 DEF Read
    <3> QED
      BY <2>2, <3>2
  <2>3. CASE ~(HasVar(s) /\ ReadVar[s] # 0 /\ ~(ReadVar[s] \div 4 > MaxSize \/ Taken(ReadVar[s] % 4, ReadVar[s] \div 4) > Len(AfterVar(s)))) /\ ~(HasVar(s) /\ ReadVar[s] = 0)
    <3>1. Body(f, s) = Thrown
      BY <2>3
    <3>2. Thrown \in Read
      BY DEF Thrown, Read
    <3> HIDE DEF Body
    <3> QED
      BY <3>1, <3>2
  <2> QED
    BY <2>1, <2>2, <2>3
<1>3. ASSUME NEW s \in Seq(Byte), NEW f, NEW g, \A t \in Seq(Byte) : Len(t) < Len(s) => f[t] = g[t]
      PROVE  Body(f, s) = Body(g, s)
  <2>1. CASE HasVar(s) /\ ReadVar[s] # 0 /\ ~(ReadVar[s] \div 4 > MaxSize \/ Taken(ReadVar[s] % 4, ReadVar[s] \div 4) > Len(AfterVar(s)))
    <3>1. ReadVar[s] % 4 \in 0..3 /\ ReadVar[s] \div 4 \in Nat
      <4>1. \A n \in Nat : n % 4 \in 0..3 /\ n \div 4 \in Nat
        OBVIOUS
      <4> QED
        BY <4>1, ReadVarStep
    <3>2. AfterVar(s) \in Seq(Byte) /\ Len(AfterVar(s)) < Len(s) /\ Len(AfterVar(s)) \in Nat /\ Len(s) \in Nat
      BY <2>1, AfterVarParts
    <3>3. Taken(ReadVar[s] % 4, ReadVar[s] \div 4) \in Nat
      BY <3>1 DEF Taken
    <3>4. Taken(ReadVar[s] % 4, ReadVar[s] \div 4) <= Len(AfterVar(s))
      BY <2>1, <3>2, <3>3
    <3> DEFINE type == ReadVar[s] % 4
               size == ReadVar[s] \div 4
               t == AfterVar(s)
               u == From(t, Taken(type, size) + 1)
    <3>5. Piece(type, size, t) \in Seq(Byte) /\ u \in Seq(Byte) /\ Len(u) <= Len(t)
      <4> HIDE DEF type, size, t
      <4> QED
        BY <3>1, <3>2, <3>4, PieceType DEF type, size, t
    <3>6. Len(u) < Len(s)
      <4>1. Len(u) \in Nat
        BY <3>5, Nonempty
      <4> QED
        BY <3>2, <3>5, <4>1
    <3> QED
      BY <1>3, <3>5, <3>6
  <2>2. CASE ~(HasVar(s) /\ ReadVar[s] # 0 /\ ~(ReadVar[s] \div 4 > MaxSize \/ Taken(ReadVar[s] % 4, ReadVar[s] \div 4) > Len(AfterVar(s))))
    BY <2>2
  <2> QED
    BY <2>1, <2>2
<1> HIDE DEF Body, T
<1>4. H \in Local(Seq(Byte), T, Lens)
  <2>1. \A s \in Seq(Byte) : \A f \in [Seq(Byte) -> T] : Body(f, s) \in T
    BY <1>2
  <2>2. \A s \in Seq(Byte) : \A f, g \in [Seq(Byte) -> T] :
          (\A t \in Seq(Byte) : Lens[t] < Lens[s] => f[t] = g[t]) => Body(f, s) = Body(g, s)
    BY <1>3, LensType
  <2> QED
    BY <2>1, <2>2 DEF Local
<1>5. \A s \in Seq(Byte) : \A f \in [Seq(Byte) -> T] : H[s][f] = Body(f, s)
  OBVIOUS
<1> HIDE DEF H
<1>6. PICK F \in [Seq(Byte) -> T] : \A s \in Seq(Byte) : F[s] = H[s][F]
  BY <1>1, <1>4, StringRecursion
<1>7. F = [s \in Seq(Byte) |-> Body(F, s)]
  BY <1>5, <1>6
<1>8. \E f : f = [s \in Seq(Byte) |-> Body(f, s)]
  BY <1>7
<1>9. ReadRle = [s \in Seq(Byte) |-> Body(ReadRle, s)]
  BY <1>8 DEF ReadRle, Body
<1> DEFINE S == {s \in Seq(Byte) : ReadRle[s] \in T}
<1>10. \A s \in Seq(Byte) : s \in S
  <2>1. ASSUME NEW s \in Seq(Byte), \A t \in Seq(Byte) : Len(t) < Len(s) => t \in S PROVE s \in S
    <3>1. \A t \in Seq(Byte) : Len(t) < Len(s) => ReadRle[t] \in T
      BY <2>1
    <3> QED
      BY <1>2, <1>9, <3>1
  <2> HIDE DEF S
  <2> QED
    BY <2>1, ByLength
<1>11. ReadRle \in [Seq(Byte) -> T] /\ \A s \in Seq(Byte) : ReadRle[s] = Body(ReadRle, s)
  BY <1>9, <1>10
<1> QED
  BY <1>11 DEF Body, T

-----------------------------------------------------------------------------
(* What write_rle makes is read back. *)

\* A piece is read as the bytes it stands for, in front of those that follow.
LEMMA ReadPiece ==
  ASSUME NEW type \in 0..3, NEW size \in 1..MaxSize, NEW data \in Seq(Byte), NEW rest \in Seq(Byte),
         Len(data) = Taken(type, size)
  PROVE  ReadRle[(Var[size * 4 + type] \o data) \o rest]
            = Prepend(Piece(type, size, data \o rest), ReadRle[rest])
<1> DEFINE n == size * 4 + type
           s == (Var[n] \o data) \o rest
           t == data \o rest
<1>1. n \in Nat /\ n # 0 /\ n % 4 = type /\ n \div 4 = size /\ size <= MaxSize
  <2>1. \A m \in Nat, k \in 0..3 : (m * 4 + k) % 4 = k /\ (m * 4 + k) \div 4 = m /\ m * 4 + k \in Nat
    OBVIOUS
  <2>2. size \in Nat /\ size > 0 /\ size <= MaxSize
    BY MaxIsNat
  <2>3. n # 0
    BY <2>2
  <2> QED
    BY <2>1, <2>2, <2>3
<1> HIDE DEF n
<1>2. Var[n] \in Seq(Byte) /\ t \in Seq(Byte) /\ Len(t) = Len(data) + Len(rest) /\ Len(data) \in Nat /\ Len(rest) \in Nat
  BY <1>1, VarStep, Cat
<1>3. s = Var[n] \o t
  BY <1>2, Assoc
<1>4. s \in Seq(Byte) /\ HasVar(s) /\ ReadVar[s] = n /\ AfterVar(s) = t
  BY <1>1, <1>2, <1>3, VarRoundTrip
<1>5. Taken(type, size) + 1 = Len(data) + 1 /\ ~(Taken(type, size) > Len(t)) /\ ~(size > MaxSize)
  BY <1>1, <1>2, MaxIsNat
<1>6. From(t, Taken(type, size) + 1) = rest
  BY <1>5, FromConcat
<1> HIDE DEF s, t
<1>7. ReadRle[s] = Prepend(Piece(type, size, t), ReadRle[rest])
  BY <1>1, <1>4, <1>5, <1>6, ReadRleStep
<1> QED
  BY <1>4, <1>7 DEF s, t, n

LEMMA ReadRaw ==
  ASSUME NEW r \in Seq(Byte), r # <<>>, Len(r) <= MaxSize, NEW rest \in Seq(Byte)
  PROVE  ReadRle[Raw(r) \o rest] = Prepend(r, ReadRle[rest])
<1>1. Len(r) \in 1..MaxSize /\ 0 \in 0..3 /\ Taken(0, Len(r)) = Len(r) /\ Len(r) * 4 + 0 = Len(r) * 4
  <2>1. Len(r) \in Nat /\ Len(r) > 0
    BY Nonempty
  <2> QED
    BY <2>1, MaxIsNat DEF Taken
<1>2. ReadRle[(Var[Len(r) * 4 + 0] \o r) \o rest]
        = Prepend(Piece(0, Len(r), r \o rest), ReadRle[rest])
  BY <1>1, ReadPiece, Zenon
<1>3. Piece(0, Len(r), r \o rest) = r
  BY FrontConcat DEF Piece
<1>4. Raw(r) = Var[Len(r) * 4] \o r
  BY RawType
<1> QED
  BY <1>1, <1>2, <1>3, <1>4

LEMMA ReadRun ==
  ASSUME NEW v \in Seq(Byte), v # <<>>, Run(v) > 1, Run(v) <= MaxSize, NEW rest \in Seq(Byte)
  PROVE  ReadRle[CodedRun(v) \o rest] = Prepend(SubSeq(v, 1, Run(v)), ReadRle[rest])
<1> DEFINE n == Run(v)
           w == SubSeq(v, 1, n)
           h == <<v[1]>>
<1>1. n \in 1..Len(v) /\ n \in 1..MaxSize /\ Len(v) \in Nat /\ v[1] \in Byte
  <2>1. n \in 1..Len(v) /\ Len(v) \in Nat /\ v[1] \in Byte
    BY RunParts, TailParts
  <2> QED
    BY <2>1, MaxIsNat
<1>2. w \in Seq(Byte) /\ Len(w) = n /\ \A k \in 1..n : w[k] = v[k]
  BY <1>1, FrontParts
<1>3. h \in Seq(Byte) /\ Len(h) = 1 /\ h \o rest \in Seq(Byte) /\ (h \o rest)[1] = v[1]
  BY <1>1, OneMore
<1>4. <<>> \in Seq(Byte) /\ Len(<<>>) = 0
  BY NoBytes
<1>5. CASE v[1] # v[2]
  <2>1. CodedRun(v) = Var[n * 4 + 3] \o h
    BY <1>5 DEF CodedRun
  <2>2. Len(h) = Taken(3, n) /\ 3 \in 0..3
    BY <1>3 DEF Taken
  <2> HIDE DEF h, n
  <2>3. ReadRle[(Var[n * 4 + 3] \o h) \o rest] = Prepend(Piece(3, n, h \o rest), ReadRle[rest])
    BY <1>1, <1>3, <2>2, ReadPiece, Zenon
  <2>4. Piece(3, n, h \o rest) = [k \in 1..n |-> (v[1] + k - 1) % 256]
    BY <1>3 DEF Piece
  <2>5. \A k \in 1..n : w[k] = (v[1] + k - 1) % 256
    BY <1>2, <1>5, RunParts DEF n
  <2>6. w = [k \in 1..n |-> w[k]]
    BY <1>2, LenProperties
  <2>7. Piece(3, n, h \o rest) = w
    <3> HIDE DEF w
    <3> QED
      BY <2>4, <2>5, <2>6
  <2> QED
    BY <2>1, <2>3, <2>7 DEF n
<1>6. CASE v[1] = v[2]
  <2>1. \A k \in 1..n : w[k] = v[1]
    BY <1>2, <1>6, RunParts
  <2>2. w = [k \in 1..n |-> w[k]]
    BY <1>2, LenProperties
  <2>3. w = [k \in 1..n |-> v[1]]
    <3> HIDE DEF w
    <3> QED
      BY <2>1, <2>2
  <2>4. CASE v[1] = 0
    <3>1. CodedRun(v) = Var[n * 4 + 1]
      BY <1>6, <2>4 DEF CodedRun
    <3>2. Taken(1, n) = 0 /\ 1 \in 0..3
      BY DEF Taken
    <3> HIDE DEF n
    <3>3. ReadRle[(Var[n * 4 + 1] \o <<>>) \o rest] = Prepend(Piece(1, n, <<>> \o rest), ReadRle[rest])
      BY <1>1, <1>4, <3>2, ReadPiece, Zenon
    <3>4. Piece(1, n, <<>> \o rest) = [k \in 1..n |-> v[1]]
      BY <2>4 DEF Piece
    <3>5. Var[n * 4 + 1] \o <<>> = Var[n * 4 + 1]
      <4>1. n * 4 + 1 \in Nat
        BY <1>1
      <4> QED
        BY <4>1, VarStep, NoBytes
    <3> QED
      BY <2>3, <3>1, <3>3, <3>4, <3>5 DEF n
  <2>5. CASE v[1] # 0
    <3>1. CodedRun(v) = Var[n * 4 + 2] \o h
      BY <1>6, <2>5 DEF CodedRun
    <3>2. Len(h) = Taken(2, n) /\ 2 \in 0..3
      BY <1>3 DEF Taken
    <3> HIDE DEF n, h
    <3>3. ReadRle[(Var[n * 4 + 2] \o h) \o rest] = Prepend(Piece(2, n, h \o rest), ReadRle[rest])
      BY <1>1, <1>3, <3>2, ReadPiece, Zenon
    <3>4. Piece(2, n, h \o rest) = [k \in 1..n |-> v[1]]
      BY <1>3 DEF Piece
    <3> QED
      BY <2>3, <3>1, <3>3, <3>4 DEF n
  <2> QED
    BY <2>4, <2>5
<1> QED
  BY <1>5, <1>6

LEMMA ReadEnd ==
  ASSUME NEW rest \in Seq(Byte)
  PROVE  ReadRle[Var[0] \o rest] = [thrown |-> FALSE, bytes |-> <<>>, left |-> rest]
<1> DEFINE s == Var[0] \o rest
<1>1. s \in Seq(Byte) /\ HasVar(s) /\ ReadVar[s] = 0 /\ AfterVar(s) = rest
  BY VarRoundTrip
<1> HIDE DEF s
<1> QED
  BY <1>1, ReadRleStep DEF s

LEMMA Prefixed ==
  ASSUME NEW x, NEW t, NEW rest
  PROVE  LET got == [thrown |-> FALSE, bytes |-> t, left |-> rest]
         IN  Prepend(x, got) = [thrown |-> FALSE, bytes |-> x \o t, left |-> rest]
BY DEF Prepend

\* What write_rle made of v is read as v.
LEMMA RleReadBack ==
  ASSUME NEW rest \in Seq(Byte)
  PROVE  \A v \in Seq(Byte) : Len(v) <= MaxSize =>
            ReadRle[WriteRle[v] \o rest] = [thrown |-> FALSE, bytes |-> v, left |-> rest]
<1> DEFINE Got(v) == [thrown |-> FALSE, bytes |-> v, left |-> rest]
           S == {v \in Seq(Byte) : Len(v) <= MaxSize => ReadRle[WriteRle[v] \o rest] = Got(v)}
<1>1. ASSUME NEW v \in Seq(Byte), \A t \in Seq(Byte) : Len(t) < Len(v) => t \in S, Len(v) <= MaxSize
      PROVE  ReadRle[WriteRle[v] \o rest] = Got(v)
  <2>1. CASE v = <<>>
    <3>1. WriteRle[v] = Var[0]
      BY <2>1, WriteRleStep
    <3> QED
      BY <2>1, <3>1, ReadEnd
  <2>2. CASE v # <<>>
    <3> DEFINE n == RawSize(v)
               r == SubSeq(v, 1, n)
               w == From(v, n + 1)
               m == Run(w)
               x == SubSeq(w, 1, m)
               t == From(w, m + 1)
               tail == IF w = <<>> THEN Var[0] ELSE CodedRun(w) \o WriteRle[t]
    <3>1. WriteRle[v] = Raw(r) \o tail
      BY <2>2, WriteRleStep
    <3>2. n \in 0..Len(v) /\ Len(v) \in Nat /\ w \in Seq(Byte) /\ Len(w) = Len(v) - n /\ Len(w) <= Len(v)
          /\ (w # <<>> => m >= 2)
      BY <2>2, RawSizeParts
    <3> HIDE DEF n
    <3>3. r \in Seq(Byte) /\ Len(r) = n /\ v = r \o w
      BY <3>2, FrontParts
    <3> HIDE DEF w
    <3>4. tail \in Seq(Byte) /\ ReadRle[tail \o rest] = Got(w)
      <4>1. CASE w = <<>>
        <5>1. Var[0] \in Seq(Byte)
          BY VarStep
        <5> QED
          BY <4>1, <5>1, ReadEnd
      <4>2. CASE w # <<>>
        <5>1. m \in 1..Len(w) /\ m > 1 /\ m <= MaxSize /\ Len(w) \in Nat
          <6>1. m \in 1..Len(w) /\ Len(w) \in Nat
            BY <3>2, <4>2, RunParts
          <6> QED
            BY <1>1, <3>2, <4>2, <6>1, MaxIsNat
        <5>2. t \in Seq(Byte) /\ Len(t) < Len(w) /\ Len(t) \in Nat
          BY <3>2, <4>2, AfterRun
        <5>3. CodedRun(w) \in Seq(Byte) /\ WriteRle[t] \in Seq(Byte)
          BY <3>2, <4>2, <5>2, CodedRunType, WriteRleStep
        <5>4. Len(t) < Len(v) /\ Len(t) <= MaxSize
          BY <1>1, <3>2, <5>1, <5>2, MaxIsNat
        <5>5. ReadRle[WriteRle[t] \o rest] = Got(t)
          BY <1>1, <5>2, <5>4
        <5>6. x \in Seq(Byte) /\ w = x \o t
          <6>1. m \in 0..Len(w)
            BY <5>1
          <6> HIDE DEF m
          <6> QED
            BY <3>2, <6>1, FrontParts
        <5>7. WriteRle[t] \o rest \in Seq(Byte) /\ tail \o rest = CodedRun(w) \o (WriteRle[t] \o rest) /\ tail \in Seq(Byte)
          <6> DEFINE a == CodedRun(w)
                     b == WriteRle[t]
          <6>1. tail = a \o b
            BY <4>2
          <6> HIDE DEF a, b, t, tail
          <6>2. a \in Seq(Byte) /\ b \in Seq(Byte)
            BY <5>3 DEF a, b
          <6>3. tail \in Seq(Byte) /\ b \o rest \in Seq(Byte) /\ (a \o b) \o rest = a \o (b \o rest)
            BY <6>1, <6>2, Cat, Assoc
          <6> QED
            BY <6>1, <6>3 DEF a, b
        <5> HIDE DEF t, tail, x
        <5>8. ReadRle[CodedRun(w) \o (WriteRle[t] \o rest)] = Prepend(x, ReadRle[WriteRle[t] \o rest])
          BY <3>2, <4>2, <5>1, <5>7, ReadRun DEF x
        <5>9. Prepend(x, Got(t)) = Got(w)
          BY <5>6, Prefixed
        <5> QED
          BY <5>5, <5>7, <5>8, <5>9
      <4> QED
        BY <4>1, <4>2
    <3> HIDE DEF tail
    <3>5. CASE r = <<>>
      <4>1. Raw(r) = <<>> /\ v = w
        BY <3>2, <3>3, <3>5, RawType, NoBytes
      <4>2. WriteRle[v] = tail
        BY <3>1, <3>4, <4>1, NoBytes
      <4> QED
        BY <3>4, <4>1, <4>2
    <3>6. CASE r # <<>>
      <4>1. tail \o rest \in Seq(Byte) /\ Raw(r) \in Seq(Byte) /\ WriteRle[v] \o rest = Raw(r) \o (tail \o rest)
        <5>1. Raw(r) \in Seq(Byte)
          BY <3>3, RawType
        <5> QED
          BY <3>1, <3>4, <5>1, Cat, Assoc
      <4>2. Len(r) <= MaxSize
        BY <1>1, <3>2, <3>3, MaxIsNat
      <4> HIDE DEF r
      <4>3. ReadRle[Raw(r) \o (tail \o rest)] = Prepend(r, ReadRle[tail \o rest])
        BY <3>3, <3>6, <4>1, <4>2, ReadRaw
      <4>4. Prepend(r, Got(w)) = Got(v)
        BY <3>3, Prefixed
      <4> QED
        BY <3>4, <4>1, <4>3, <4>4
    <3> QED
      BY <3>5, <3>6
  <2> QED
    BY <2>1, <2>2
<1>2. \A v \in Seq(Byte) : (\A t \in Seq(Byte) : Len(t) < Len(v) => t \in S) => v \in S
  <2> HIDE DEF Got
  <2> QED
    BY <1>1
<1> HIDE DEF S
<1>3. \A v \in Seq(Byte) : v \in S
  BY <1>2, ByLength
<1> QED
  BY <1>3 DEF S

-----------------------------------------------------------------------------
(* How long it is. *)

LEMMA LimitIsNat == Limit \in Nat
BY DEF Limit

LEMMA LimitHalves == \A n \in Nat : n < 4 * Limit => n \div 128 < 128
BY DEF Limit

LEMMA VarShort == \A n \in Nat : ~(n > 127) => Var[n] = <<n>>
BY VarStep

LEMMA VarMore == \A n \in Nat : n > 127 => Var[n] = <<128 + (n % 128)>> \o Var[n \div 128]
BY VarStep

LEMMA VarType == \A n \in Nat : Var[n] \in Seq(Byte)
BY VarStep

LEMMA CatLength ==
  ASSUME NEW a \in Seq(Byte), NEW b \in Seq(Byte), NEW l \in Nat, NEW m \in Nat, Len(a) = l, Len(b) = m
  PROVE  a \o b \in Seq(Byte) /\ Len(a \o b) = l + m
BY Cat

LEMMA VarLength ==
  ASSUME NEW n \in Nat
  PROVE  \E l \in Nat : /\ Var[n] \in Seq(Byte) /\ Len(Var[n]) = l
                        /\ n < 128 => l = 1
                        /\ n < 4 * Limit => l <= 2
<1>1. ASSUME NEW m \in Nat, m < 128 PROVE Len(Var[m]) = 1
  <2>1. ~(m > 127)
    BY <1>1
  <2>2. Var[m] = <<m>>
    BY <2>1, VarShort
  <2> QED
    BY <2>2
<1>2. Var[n] \in Seq(Byte)
  BY VarType
<1>3. ASSUME n < 4 * Limit, ~(n < 128) PROVE Len(Var[n]) = 2
  <2> DEFINE b == 128 + (n % 128)
             m == n \div 128
             h == <<b>>
             x == Var[m]
  <2>1. b \in Byte /\ m \in Nat /\ m < 128 /\ n > 127
    BY <1>3, LimitHalves DEF Byte
  <2>2. Var[n] = h \o x
    BY <2>1, VarMore
  <2>3. x \in Seq(Byte) /\ Len(x) = 1
    BY <1>1, <2>1, VarType
  <2>4. h \in Seq(Byte) /\ Len(h) = 1
    BY <2>1
  <2> HIDE DEF h, x
  <2>5. Len(h \o x) = 1 + 1
    BY <2>3, <2>4, CatLength
  <2> QED
    BY <2>2, <2>5
<1> DEFINE x == Var[n]
<1>4. PICK l \in Nat : Len(x) = l
  BY <1>2, Nonempty
<1>5. n < 128 => Len(x) = 1
  BY <1>1
<1>6. n < 4 * Limit => (n < 128 \/ Len(x) = 2)
  BY <1>3
<1>7. x \in Seq(Byte)
  BY <1>2
<1> HIDE DEF x
<1>8. (n < 128 => l = 1) /\ (n < 4 * Limit => l <= 2)
  BY <1>4, <1>5, <1>6
<1> QED
  BY <1>4, <1>7, <1>8 DEF x

LEMMA PieceCost ==
  ASSUME NEW m \in Nat, m < 4 * Limit, NEW h \in Seq(Byte), Len(h) = 1
  PROVE  \E l \in Nat : Len(Var[m]) = l /\ Len(Var[m] \o h) = l + 1 /\ l <= 2 /\ (m < 128 => l = 1)
<1> DEFINE x == Var[m]
<1>0. x \in Seq(Byte)
  BY VarType
<1>3. Len(x \o h) = Len(x) + Len(h)
  <2> HIDE DEF x
  <2> QED
    BY <1>0, Cat, Zenon
<1>1. PICK l \in Nat : x \in Seq(Byte) /\ Len(x) = l /\ (m < 128 => l = 1) /\ (m < 4 * Limit => l <= 2)
  BY VarLength
<1>2. x \in Seq(Byte) /\ Len(x) = l
  BY <1>1
<1> HIDE DEF x
<1>4. Len(x \o h) = l + 1
  BY <1>2, <1>3
<1>5. l <= 2 /\ (m < 128 => l = 1)
  BY <1>1
<1> QED
  BY <1>2, <1>4, <1>5 DEF x

\* Coding a run costs no more than the run has bytes, and two less from four on.
LEMMA RunCost ==
  ASSUME NEW v \in Seq(Byte), v # <<>>, Run(v) >= 2, Run(v) < Limit
  PROVE  /\ Len(CodedRun(v)) <= Run(v)
         /\ Run(v) >= 4 => Len(CodedRun(v)) <= Run(v) - 2
<1> DEFINE h == <<v[1]>>
           Cost(m) == \E l \in Nat : (Len(CodedRun(v)) = l \/ Len(CodedRun(v)) = l + 1) /\ l <= 2 /\ (m < 128 => l = 1)
<1>1. PICK n \in Nat : n = Run(v) /\ n >= 2 /\ n < Limit
  BY RunParts
<1>2. h \in Seq(Byte) /\ Len(h) = 1
  BY TailParts
<1>3. ASSUME NEW m \in Nat, m < 4 * Limit, CodedRun(v) = Var[m] \/ CodedRun(v) = Var[m] \o h PROVE Cost(m)
  <2> HIDE DEF h
  <2>1. PICK l \in Nat : Len(Var[m]) = l /\ Len(Var[m] \o h) = l + 1 /\ l <= 2 /\ (m < 128 => l = 1)
    BY <1>2, <1>3, PieceCost
  <2> DEFINE c == CodedRun(v)
             x == Var[m]
             y == Var[m] \o h
  <2>2. c = x \/ c = y
    BY <1>3
  <2>3. Len(x) = l /\ Len(y) = l + 1
    BY <2>1
  <2> HIDE DEF c, x, y
  <2>4. Len(c) = l \/ Len(c) = l + 1
    BY <2>2, <2>3
  <2> QED
    BY <2>1, <2>4 DEF c
<1>4. CASE v[1] # v[2]
  <2>1. CodedRun(v) = Var[n * 4 + 3] \o h
    BY <1>1, <1>4 DEF CodedRun
  <2>2. PICK m \in Nat : m = n * 4 + 3 /\ m < 4 * Limit
    BY <1>1, LimitIsNat
  <2> HIDE DEF h, Cost
  <2>3. Cost(m)
    BY <1>3, <2>1, <2>2, Zenon
  <2> QED
    BY <1>1, <2>2, <2>3 DEF Cost
<1>5. CASE v[1] = v[2] /\ v[1] = 0
  <2>1. CodedRun(v) = Var[n * 4 + 1]
    BY <1>1, <1>5 DEF CodedRun
  <2>2. PICK m \in Nat : m = n * 4 + 1 /\ m < 4 * Limit
    BY <1>1, LimitIsNat
  <2> HIDE DEF h, Cost
  <2>3. Cost(m)
    BY <1>3, <2>1, <2>2, Zenon
  <2> QED
    BY <1>1, <2>2, <2>3 DEF Cost
<1>6. CASE v[1] = v[2] /\ v[1] # 0
  <2>1. CodedRun(v) = Var[n * 4 + 2] \o h
    BY <1>1, <1>6 DEF CodedRun
  <2>2. PICK m \in Nat : m = n * 4 + 2 /\ m < 4 * Limit
    BY <1>1, LimitIsNat
  <2> HIDE DEF h, Cost
  <2>3. Cost(m)
    BY <1>3, <2>1, <2>2, Zenon
  <2> QED
    BY <1>1, <2>2, <2>3 DEF Cost
<1> QED
  BY <1>4, <1>5, <1>6

LEMMA RawCost ==
  ASSUME NEW r \in Seq(Byte), Len(r) < Limit
  PROVE  Raw(r) \in Seq(Byte) /\ Len(Raw(r)) \in Nat /\ Len(Raw(r)) <= Len(r) + 2 /\ (r = <<>> => Len(Raw(r)) = 0)
<1>1. PICK l \in Nat : l = Len(r)
  BY Nonempty
<1> DEFINE x == Var[l * 4]
<1>2. l * 4 \in Nat /\ l * 4 < 4 * Limit
  BY <1>1, LimitIsNat
<1>3. PICK k \in Nat : x \in Seq(Byte) /\ Len(x) = k /\ k <= 2
  BY <1>2, VarLength
<1>4. Raw(r) \in Seq(Byte) /\ (r # <<>> => Raw(r) = x \o r) /\ (r = <<>> => Raw(r) = <<>>)
  BY <1>1, RawType
<1> HIDE DEF x
<1>5. Len(x \o r) = k + l
  BY <1>1, <1>3, CatLength
<1> QED
  BY <1>1, <1>3, <1>4, <1>5, NoBytes

LEMMA RleFits == \A v \in Seq(Byte) : Len(v) < Limit => Len(WriteRle[v]) <= Len(v) + 3
<1> DEFINE S == {v \in Seq(Byte) : Len(v) < Limit => Len(WriteRle[v]) <= Len(v) + 3}
<1>1. ASSUME NEW v \in Seq(Byte), \A t \in Seq(Byte) : Len(t) < Len(v) => t \in S, Len(v) < Limit
      PROVE  Len(WriteRle[v]) <= Len(v) + 3
  <2>0. Len(Var[0]) = 1 /\ Var[0] \in Seq(Byte) /\ Len(v) \in Nat
    <3>1. Var[0] = <<0>> /\ 0 \in Byte
      BY VarShort DEF Byte
    <3> QED
      BY <3>1, Nonempty
  <2>1. CASE v = <<>>
    <3>1. WriteRle[v] = Var[0]
      BY <2>1, WriteRleStep
    <3>2. Len(WriteRle[v]) = 1
      BY <2>0, <3>1, Zenon
    <3> QED
      BY <2>0, <3>2
  <2>2. CASE v # <<>>
    <3> DEFINE n == RawSize(v)
               r == SubSeq(v, 1, n)
               w == From(v, n + 1)
               m == Run(w)
               t == From(w, m + 1)
               tail == IF w = <<>> THEN Var[0] ELSE CodedRun(w) \o WriteRle[t]
    <3>1. WriteRle[v] = Raw(r) \o tail
      BY <2>2, WriteRleStep
    <3>2. /\ n \in 0..Len(v) /\ w \in Seq(Byte) /\ Len(w) = Len(v) - n
          /\ (w # <<>> => m >= 2 /\ (n > 0 => m >= 4))
      BY <2>2, RawSizeParts
    <3> HIDE DEF n
    <3>3. r \in Seq(Byte) /\ Len(r) = n
      BY <3>2, FrontParts
    <3>4. Len(Raw(r)) \in Nat /\ Raw(r) \in Seq(Byte) /\ Len(Raw(r)) <= n + 2 /\ (n = 0 => Len(Raw(r)) = 0)
      <4>1. Len(r) < Limit /\ (n = 0 => r = <<>>)
        BY <1>1, <2>0, <3>2, <3>3, Nonempty, LimitIsNat
      <4> HIDE DEF r
      <4> QED
        BY <3>3, <4>1, RawCost
    <3> HIDE DEF w, r
    <3>5. CASE w = <<>>
      <4>1. Len(WriteRle[v]) = Len(Raw(r)) + 1
        BY <2>0, <3>1, <3>4, <3>5, Cat
      <4>2. n = Len(v)
        BY <2>0, <3>2, <3>5, NoBytes
      <4> QED
        BY <2>0, <3>4, <4>1, <4>2
    <3>6. CASE w # <<>>
      <4>1. m \in 1..Len(w) /\ Len(w) \in Nat
        BY <3>2, <3>6, RunParts
      <4>2. t \in Seq(Byte) /\ Len(t) = Len(w) - m /\ Len(t) \in Nat /\ Len(t) < Len(w)
        BY <3>2, <3>6, AfterRun
      <4>3. CodedRun(w) \in Seq(Byte) /\ WriteRle[t] \in Seq(Byte)
        BY <3>2, <3>6, <4>2, CodedRunType, WriteRleStep
      <4>4. Len(CodedRun(w)) <= m /\ (m >= 4 => Len(CodedRun(w)) <= m - 2) /\ Len(CodedRun(w)) \in Nat
        <5>1. m < Limit
          BY <1>1, <2>0, <3>2, <4>1, LimitIsNat
        <5> QED
          BY <3>2, <3>6, <4>3, <5>1, RunCost, Nonempty
      <4>5. Len(WriteRle[t]) <= Len(t) + 3 /\ Len(WriteRle[t]) \in Nat
        <5>1. Len(t) < Len(v) /\ Len(t) < Limit
          BY <1>1, <2>0, <3>2, <4>1, <4>2, LimitIsNat
        <5>2. t \in S
          BY <1>1, <4>2, <5>1
        <5> QED
          BY <4>3, <5>1, <5>2, Nonempty
      <4> HIDE DEF t, S
      <4>6. tail = CodedRun(w) \o WriteRle[t]
        BY <3>6
      <4> HIDE DEF tail
      <4>7. tail \in Seq(Byte) /\ Len(tail) = Len(CodedRun(w)) + Len(WriteRle[t])
        BY <4>3, <4>6, Cat
      <4>8. Len(WriteRle[v]) = Len(Raw(r)) + Len(tail)
        BY <3>1, <3>4, <4>7, Cat
      <4> DEFINE a == Len(Raw(r))
                 b == Len(CodedRun(w))
                 c == Len(WriteRle[t])
      <4>9. /\ a \in Nat /\ b \in Nat /\ c \in Nat /\ a <= n + 2 /\ (n = 0 => a = 0) /\ b <= m
            /\ (n > 0 => b <= m - 2) /\ c <= Len(t) + 3 /\ Len(WriteRle[v]) = a + (b + c)
        BY <3>2, <3>4, <3>6, <4>4, <4>5, <4>7, <4>8
      <4> HIDE DEF a, b, c, m
      <4> QED
        BY <2>0, <3>2, <4>1, <4>2, <4>9
    <3> QED
      BY <3>5, <3>6
  <2> QED
    BY <2>1, <2>2
<1> HIDE DEF S
<1>2. \A v \in Seq(Byte) : v \in S
  <2>1. \A v \in Seq(Byte) : (\A t \in Seq(Byte) : Len(t) < Len(v) => t \in S) => v \in S
    BY <1>1 DEF S
  <2> QED
    BY <2>1, ByLength
<1> QED
  BY <1>2 DEF S

-----------------------------------------------------------------------------
(* Strings one behind the other. *)

Steps(T) == [Nat -> [T -> T]]
Unfolds(F, T, base, g) == F \in [Nat -> T] /\ F[0] = base /\ \A i \in Nat : F[i + 1] = g[i][F[i]]

\* A function on the numbers, defined from the value before.
LEMMA NatRecursion ==
  ASSUME NEW T, NEW base \in T, NEW g \in Steps(T)
  PROVE  \E F : Unfolds(F, T, base, g)
<1> DEFINE D == Nat
           size == [n \in D |-> n]
           Body(f, n) == IF n = 0 THEN base ELSE g[n - 1][f[n - 1]]
           H == [n \in D |-> [f \in [D -> T] |-> Body(f, n)]]
<1>1. H \in Local(D, T, size)
  <2>1. ASSUME NEW n \in D, NEW f \in [D -> T] PROVE Body(f, n) \in T
    <3>1. CASE n # 0
      <4>1. n - 1 \in Nat
        BY <3>1
      <4>2. f[n - 1] \in T
        BY <4>1
      <4>3. g[n - 1] \in [T -> T]
        BY <4>1 DEF Steps
      <4> QED
        BY <3>1, <4>2, <4>3
    <3> QED
      BY <3>1
  <2>2. ASSUME NEW n \in D, NEW f \in [D -> T], NEW h \in [D -> T],
               \A m \in D : size[m] < size[n] => f[m] = h[m]
        PROVE  Body(f, n) = Body(h, n)
    <3>1. n # 0 => n - 1 \in D /\ size[n - 1] < size[n]
      OBVIOUS
    <3> QED
      BY <2>2, <3>1
  <2> HIDE DEF Body, D
  <2> QED
    BY <2>1, <2>2 DEF Local
<1>2. T # {} /\ size \in [D -> Nat]
  OBVIOUS
<1>3. \A n \in D : \A f \in [D -> T] : H[n][f] = Body(f, n)
  OBVIOUS
<1> HIDE DEF H, size, D
<1>4. PICK F \in [D -> T] : \A n \in D : F[n] = H[n][F]
  BY <1>1, <1>2, Recursion
<1> HIDE DEF Body
<1>5. \A n \in D : F[n] = Body(F, n)
  BY <1>3, <1>4
<1>6. F \in [Nat -> T] /\ \A n \in Nat : F[n] = IF n = 0 THEN base ELSE g[n - 1][F[n - 1]]
  BY <1>5 DEF D, Body
<1>7. F[0] = base
  BY <1>6
<1>8. ASSUME NEW i \in Nat PROVE F[i + 1] = g[i][F[i]]
  <2>1. i + 1 \in Nat /\ i + 1 # 0 /\ i + 1 - 1 = i
    OBVIOUS
  <2> QED
    BY <1>6, <2>1
<1> QED
  BY <1>6, <1>7, <1>8 DEF Unfolds

\* FlattenSeq puts one string behind the other.
LEMMA Flattened ==
  ASSUME NEW n \in Nat, NEW q \in [1..n -> Seq(Byte)]
  PROVE  \E F \in [Nat -> Seq(Byte)] :
            /\ F[0] = <<>>
            /\ \A i \in 1..n : F[i] = F[i - 1] \o q[i]
            /\ FlattenSeq(q) = F[n]
<1> DEFINE T == Seq(Byte)
           next(i) == IF i + 1 \in 1..n THEN q[i + 1] ELSE <<>>
           g == [i \in Nat |-> [t \in T |-> t \o next(i)]]
<1>1. g \in Steps(T) /\ <<>> \in T
  <2>1. \A i \in Nat : next(i) \in T
    OBVIOUS
  <2> HIDE DEF next
  <2>2. \A i \in Nat : \A t \in T : t \o next(i) \in T
    BY <2>1, Cat
  <2> HIDE DEF T
  <2>3. g \in [Nat -> [T -> T]]
    BY <2>2
  <2> QED
    BY <2>3 DEF T, Steps
<1>2. \A i \in Nat : \A t \in T : g[i][t] = t \o next(i)
  OBVIOUS
<1> HIDE DEF g, T
<1>3. PICK F \in [Nat -> T] : F[0] = <<>> /\ \A i \in Nat : F[i + 1] = g[i][F[i]]
  <2> DEFINE e == <<>>
  <2>1. e \in T
    BY <1>1
  <2> HIDE DEF e
  <2>2. \E F : Unfolds(F, T, e, g)
    BY <1>1, <2>1, NatRecursion
  <2> QED
    BY <2>2 DEF Unfolds, e
<1>4. \A i \in 1..n : F[i] = F[i - 1] \o q[i]
  <2> SUFFICES ASSUME NEW i \in 1..n PROVE F[i] = F[i - 1] \o q[i]
    OBVIOUS
  <2>1. i - 1 \in Nat /\ i - 1 + 1 = i
    OBVIOUS
  <2>2. F[i] = g[i - 1][F[i - 1]]
    BY <1>3, <2>1
  <2>3. next(i - 1) = q[i]
    BY <2>1
  <2>4. F[i - 1] \in T
    BY <1>3, <2>1
  <2>5. g[i - 1][F[i - 1]] = F[i - 1] \o next(i - 1)
    BY <1>2, <2>1, <2>4
  <2> QED
    BY <2>2, <2>3, <2>5
<1>5. Len(q) = n
  BY LenProperties
<1>6. FlattenSeq(q) = F[n]
  <2>1. CASE n = 0
    <3>1. q = <<>>
      BY <2>1
    <3>2. FlattenSeq(q) = q
      BY <1>5, <2>1 DEF FlattenSeq
    <3> QED
      BY <1>3, <2>1, <3>1, <3>2
  <2>2. CASE n # 0
    <3> DEFINE G == [i \in 1..n |-> F[i]]
               flatten[i \in 1..n] == IF i = 1 THEN q[i] ELSE flatten[i - 1] \o q[i]
    <3>1. G = [i \in 1..n |-> IF i = 1 THEN q[i] ELSE G[i - 1] \o q[i]]
      <4>1. ASSUME NEW i \in 1..n PROVE F[i] = IF i = 1 THEN q[i] ELSE G[i - 1] \o q[i]
        <5>1. CASE i = 1
          <6>0. 1 \in 1..n /\ 1 - 1 = 0
            BY <5>1
          <6>1. F[1] = <<>> \o q[1] /\ q[1] \in Seq(Byte)
            BY <1>3, <1>4, <6>0
          <6> QED
            BY <5>1, <6>1, NoBytes
        <5>2. CASE i # 1
          <6>1. i - 1 \in 1..n
            BY <5>2
          <6>2. G[i - 1] = F[i - 1]
            BY <6>1
          <6> QED
            BY <1>4, <5>2, <6>2
        <5> QED
          BY <5>1, <5>2
      <4> QED
        BY <4>1
    <3>2. \E f : f = [i \in 1..n |-> IF i = 1 THEN q[i] ELSE f[i - 1] \o q[i]]
      <4> HIDE DEF G
      <4> QED
        BY <3>1
    <3>3. flatten = [i \in 1..n |-> IF i = 1 THEN q[i] ELSE flatten[i - 1] \o q[i]]
      BY <3>2 DEF flatten
    <3>4. FlattenSeq(q) = flatten[n]
      BY <1>5, <2>2 DEF FlattenSeq
    <3> HIDE DEF flatten
    <3> DEFINE S == {i \in Nat : i + 1 \in 1..n => flatten[i + 1] = F[i + 1]}
    <3>5. 0 \in S
      <4>0. 1 \in 1..n /\ 1 - 1 = 0 /\ 0 + 1 = 1
        BY <2>2
      <4>1. flatten[1] = q[1]
        BY <3>3, <4>0
      <4>2. F[1] = <<>> \o q[1] /\ q[1] \in Seq(Byte)
        BY <1>3, <1>4, <4>0
      <4>3. flatten[1] = F[1]
        BY <4>1, <4>2, NoBytes
      <4> QED
        BY <4>0, <4>3
    <3>6. \A i \in Nat : i \in S => i + 1 \in S
      <4> SUFFICES ASSUME NEW i \in Nat, i \in S, i + 1 + 1 \in 1..n PROVE flatten[i + 1 + 1] = F[i + 1 + 1]
        OBVIOUS
      <4>1. PICK j \in 1..n : j = i + 1 + 1 /\ j # 1 /\ j - 1 = i + 1 /\ j - 1 \in 1..n
        OBVIOUS
      <4>2. flatten[j] = flatten[j - 1] \o q[j]
        BY <3>3, <4>1
      <4>3. F[j] = F[j - 1] \o q[j]
        BY <1>4
      <4>4. flatten[j - 1] = F[j - 1]
        BY <4>1
      <4>5. flatten[j] = F[j]
        BY <4>2, <4>3, <4>4
      <4> QED
        BY <4>1, <4>5
    <3> HIDE DEF S
    <3>7. \A i \in Nat : i \in S
      BY <3>5, <3>6, Induction
    <3>8. n - 1 \in Nat /\ n - 1 + 1 = n /\ n \in 1..n
      BY <2>2
    <3>9. flatten[n] = F[n]
      BY <3>7, <3>8 DEF S
    <3> QED
      BY <3>4, <3>9
  <2> QED
    BY <2>1, <2>2
<1> QED
  BY <1>3, <1>4, <1>6 DEF T

-----------------------------------------------------------------------------
(* Histories by columns and by rows. *)

LEMMA Products ==
  \A a, b, m \in Nat : a * m \in Nat /\ (a <= b => a * m <= b * m) /\ (a + 1) * m = a * m + m /\ 0 * m = 0 /\ 1 * m = m
OBVIOUS

\* Where entry j of row i is, of rows of m entries.
LEMMA Place ==
  ASSUME NEW m \in Nat, NEW k \in Nat, NEW i \in 1..k, NEW j \in 1..m
  PROVE  (i - 1) * m + j \in 1..k * m
<1>1. PICK h \in Nat : h = i - 1 /\ h + 1 <= k
  OBVIOUS
<1>2. h + 1 \in Nat /\ h * m \in Nat /\ k * m \in Nat /\ (h + 1) * m = h * m + m
  BY <1>1, Products
<1>3. (h + 1) * m <= k * m
  BY <1>1, <1>2, Products
<1>4. PICK a \in Nat, b \in Nat : a = h * m /\ b = k * m
  BY <1>2
<1>5. a + m <= b
  BY <1>2, <1>3, <1>4
<1>6. a + j \in 1..b
  BY <1>5
<1> QED
  BY <1>1, <1>4, <1>6

LEMMA CatEntries ==
  ASSUME NEW a \in Seq(Byte), NEW b \in Seq(Byte)
  PROVE  /\ \A i \in 1..Len(a) : (a \o b)[i] = a[i]
         /\ \A j \in 1..Len(b) : (a \o b)[Len(a) + j] = b[j]
<1>1. /\ Len(a) \in Nat /\ Len(b) \in Nat
      /\ \A k \in 1..Len(a) + Len(b) : (a \o b)[k] = IF k <= Len(a) THEN a[k] ELSE b[k - Len(a)]
  BY ConcatProperties, LenProperties
<1>2. ASSUME NEW i \in 1..Len(a) PROVE (a \o b)[i] = a[i]
  BY <1>1
<1>3. ASSUME NEW j \in 1..Len(b) PROVE (a \o b)[Len(a) + j] = b[j]
  <2>1. PICK k \in 1..Len(a) + Len(b) : k = Len(a) + j /\ ~(k <= Len(a)) /\ k - Len(a) = j
    BY <1>1
  <2>2. (a \o b)[k] = b[k - Len(a)]
    BY <1>1, <2>1
  <2> QED
    BY <2>1, <2>2
<1> QED
  BY <1>2, <1>3

\* Rows of the same length, one behind the other.
LEMMA Rows ==
  ASSUME NEW n \in Nat, NEW m \in Nat, NEW q \in [1..n -> Seq(Byte)], \A i \in 1..n : Len(q[i]) = m
  PROVE  /\ FlattenSeq(q) \in Seq(Byte) /\ Len(FlattenSeq(q)) = n * m
         /\ \A i \in 1..n : \A j \in 1..m : FlattenSeq(q)[(i - 1) * m + j] = q[i][j]
<1>1. PICK F \in [Nat -> Seq(Byte)] :
         F[0] = <<>> /\ (\A i \in 1..n : F[i] = F[i - 1] \o q[i]) /\ FlattenSeq(q) = F[n]
  BY Flattened
<1> DEFINE Good(k) == Len(F[k]) = k * m /\ \A i \in 1..k : \A j \in 1..m : F[k][(i - 1) * m + j] = q[i][j]
           S == {k \in Nat : k <= n => Good(k)}
<1>2. 0 \in S
  <2>1. Len(F[0]) = 0 * m
    BY <1>1, NoBytes, Products
  <2>2. Good(0)
    BY <2>1
  <2> HIDE DEF Good
  <2> QED
    BY <2>2
<1>3. ASSUME NEW k \in Nat, Good(k), k + 1 <= n PROVE Good(k + 1)
  <2> DEFINE a == F[k]
             b == q[k + 1]
  <2>1. F[k + 1] = a \o b
    <3>1. PICK j \in 1..n : j = k + 1 /\ j - 1 = k
      BY <1>3
    <3>2. F[j] = F[j - 1] \o q[j]
      BY <1>1
    <3> QED
      BY <3>1, <3>2
  <2>2. a \in Seq(Byte) /\ b \in Seq(Byte) /\ Len(a) = k * m /\ Len(b) = m
    <3>1. k + 1 \in 1..n
      <4> HIDE DEF Good
      <4> QED
        BY <1>3
    <3> QED
      BY <1>3, <3>1
  <2>3. \A i \in 1..k : \A j \in 1..m : a[(i - 1) * m + j] = q[i][j]
    BY <1>3
  <2>4. PICK l \in Nat : l = k * m
    BY Products
  <2> HIDE DEF a, b
  <2>5. Len(a) = l
    BY <2>2, <2>4
  <2>6. Len(a \o b) = l + m
    BY <2>2, <2>5, Cat
  <2>7. \A i \in 1..l : (a \o b)[i] = a[i]
    BY <2>2, <2>5, CatEntries
  <2>8. \A j \in 1..m : (a \o b)[l + j] = b[j]
    BY <2>2, <2>5, CatEntries
  <2>9. Len(F[k + 1]) = (k + 1) * m
    <3>1. (k + 1) * m = k * m + m
      BY Products
    <3> QED
      BY <2>1, <2>4, <2>6, <3>1
  <2>10. ASSUME NEW i \in 1..k + 1, NEW j \in 1..m PROVE F[k + 1][(i - 1) * m + j] = q[i][j]
    <3>1. CASE i <= k
      <4>1. i \in 1..k
        BY <3>1
      <4>2. (i - 1) * m + j \in 1..l
        BY <2>4, <4>1, Place
      <4>3. (a \o b)[(i - 1) * m + j] = a[(i - 1) * m + j]
        BY <2>7, <4>2
      <4> QED
        BY <2>1, <2>3, <4>1, <4>3
    <3>2. CASE ~(i <= k)
      <4>1. i = k + 1 /\ i - 1 = k
        BY <3>2
      <4>2. (i - 1) * m + j = l + j
        BY <2>4, <4>1
      <4>3. (a \o b)[l + j] = q[i][j]
        BY <2>8, <4>1 DEF b
      <4> QED
        BY <2>1, <4>2, <4>3
    <3> QED
      BY <3>1, <3>2
  <2> QED
    BY <2>9, <2>10
<1> HIDE DEF Good
<1>4. \A k \in Nat : k \in S => k + 1 \in S
  <2> SUFFICES ASSUME NEW k \in Nat, k \in S, k + 1 <= n PROVE Good(k + 1)
    OBVIOUS
  <2>1. Good(k)
    OBVIOUS
  <2> QED
    BY <1>3, <2>1
<1>5. Good(n)
  <2> HIDE DEF S
  <2>1. \A k \in Nat : k \in S
    BY <1>2, <1>4, Induction
  <2> QED
    BY <2>1 DEF S
<1> QED
  BY <1>1, <1>5 DEF Good

LEMMA ColumnsParts ==
  ASSUME NEW h, IsHistory(h)
  PROVE  /\ Len(h) \in Nat /\ Columns(h) \in Seq(Byte) /\ Len(Columns(h)) = InputSize * Len(h)
         /\ \A b \in 1..InputSize : \A e \in 1..Len(h) : Columns(h)[(b - 1) * Len(h) + e] = h[e][b]
<1> DEFINE n == Len(h)
           row(b) == [e \in 1..n |-> h[e][b]]
           q == [b \in 1..InputSize |-> row(b)]
<1>1. n \in Nat /\ InputSize \in Nat
  BY LenProperties DEF IsHistory, InputSize
<1>2. ASSUME NEW b \in 1..InputSize PROVE row(b) \in Seq(Byte) /\ Len(row(b)) = n
  <2>1. \A e \in 1..n : h[e][b] \in Byte
    <3> SUFFICES ASSUME NEW e \in 1..n PROVE h[e][b] \in Byte
      OBVIOUS
    <3>1. h[e] \in Seq(Byte) /\ Len(h[e]) = InputSize
      BY ElementOfSeq DEF IsHistory
    <3> QED
      BY <3>1, ElementOfSeq
  <2> QED
    BY <1>1, <2>1, IsASeq
<1>3. q \in [1..InputSize -> Seq(Byte)] /\ \A b \in 1..InputSize : Len(q[b]) = n
  BY <1>2
<1>4. \A b \in 1..InputSize : \A e \in 1..n : q[b][e] = h[e][b]
  OBVIOUS
<1>5. Columns(h) = FlattenSeq(q)
  BY DEF Columns
<1> HIDE DEF q, n
<1>6. /\ FlattenSeq(q) \in Seq(Byte) /\ Len(FlattenSeq(q)) = InputSize * n
      /\ \A b \in 1..InputSize : \A e \in 1..n : FlattenSeq(q)[(b - 1) * n + e] = q[b][e]
  BY <1>1, <1>3, Rows
<1> QED
  BY <1>1, <1>4, <1>5, <1>6 DEF n

\* Transposed again, they are the inputs one after the other.
LEMMA TransposeParts ==
  ASSUME NEW n \in Nat, NEW src \in Seq(Byte), Len(src) = InputSize * n
  PROVE  LET t == Transpose(src, InputSize)
         IN  /\ t \in Seq(Byte) /\ Len(t) = n * InputSize
             /\ \A c \in 1..n : \A k \in 1..InputSize : t[(c - 1) * InputSize + k] = src[(k - 1) * n + c]
<1> DEFINE rows(c) == (Len(src) - c) \div n + 1
           row(c) == [k \in 1..rows(c) |-> src[c + (k - 1) * n]]
           q == [c \in 1..n |-> row(c)]
<1>1. Len(src) \div InputSize = n /\ InputSize \in Nat
  <2>1. (18 * n) \div 18 = n
    OBVIOUS
  <2> QED
    BY <2>1 DEF InputSize
<1>2. \A c \in 1..n : rows(c) = InputSize
  <2> SUFFICES ASSUME NEW c \in 1..n PROVE (18 * n - c) \div n = 17
    BY DEF InputSize
  <2>1. n \in Nat /\ n > 0 /\ c \in Nat /\ c >= 1 /\ c <= n
    OBVIOUS
  <2>2. PICK r \in 0..n - 1 : r = n - c
    BY <2>1
  <2>3. 18 * n - c = 17 * n + r
    BY <2>1, <2>2
  <2>4. (17 * n + r) \div n = 17
    BY <2>1, <2>2
  <2> QED
    BY <2>3, <2>4
<1>3. ASSUME NEW c \in 1..n, NEW k \in 1..InputSize
      PROVE  c + (k - 1) * n \in 1..Len(src) /\ c + (k - 1) * n = (k - 1) * n + c
  <2>1. (k - 1) * n + c \in 1..InputSize * n
    BY <1>1, Place
  <2>2. PICK l \in Nat : l = (k - 1) * n
    <3>1. PICK h \in Nat : h = k - 1
      BY <1>1
    <3> QED
      BY <3>1, Products
  <2>3. c + l = l + c
    OBVIOUS
  <2> QED
    BY <2>1, <2>2, <2>3
<1>4. ASSUME NEW c \in 1..n
      PROVE  /\ row(c) \in Seq(Byte) /\ Len(row(c)) = InputSize
             /\ \A k \in 1..InputSize : row(c)[k] = src[(k - 1) * n + c]
  <2> DEFINE r == [k \in 1..InputSize |-> src[(k - 1) * n + c]]
  <2>1. row(c) = r
    BY <1>2, <1>3
  <2>2. \A k \in 1..InputSize : src[(k - 1) * n + c] \in Byte
    BY <1>3, ElementOfSeq
  <2>3. r \in Seq(Byte)
    BY <1>1, <2>2, IsASeq
  <2>4. Len(r) = InputSize
    BY <1>1
  <2> QED
    BY <2>1, <2>3, <2>4
<1>5. Transpose(src, InputSize) = FlattenSeq(q)
  BY <1>1 DEF Transpose
<1>6. q \in [1..n -> Seq(Byte)] /\ \A c \in 1..n : q[c] = row(c)
  <2> HIDE DEF row
  <2> QED
    BY <1>4
<1> HIDE DEF q, row
<1>7. \A c \in 1..n : Len(q[c]) = InputSize
  BY <1>4, <1>6
<1>8. /\ FlattenSeq(q) \in Seq(Byte) /\ Len(FlattenSeq(q)) = n * InputSize
      /\ \A i \in 1..n : \A j \in 1..InputSize : FlattenSeq(q)[(i - 1) * InputSize + j] = q[i][j]
  BY <1>1, <1>6, <1>7, Rows
<1> QED
  BY <1>4, <1>5, <1>6, <1>8

-----------------------------------------------------------------------------
(* INPUT_DATA packets. *)

LEMMA Middle ==
  ASSUME NEW t \in Seq(Byte), NEW l \in Nat, NEW w \in Nat, w >= 1, l + w <= Len(t)
  PROVE  LET u == SubSeq(t, l + 1, l + w)
         IN  u \in Seq(Byte) /\ Len(u) = w /\ \A k \in 1..w : u[k] = t[l + k]
<1>1. PICK a \in Int, b \in Int : a = l + 1 /\ b = l + w
  OBVIOUS
<1>2. Len(t) \in Nat /\ a >= 1 /\ b <= Len(t) /\ a <= b /\ b - a + 1 = w
  BY <1>1, LenProperties
<1>3. \A i \in a..b : t[i] \in Byte
  BY <1>2, ElementOfSeq
<1>4. /\ SubSeq(t, a, b) \in Seq(Byte) /\ Len(SubSeq(t, a, b)) = IF a <= b THEN b - a + 1 ELSE 0
      /\ \A i \in 1..b - a + 1 : SubSeq(t, a, b)[i] = t[a + i - 1]
  BY <1>3, SubSeqProperties
<1>5. \A k \in 1..w : a + k - 1 = l + k
  BY <1>1
<1>6. \A k \in 1..w : SubSeq(t, a, b)[k] = t[l + k]
  BY <1>2, <1>4, <1>5
<1> QED
  BY <1>1, <1>2, <1>4, <1>6

LEMMA HistoryBack ==
  ASSUME NEW h, IsHistory(h)
  PROVE  LET t == Transpose(Columns(h), InputSize)
         IN  [e \in 1..(Len(t) \div InputSize) |-> SubSeq(t, (e - 1) * InputSize + 1, e * InputSize)] = h
<1> DEFINE n == Len(h)
           src == Columns(h)
           t == Transpose(src, InputSize)
<1>1. /\ n \in Nat /\ src \in Seq(Byte) /\ Len(src) = InputSize * n
      /\ \A b \in 1..InputSize : \A e \in 1..n : src[(b - 1) * n + e] = h[e][b]
  BY ColumnsParts
<1>2. h \in Seq(Seq(Byte)) /\ \A e \in 1..n : h[e] \in Seq(Byte) /\ Len(h[e]) = InputSize
  BY ElementOfSeq DEF IsHistory
<1> HIDE DEF n, src
<1>3. /\ t \in Seq(Byte) /\ Len(t) = n * InputSize
      /\ \A c \in 1..n : \A k \in 1..InputSize : t[(c - 1) * InputSize + k] = src[(k - 1) * n + c]
  BY <1>1, TransposeParts
<1> HIDE DEF t
<1>4. Len(t) \div InputSize = n
  <2>1. (n * 18) \div 18 = n
    BY <1>1
  <2> QED
    BY <1>3, <2>1 DEF InputSize
<1>5. ASSUME NEW e \in 1..n
      PROVE  SubSeq(t, (e - 1) * InputSize + 1, e * InputSize) = h[e]
  <2>1. InputSize \in Nat /\ InputSize >= 1
    BY DEF InputSize
  <2>2. PICK d \in Nat : d = e - 1
    BY <1>1
  <2>3. PICK l \in Nat : l = d * InputSize
    BY <2>1, <2>2, Products
  <2>4. e * InputSize = l + InputSize
    <3>1. e = d + 1
      BY <1>1, <2>2
    <3> QED
      BY <2>1, <2>3, <3>1, Products
  <2>5. \A k \in 1..InputSize : l + k \in 1..Len(t)
    <3>1. \A k \in 1..InputSize : (e - 1) * InputSize + k \in 1..n * InputSize
      BY <1>1, <2>1, Place
    <3> QED
      BY <1>3, <2>2, <2>3, <3>1
  <2>6. \A k \in 1..InputSize : t[l + k] = h[e][k]
    <3> SUFFICES ASSUME NEW k \in 1..InputSize PROVE t[l + k] = h[e][k]
      OBVIOUS
    <3>1. t[(e - 1) * InputSize + k] = src[(k - 1) * n + e]
      BY <1>3
    <3>2. src[(k - 1) * n + e] = h[e][k]
      BY <1>1
    <3> QED
      BY <2>2, <2>3, <3>1, <3>2
  <2> DEFINE u == SubSeq(t, l + 1, l + InputSize)
  <2>7. u \in Seq(Byte) /\ Len(u) = InputSize /\ \A k \in 1..InputSize : u[k] = t[l + k]
    <3>1. l + InputSize <= Len(t)
      <4>1. InputSize \in 1..InputSize
        BY <2>1
      <4> QED
        BY <2>5, <4>1
    <3> HIDE DEF u
    <3> QED
      BY <1>3, <2>1, <3>1, Middle DEF u
  <2> HIDE DEF u
  <2>8. u = h[e]
    <3>1. h[e] \in Seq(Byte) /\ Len(h[e]) = InputSize
      BY <1>2
    <3>2. \A k \in 1..Len(u) : u[k] = h[e][k]
      BY <2>6, <2>7
    <3> QED
      BY <2>7, <3>1, <3>2, SeqEqual
  <2> QED
    BY <2>2, <2>3, <2>4, <2>8 DEF u
<1>6. [e \in 1..n |-> SubSeq(t, (e - 1) * InputSize + 1, e * InputSize)] = h
  <2>1. h = [e \in 1..n |-> h[e]]
    BY <1>2, SeqDef DEF n
  <2>2. [e \in 1..n |-> SubSeq(t, (e - 1) * InputSize + 1, e * InputSize)] = [e \in 1..n |-> h[e]]
    BY <1>5
  <2> QED
    BY <2>1, <2>2
<1> QED
  BY <1>4, <1>6 DEF t, src

\* The packet of a message is read as that message.
LEMMA MessageBack ==
  ASSUME NEW m, IsMessage(m)
  PROVE  InputData(m) \in Seq(Byte) /\ ReadInputData(InputData(m)) = m
<1> DEFINE head == <<INPUT_DATA>>
           user == Var[m.user]
           first == Var[m.first]
           src == Columns(m.history)
           coded == WriteRle[src]
           rest == first \o coded
           p == InputData(m)
<1>1. m.user \in Nat /\ m.first \in Nat /\ IsHistory(m.history) /\ InputSize * Len(m.history) < Limit
  BY DEF IsMessage
<1>2. src \in Seq(Byte) /\ Len(src) = InputSize * Len(m.history)
  BY <1>1, ColumnsParts
<1>3. Len(src) <= MaxSize
  <2>1. Len(src) < Limit /\ Len(src) \in Nat
    BY <1>1, <1>2, LenProperties
  <2> HIDE DEF src
  <2>2. Limit <= MaxSize
    BY DEF Limit, MaxSize
  <2> QED
    BY <2>1, <2>2, LimitIsNat, MaxIsNat
<1> HIDE DEF src
<1>4. head \in Seq(Byte) /\ user \in Seq(Byte) /\ first \in Seq(Byte) /\ coded \in Seq(Byte)
  <2>1. INPUT_DATA \in Byte
    BY DEF INPUT_DATA, Byte
  <2> QED
    BY <1>1, <1>2, <2>1, VarType, WriteRleStep
<1>5. rest \in Seq(Byte) /\ user \o rest \in Seq(Byte)
  <2> HIDE DEF first, user, coded
  <2> QED
    BY <1>4, ConcatProperties
<1>6. p = head \o (user \o rest) /\ p \in Seq(Byte) /\ Tail(p) = user \o rest
  <2>1. p = ((head \o user) \o first) \o coded
    BY DEF InputData, src
  <2>2. head \o (user \o rest) \in Seq(Byte) /\ Tail(head \o (user \o rest)) = user \o rest
    <3>1. INPUT_DATA \in Byte
      BY DEF INPUT_DATA, Byte
    <3> HIDE DEF user, rest
    <3> QED
      BY <1>5, <3>1, OneMore
  <2> HIDE DEF p, user, first, coded, head
  <2>3. ((head \o user) \o first) \o coded = head \o (user \o (first \o coded))
    <3>1. head \in Seq(Byte) /\ user \in Seq(Byte) /\ first \in Seq(Byte) /\ coded \in Seq(Byte)
      BY <1>4
    <3> HIDE DEF rest
    <3>2. ((head \o user) \o first) \o coded = (head \o user) \o (first \o coded)
      BY <3>1, Cat, Assoc
    <3>3. PICK r \in Seq(Byte) : r = first \o coded
      BY <3>1, Cat
    <3>4. (head \o user) \o r = head \o (user \o r)
      BY <3>1, Assoc
    <3> QED
      BY <3>2, <3>3, <3>4
  <2> QED
    BY <2>1, <2>2, <2>3
<1>7. ReadVar[user \o rest] = m.user /\ AfterVar(user \o rest) = rest
  <2> HIDE DEF rest
  <2> QED
    BY <1>1, <1>5, VarRoundTrip
<1>8. ReadVar[rest] = m.first /\ AfterVar(rest) = coded
  <2> HIDE DEF coded
  <2> QED
    BY <1>1, <1>4, VarRoundTrip
<1>9. ReadRle[coded].bytes = src
  <2>1. <<>> \in Seq(Byte) /\ coded \o <<>> = coded
    BY <1>4, NoBytes
  <2>2. ReadRle[WriteRle[src] \o <<>>] = [thrown |-> FALSE, bytes |-> src, left |-> <<>>]
    BY <1>2, <1>3, <2>1, RleReadBack
  <2> QED
    BY <2>1, <2>2
<1>10. LET t == Transpose(src, InputSize)
       IN  [e \in 1..(Len(t) \div InputSize) |-> SubSeq(t, (e - 1) * InputSize + 1, e * InputSize)] = m.history
  BY <1>1, HistoryBack DEF src
<1>11. ReadInputData(p) = [user |-> m.user, first |-> m.first, history |-> m.history]
  <2> HIDE DEF p, user, rest, coded
  <2> QED
    BY <1>6, <1>7, <1>8, <1>9, <1>10 DEF ReadInputData
<1> QED
  BY <1>6, <1>11 DEF IsMessage

-----------------------------------------------------------------------------
(* Datagrams. *)

\* Whether a packet can be taken from the front of a datagram.
Fits(s) == HasVar(s) /\ ~(ReadVar[s] > MaxSize) /\ ~(ReadVar[s] > Len(AfterVar(s)))

LEMMA FitsParts ==
  ASSUME NEW s \in Seq(Byte), Fits(s)
  PROVE  /\ ReadVar[s] \in 0..Len(AfterVar(s))
         /\ From(AfterVar(s), ReadVar[s] + 1) \in Seq(Byte) /\ Len(From(AfterVar(s), ReadVar[s] + 1)) < Len(s)
         /\ SubSeq(AfterVar(s), 1, ReadVar[s]) \in Seq(Byte)
<1>1. /\ AfterVar(s) \in Seq(Byte) /\ Len(AfterVar(s)) < Len(s) /\ Len(AfterVar(s)) \in Nat /\ Len(s) \in Nat
  BY AfterVarParts DEF Fits
<1>2. ReadVar[s] \in Nat
  BY ReadVarStep
<1> DEFINE t == AfterVar(s)
<1> HIDE DEF t
<1>3. PICK n \in Nat : n = ReadVar[s]
  BY <1>2
<1>4. t \in Seq(Byte) /\ Len(t) < Len(s) /\ Len(t) \in Nat /\ n \in 0..Len(t)
  BY <1>1, <1>3 DEF Fits, t
<1>5. n + 1 \in 1..Len(t) + 1
  BY <1>4
<1>6. From(t, n + 1) \in Seq(Byte) /\ Len(From(t, n + 1)) = Len(t) - (n + 1) + 1
  BY <1>4, <1>5, FromParts
<1>7. SubSeq(t, 1, n) \in Seq(Byte)
  BY <1>4, FrontParts
<1>8. Len(From(t, n + 1)) < Len(s)
  BY <1>1, <1>4, <1>6
<1> QED
  BY <1>3, <1>4, <1>6, <1>7, <1>8 DEF t

LEMMA ReadPacketsStep ==
  /\ ReadPackets \in [Seq(Byte) -> Seq(Seq(Byte))]
  /\ \A s \in Seq(Byte) : ReadPackets[s] = IF ~HasVar(s) \/ ReadVar[s] > MaxSize \/ ReadVar[s] > Len(AfterVar(s)) THEN <<>>
            ELSE (IF ReadVar[s] = 0 THEN <<>> ELSE <<SubSeq(AfterVar(s), 1, ReadVar[s])>>)
                 \o ReadPackets[From(AfterVar(s), ReadVar[s] + 1)]
<1> DEFINE T == Seq(Seq(Byte))
           Body(f, s) == IF ~HasVar(s) \/ ReadVar[s] > MaxSize \/ ReadVar[s] > Len(AfterVar(s)) THEN <<>>
            ELSE (IF ReadVar[s] = 0 THEN <<>> ELSE <<SubSeq(AfterVar(s), 1, ReadVar[s])>>)
                 \o f[From(AfterVar(s), ReadVar[s] + 1)]
           H == [s \in Seq(Byte) |-> [f \in [Seq(Byte) -> T] |-> Body(f, s)]]
<1>1. T # {}
  <2>1. <<>> \in T
    OBVIOUS
  <2> QED
    BY <2>1
<1>2. ASSUME NEW s \in Seq(Byte), NEW f, \A t \in Seq(Byte) : Len(t) < Len(s) => f[t] \in T
      PROVE  Body(f, s) \in T
  <2>1. CASE Fits(s)
    <3>1. /\ From(AfterVar(s), ReadVar[s] + 1) \in Seq(Byte) /\ Len(From(AfterVar(s), ReadVar[s] + 1)) < Len(s)
          /\ SubSeq(AfterVar(s), 1, ReadVar[s]) \in Seq(Byte)
      BY <2>1, FitsParts
    <3> DEFINE a == IF ReadVar[s] = 0 THEN <<>> ELSE <<SubSeq(AfterVar(s), 1, ReadVar[s])>>
               b == f[From(AfterVar(s), ReadVar[s] + 1)]
    <3>2. a \in Seq(Seq(Byte)) /\ b \in Seq(Seq(Byte))
      <4> DEFINE e == SubSeq(AfterVar(s), 1, ReadVar[s])
                 D == Seq(Byte)
      <4>1. e \in D /\ b \in Seq(D)
        BY <1>2, <3>1
      <4> HIDE DEF e, D, b
      <4>2. <<e>> \in Seq(D) /\ <<>> \in Seq(D)
        BY <4>1
      <4> QED
        BY <4>1, <4>2 DEF e, D
    <3>3. Body(f, s) = a \o b
      BY <2>1 DEF Fits
    <3> HIDE DEF a, b, Body
    <3>4. a \o b \in Seq(Seq(Byte))
      <4> DEFINE D == Seq(Byte)
      <4>1. a \in Seq(D) /\ b \in Seq(D)
        BY <3>2
      <4> HIDE DEF D
      <4>2. a \o b \in Seq(D)
        BY <4>1, ConcatProperties
      <4> QED
        BY <4>2 DEF D
    <3> QED
      BY <3>3, <3>4
  <2>2. CASE ~Fits(s)
    BY <2>2 DEF Fits
  <2> QED
    BY <2>1, <2>2
<1>3. ASSUME NEW s \in Seq(Byte), NEW f, NEW g, \A t \in Seq(Byte) : Len(t) < Len(s) => f[t] = g[t]
      PROVE  Body(f, s) = Body(g, s)
  <2>1. CASE Fits(s)
    <3>1. f[From(AfterVar(s), ReadVar[s] + 1)] = g[From(AfterVar(s), ReadVar[s] + 1)]
      BY <1>3, <2>1, FitsParts
    <3> QED
      BY <3>1
  <2>2. CASE ~Fits(s)
    BY <2>2 DEF Fits
  <2> QED
    BY <2>1, <2>2
<1> HIDE DEF Body, T
<1>4. H \in Local(Seq(Byte), T, Lens)
  <2>1. \A s \in Seq(Byte) : \A f \in [Seq(Byte) -> T] : Body(f, s) \in T
    BY <1>2
  <2>2. \A s \in Seq(Byte) : \A f, g \in [Seq(Byte) -> T] :
          (\A t \in Seq(Byte) : Lens[t] < Lens[s] => f[t] = g[t]) => Body(f, s) = Body(g, s)
    BY <1>3, LensType
  <2> QED
    BY <2>1, <2>2 DEF Local
<1>5. \A s \in Seq(Byte) : \A f \in [Seq(Byte) -> T] : H[s][f] = Body(f, s)
  OBVIOUS
<1> HIDE DEF H
<1>6. PICK F \in [Seq(Byte) -> T] : \A s \in Seq(Byte) : F[s] = H[s][F]
  BY <1>1, <1>4, StringRecursion
<1>7. F = [s \in Seq(Byte) |-> Body(F, s)]
  BY <1>5, <1>6
<1>8. \E f : f = [s \in Seq(Byte) |-> Body(f, s)]
  BY <1>7
<1>9. ReadPackets = [s \in Seq(Byte) |-> Body(ReadPackets, s)]
  BY <1>8 DEF ReadPackets, Body
<1> DEFINE S == {s \in Seq(Byte) : ReadPackets[s] \in T}
<1>10. \A s \in Seq(Byte) : s \in S
  <2>1. ASSUME NEW s \in Seq(Byte), \A t \in Seq(Byte) : Len(t) < Len(s) => t \in S PROVE s \in S
    <3>1. \A t \in Seq(Byte) : Len(t) < Len(s) => ReadPackets[t] \in T
      BY <2>1
    <3> QED
      BY <1>2, <1>9, <3>1
  <2> HIDE DEF S
  <2> QED
    BY <2>1, ByLength
<1>11. ReadPackets \in [Seq(Byte) -> T] /\ \A s \in Seq(Byte) : ReadPackets[s] = Body(ReadPackets, s)
  BY <1>9, <1>10
<1> QED
  BY <1>11 DEF Body, T

\* One packet at the front of a datagram is taken as it was written.
LEMMA ReadPacket ==
  ASSUME NEW p \in Seq(Byte), p # <<>>, Len(p) <= MaxSize, NEW rest \in Seq(Byte)
  PROVE  /\ WritePacket(p) \in Seq(Byte)
         /\ ReadPackets[WritePacket(p) \o rest] = <<p>> \o ReadPackets[rest]
<1> DEFINE n == Len(p)
           t == p \o rest
           s == WritePacket(p) \o rest
<1>1. n \in Nat /\ n # 0 /\ t \in Seq(Byte) /\ Len(t) = n + Len(rest) /\ Len(rest) \in Nat /\ Var[n] \in Seq(Byte)
  <2>1. n \in Nat /\ n > 0
    BY Nonempty
  <2>2. t \in Seq(Byte) /\ Len(t) = n + Len(rest) /\ Len(rest) \in Nat
    BY Cat
  <2>3. Var[n] \in Seq(Byte)
    BY <2>1, VarType
  <2> QED
    BY <2>1, <2>2, <2>3
<1>2. SubSeq(t, 1, n) = p /\ From(t, n + 1) = rest
  BY FrontConcat, FromConcat
<1>3. WritePacket(p) = Var[n] \o p
  BY DEF WritePacket
<1>4. WritePacket(p) \in Seq(Byte) /\ s = Var[n] \o t
  <2> DEFINE x == Var[n]
  <2>1. x \in Seq(Byte) /\ WritePacket(p) = x \o p
    BY <1>1, <1>3
  <2> HIDE DEF x, n
  <2>2. x \o p \in Seq(Byte) /\ (x \o p) \o rest = x \o (p \o rest)
    BY <2>1, Cat, Assoc
  <2> QED
    BY <2>1, <2>2 DEF x
<1> HIDE DEF n, t, s
<1>5. s \in Seq(Byte) /\ HasVar(s) /\ ReadVar[s] = n /\ AfterVar(s) = t
  BY <1>1, <1>4, VarRoundTrip
<1>6. ~(n > MaxSize) /\ ~(n > Len(t))
  BY <1>1, MaxIsNat DEF n
<1>7. ReadPackets[s] = <<SubSeq(t, 1, n)>> \o ReadPackets[From(t, n + 1)]
  <2>1. ReadPackets[s] = IF ~HasVar(s) \/ ReadVar[s] > MaxSize \/ ReadVar[s] > Len(AfterVar(s)) THEN <<>>
            ELSE (IF ReadVar[s] = 0 THEN <<>> ELSE <<SubSeq(AfterVar(s), 1, ReadVar[s])>>)
                 \o ReadPackets[From(AfterVar(s), ReadVar[s] + 1)]
    BY <1>5, ReadPacketsStep
  <2> QED
    BY <1>1, <1>5, <1>6, <2>1
<1> QED
  BY <1>2, <1>4, <1>7 DEF s

LEMMA OneBehind ==
  ASSUME NEW D, NEW w \in Seq(D), NEW x \in Seq(D), NEW k \in Nat, Len(w) = k, Len(x) = k + 1,
         \A i \in 1..k : x[i] = w[i]
  PROVE  w \o <<x[k + 1]>> = x
<1> DEFINE g == <<x[k + 1]>>
<1>1. g \in Seq(D) /\ Len(g) = 1 /\ g[1] = x[k + 1]
  BY ElementOfSeq
<1> HIDE DEF g
<1>2. /\ w \o g \in Seq(D) /\ Len(w \o g) = Len(w) + Len(g)
      /\ \A i \in 1..Len(w) + Len(g) : (w \o g)[i] = IF i <= Len(w) THEN w[i] ELSE g[i - Len(w)]
  BY <1>1, ConcatProperties
<1>3. \A i \in 1..k + 1 : (w \o g)[i] = x[i]
  <2> SUFFICES ASSUME NEW i \in 1..k + 1 PROVE (w \o g)[i] = x[i]
    OBVIOUS
  <2>1. (w \o g)[i] = IF i <= k THEN w[i] ELSE g[i - k]
    BY <1>1, <1>2
  <2>2. CASE i <= k
    <3>1. i \in 1..k
      BY <2>2
    <3> QED
      BY <2>1, <2>2, <3>1
  <2>3. CASE ~(i <= k)
    <3>1. i = k + 1 /\ i - k = 1
      BY <2>3
    <3> QED
      BY <1>1, <2>1, <2>3, <3>1
  <2> QED
    BY <2>2, <2>3
<1>4. Len(w \o g) = k + 1
  BY <1>1, <1>2
<1>5. w \o g = x
  BY <1>2, <1>3, <1>4, SeqEqual
<1> QED
  BY <1>5 DEF g

\* F[i] is what the first i of the n strings of q make one behind the other.
Adds(F, n, q) ==
  /\ F \in [Nat -> Seq(Byte)] /\ F[0] = <<>> /\ \A i \in 1..n : F[i] = F[i - 1] \o q[i]
  /\ FlattenSeq(q) = F[n]

\* The packets of a datagram are read as they were written, in their order.
LEMMA PacketsBack ==
  ASSUME NEW n \in Nat, NEW p \in [1..n -> Seq(Byte)],
         \A i \in 1..n : p[i] # <<>> /\ Len(p[i]) <= MaxSize
  PROVE  ReadPackets[FlattenSeq([i \in 1..n |-> WritePacket(p[i])])] = p
<1> DEFINE q == [i \in 1..n |-> WritePacket(p[i])]
           D == Seq(Byte)
           front(k) == [i \in 1..k |-> p[i]]
<1>1. q \in [1..n -> Seq(Byte)] /\ \A i \in 1..n : q[i] = WritePacket(p[i])
  <2>1. \A i \in 1..n : WritePacket(p[i]) \in Seq(Byte)
    <3> SUFFICES ASSUME NEW i \in 1..n PROVE WritePacket(p[i]) \in Seq(Byte)
      OBVIOUS
    <3>1. p[i] \in Seq(Byte) /\ p[i] # <<>> /\ Len(p[i]) <= MaxSize /\ <<>> \in Seq(Byte)
      OBVIOUS
    <3> QED
      BY <3>1, ReadPacket
  <2> QED
    BY <2>1
<1> HIDE DEF q
<1>0. PICK F : Adds(F, n, q)
  BY <1>1, Flattened DEF Adds
<1>2. /\ F[0] = <<>> /\ (\A i \in 1..n : F[i] = F[i - 1] \o q[i]) /\ FlattenSeq(q) = F[n]
      /\ \A i \in Nat : F[i] \in Seq(Byte)
  BY <1>0 DEF Adds
<1> DEFINE Good(k) == \A rest \in Seq(Byte) : ReadPackets[F[k] \o rest] = front(k) \o ReadPackets[rest]
           S == {k \in Nat : k <= n => Good(k)}
<1>3. \A rest \in Seq(Byte) : ReadPackets[rest] \in Seq(D)
  BY ReadPacketsStep
<1>4. \A k \in Nat : k <= n => front(k) \in Seq(D)
  <2> SUFFICES ASSUME NEW k \in Nat, k <= n PROVE front(k) \in Seq(D)
    OBVIOUS
  <2>1. \A i \in 1..k : p[i] \in D
    OBVIOUS
  <2> HIDE DEF D
  <2> QED
    BY <2>1, IsASeq
<1>5. Good(0)
  <2> SUFFICES ASSUME NEW rest \in Seq(Byte) PROVE ReadPackets[F[0] \o rest] = front(0) \o ReadPackets[rest]
    OBVIOUS
  <2>1. F[0] \o rest = rest
    BY <1>2, NoBytes
  <2> DEFINE r == ReadPackets[rest]
  <2>2. r \in Seq(D)
    BY <1>3
  <2> HIDE DEF r, D
  <2>3. front(0) = <<>>
    OBVIOUS
  <2>4. <<>> \o r = r
    BY <2>2, ConcatEmptySeq
  <2> QED
    BY <2>1, <2>3, <2>4 DEF r
<1>6. ASSUME NEW k \in Nat, Good(k), k + 1 <= n PROVE Good(k + 1)
  <2> SUFFICES ASSUME NEW rest \in Seq(Byte) PROVE ReadPackets[F[k + 1] \o rest] = front(k + 1) \o ReadPackets[rest]
    OBVIOUS
  <2>1. PICK j \in 1..n : j = k + 1 /\ j - 1 = k
    BY <1>6
  <2>2. F[j] = F[k] \o q[j] /\ q[j] = WritePacket(p[j])
    BY <1>1, <1>2, <2>1
  <2>3. F[k] \in Seq(Byte) /\ q[j] \in Seq(Byte) /\ p[j] \in Seq(Byte)
    BY <1>1, <1>2
  <2> DEFINE a == F[k]
             b == q[j]
             r == ReadPackets[rest]
             h == <<p[j]>>
  <2>4. ReadPackets[b \o rest] = h \o r
    BY <2>2, <2>3, ReadPacket
  <2>5. (a \o b) \o rest = a \o (b \o rest) /\ b \o rest \in Seq(Byte)
    <3>1. a \in Seq(Byte) /\ b \in Seq(Byte)
      BY <2>3
    <3> HIDE DEF a, b
    <3> QED
      BY <3>1, Cat, Assoc
  <2>6. ReadPackets[a \o (b \o rest)] = front(k) \o ReadPackets[b \o rest]
    <3> HIDE DEF front, b
    <3> QED
      BY <1>6, <2>5
  <2>7. (front(k) \o h) \o r = front(k) \o (h \o r)
    <3>1. front(k) \in Seq(D) /\ r \in Seq(D)
      BY <1>3, <1>4, <1>6
    <3>2. h \in Seq(D)
      <4> DEFINE e == p[j]
      <4>1. e \in D
        BY <2>3
      <4> HIDE DEF D, e
      <4>2. <<e>> \in Seq(D)
        BY <4>1
      <4> QED
        BY <4>2 DEF e
    <3> DEFINE w == front(k)
    <3>3. w \in Seq(D)
      BY <3>1
    <3> HIDE DEF w, h, r, D
    <3>4. r \in Seq(D)
      BY <3>1
    <3>6. (w \o h) \o r = w \o (h \o r)
      BY <3>2, <3>3, <3>4, ConcatAssociative
    <3> QED
      BY <3>6 DEF w
  <2>8. front(k) \o h = front(k + 1)
    <3> DEFINE w == front(k)
               x == front(k + 1)
               e == p[j]
    <3>1. w \in Seq(D) /\ x \in Seq(D)
      <4>1. k + 1 \in Nat
        OBVIOUS
      <4> HIDE DEF front, D
      <4> QED
        BY <1>4, <1>6, <4>1
    <3>2. Len(w) = k /\ Len(x) = k + 1 /\ x[k + 1] = e /\ \A i \in 1..k : x[i] = w[i]
      BY <2>1
    <3> HIDE DEF w, x, e, D
    <3>3. w \o <<x[k + 1]>> = x
      BY <3>1, <3>2, OneBehind
    <3> QED
      BY <3>2, <3>3 DEF w, x, e
  <2> HIDE DEF front, h, r, a, b
  <2>9. F[k + 1] = a \o b
    BY <2>1, <2>2 DEF a, b
  <2> QED
    BY <2>4, <2>5, <2>6, <2>7, <2>8, <2>9 DEF r
<1> HIDE DEF Good
<1>7. Good(n)
  <2>1. 0 \in S
    BY <1>5
  <2>2. \A k \in Nat : k \in S => k + 1 \in S
    <3> SUFFICES ASSUME NEW k \in Nat, k \in S, k + 1 <= n PROVE Good(k + 1)
      OBVIOUS
    <3>1. Good(k)
      OBVIOUS
    <3> QED
      BY <1>6, <3>1
  <2> HIDE DEF S
  <2>3. \A k \in Nat : k \in S
    BY <2>1, <2>2, Induction
  <2> QED
    BY <2>3 DEF S
<1>8. ReadPackets[<<>>] = <<>>
  <2>1. <<>> \in Seq(Byte) /\ Len(<<>>) = 0
    OBVIOUS
  <2>2. ~HasVar(<<>>)
    BY <2>1 DEF HasVar
  <2> QED
    BY <2>1, <2>2, ReadPacketsStep
<1>9. F[n] \o <<>> = F[n] /\ <<>> \in Seq(Byte)
  BY <1>2, NoBytes
<1>10. front(n) = p
  OBVIOUS
<1>11. p \o <<>> = p
  <2>1. p \in Seq(D)
    BY <1>4, <1>10
  <2> HIDE DEF D
  <2> QED
    BY <2>1, ConcatEmptySeq
<1>12. ReadPackets[F[n] \o <<>>] = front(n) \o ReadPackets[<<>>]
  <2> HIDE DEF front
  <2> QED
    BY <1>7, <1>9 DEF Good
<1>13. FlattenSeq(q) = F[n]
  BY <1>2
<1>14. ReadPackets[FlattenSeq(q)] = p
  <2> HIDE DEF front
  <2> QED
    BY <1>8, <1>9, <1>10, <1>11, <1>12, <1>13
<1> QED
  BY <1>14 DEF q

LEMMA LimitFits == Limit <= MaxSize /\ Limit + 14 <= MaxSize
BY DEF Limit, MaxSize

\* The packet of a message is one that can be written in front of a datagram.
LEMMA MessageSize ==
  ASSUME NEW m, IsMessage(m)
  PROVE  InputData(m) \in Seq(Byte) /\ InputData(m) # <<>> /\ Len(InputData(m)) <= MaxSize
<1> DEFINE head == <<INPUT_DATA>>
           user == Var[m.user]
           first == Var[m.first]
           src == Columns(m.history)
           coded == WriteRle[src]
<1>1. InputData(m) = ((head \o user) \o first) \o coded
  BY DEF InputData
<1>2. Len(user) <= 5 /\ Len(first) <= 5 /\ IsHistory(m.history) /\ InputSize * Len(m.history) < Limit
      /\ m.user \in Nat /\ m.first \in Nat
  BY DEF IsMessage
<1>3. src \in Seq(Byte) /\ Len(src) < Limit
  BY <1>2, ColumnsParts
<1>4. head \in Seq(Byte) /\ Len(head) = 1
  <2>1. INPUT_DATA \in Byte
    BY DEF INPUT_DATA, Byte
  <2> QED
    BY <2>1
<1>5. user \in Seq(Byte) /\ first \in Seq(Byte)
  BY <1>2, VarType
<1> HIDE DEF src
<1>6. coded \in Seq(Byte) /\ Len(coded) <= Len(src) + 3
  BY <1>3, RleFits, WriteRleStep
<1> HIDE DEF head, user, first, coded
<1>7. PICK a \in Nat, b \in Nat, c \in Nat, d \in Nat :
         a = Len(user) /\ b = Len(first) /\ c = Len(coded) /\ d = Len(src)
  BY <1>3, <1>5, <1>6, Cat
<1>8. c <= d + 3 /\ d < Limit /\ a <= 5 /\ b <= 5
  BY <1>2, <1>3, <1>6, <1>7 DEF user, first
<1>9. head \o user \in Seq(Byte) /\ Len(head \o user) = 1 + a
  BY <1>4, <1>5, <1>7, Cat
<1>10. (head \o user) \o first \in Seq(Byte) /\ Len((head \o user) \o first) = (1 + a) + b
  BY <1>5, <1>7, <1>9, Cat
<1>11. /\ ((head \o user) \o first) \o coded \in Seq(Byte)
       /\ Len(((head \o user) \o first) \o coded) = ((1 + a) + b) + c
  <2>1. (1 + a) + b \in Nat
    OBVIOUS
  <2> QED
    BY <1>6, <1>7, <1>10, <2>1, CatLength
<1>12. InputData(m) \in Seq(Byte) /\ Len(InputData(m)) = ((1 + a) + b) + c
  BY <1>1, <1>11
<1>13. ((1 + a) + b) + c <= MaxSize /\ ((1 + a) + b) + c > 0
  BY <1>8, LimitFits, LimitIsNat, MaxIsNat
<1> QED
  BY <1>12, <1>13, Nonempty

LEMMA DatagramBack ==
  ASSUME NEW n \in Nat, NEW ms, ms = [i \in 1..n |-> ms[i]], \A i \in 1..n : IsMessage(ms[i])
  PROVE  LET ps == ReadPackets[FlattenSeq([i \in 1..n |-> WritePacket(InputData(ms[i]))])]
         IN  [i \in 1..Len(ps) |-> ReadInputData(ps[i])] = ms
<1> DEFINE p == [i \in 1..n |-> InputData(ms[i])]
           ps == ReadPackets[FlattenSeq([i \in 1..n |-> WritePacket(InputData(ms[i]))])]
<1>1. /\ p \in [1..n -> Seq(Byte)] /\ \A i \in 1..n : p[i] # <<>> /\ Len(p[i]) <= MaxSize
      /\ \A i \in 1..n : p[i] = InputData(ms[i])
  BY MessageSize
<1>2. [i \in 1..n |-> WritePacket(InputData(ms[i]))] = [i \in 1..n |-> WritePacket(p[i])]
  OBVIOUS
<1>3. Len(p) = n
  OBVIOUS
<1> HIDE DEF p
<1>4. ps = p
  <2>1. ReadPackets[FlattenSeq([i \in 1..n |-> WritePacket(p[i])])] = p
    BY <1>1, PacketsBack
  <2> QED
    BY <1>2, <2>1
<1> HIDE DEF ps
<1>5. \A i \in 1..n : ReadInputData(p[i]) = ms[i]
  BY <1>1, MessageBack
<1>6. [i \in 1..Len(ps) |-> ReadInputData(ps[i])] = [i \in 1..n |-> ms[i]]
  BY <1>3, <1>4, <1>5
<1> QED
  BY <1>6 DEF ps

-----------------------------------------------------------------------------
(* Sums over the controllers that drive a port. *)

\* What adding up v over a set does, one chosen element after the other.
Adding(G, S, v) ==
  G = [s \in SUBSET S |-> IF s = {} THEN 0 ELSE v[CHOOSE x \in s : TRUE] + G[s \ {CHOOSE x \in s : TRUE}]]

Ints(S) == [S -> Int]

LEMMA SumUnfolds ==
  ASSUME NEW S, IsFiniteSet(S), NEW v \in Ints(S)
  PROVE  \E F : Adding(F, S, v)
<1> DEFINE D == SUBSET S
           T == Int
           one(s) == CHOOSE x \in s : TRUE
           size == [s \in D |-> Cardinality(s)]
           Body(f, s) == IF s = {} THEN 0 ELSE v[one(s)] + f[s \ {one(s)}]
           H == [s \in D |-> [f \in [D -> T] |-> Body(f, s)]]
<1>1. ASSUME NEW s \in D PROVE IsFiniteSet(s) /\ Cardinality(s) \in Nat
  BY FS_Subset, FS_CardinalityType
<1>2. size \in [D -> Nat] /\ \A s \in D : size[s] = Cardinality(s)
  BY <1>1
<1>3. ASSUME NEW s \in D, s # {}
      PROVE  /\ one(s) \in S /\ one(s) \in s /\ s \ {one(s)} \in D /\ v[one(s)] \in T
             /\ size[s \ {one(s)}] < size[s]
  <2>1. one(s) \in s
    BY <1>3
  <2>2. one(s) \in S /\ s \ {one(s)} \in D
    BY <2>1
  <2>3. v[one(s)] \in T
    BY <2>2 DEF Ints
  <2> HIDE DEF one
  <2>4. Cardinality(s \ {one(s)}) = Cardinality(s) - 1 /\ Cardinality(s) \in Nat
    BY <1>1, <2>1, FS_RemoveElement
  <2>5. size[s \ {one(s)}] < size[s]
    BY <1>2, <2>2, <2>4
  <2> QED
    BY <2>1, <2>2, <2>3, <2>5
<1>4. ASSUME NEW s \in D, NEW f \in [D -> T] PROVE Body(f, s) \in T
  <2>1. CASE s # {}
    <3>1. f[s \ {one(s)}] \in T
      BY <1>3, <2>1
    <3>2. v[one(s)] \in T
      BY <1>3, <2>1
    <3> HIDE DEF one
    <3> QED
      BY <2>1, <3>1, <3>2
  <2> QED
    BY <2>1
<1>5. ASSUME NEW s \in D, NEW f \in [D -> T], NEW g \in [D -> T],
             \A t \in D : size[t] < size[s] => f[t] = g[t]
      PROVE  Body(f, s) = Body(g, s)
  <2> HIDE DEF one, size, T
  <2> QED
    BY <1>3, <1>5
<1>6. T # {}
  OBVIOUS
<1> HIDE DEF Body, T, D, size
<1>7. H \in Local(D, T, size)
  BY <1>4, <1>5 DEF Local
<1>8. \A s \in D : \A f \in [D -> T] : H[s][f] = Body(f, s)
  OBVIOUS
<1> HIDE DEF H
<1>9. PICK F \in [D -> T] : \A s \in D : F[s] = H[s][F]
  BY <1>2, <1>6, <1>7, Recursion
<1>10. F = [s \in D |-> Body(F, s)]
  BY <1>8, <1>9
<1> QED
  BY <1>10 DEF Adding, Body, D

LEMMA ChosenOne ==
  ASSUME NEW S, IsFiniteSet(S), NEW s \in SUBSET S, s # {}
  PROVE  LET x == CHOOSE x \in s : TRUE
         IN  x \in s /\ x \in S /\ s \ {x} \in SUBSET S /\ Cardinality(s \ {x}) < Cardinality(s)
             /\ Cardinality(s) \in Nat
<1> DEFINE one == CHOOSE x \in s : TRUE
<1>1. one \in s
  OBVIOUS
<1> HIDE DEF one
<1>2. IsFiniteSet(s)
  BY FS_Subset
<1>3. Cardinality(s \ {one}) = Cardinality(s) - 1 /\ Cardinality(s) \in Nat
  BY <1>1, <1>2, FS_RemoveElement, FS_CardinalityType
<1>4. one \in S /\ s \ {one} \in SUBSET S
  BY <1>1
<1> QED
  BY <1>1, <1>3, <1>4 DEF one

LEMMA SubsetInduction ==
  ASSUME NEW S, IsFiniteSet(S), NEW Q, {} \in Q,
         \A s \in SUBSET S : s # {} /\ s \ {CHOOSE x \in s : TRUE} \in Q => s \in Q
  PROVE  S \in Q
<1> DEFINE D == SUBSET S
           size == [s \in D |-> Cardinality(s)]
<1>1. size \in [D -> Nat] /\ \A s \in D : size[s] = Cardinality(s)
  BY FS_Subset, FS_CardinalityType
<1>2. ASSUME NEW s \in D, \A t \in D : size[t] < size[s] => t \in Q PROVE s \in Q
  <2>1. CASE s # {}
    <3> DEFINE t == s \ {CHOOSE x \in s : TRUE}
    <3>1. t \in D /\ Cardinality(t) < Cardinality(s)
      BY <2>1, ChosenOne
    <3>2. t \in Q
      <4> HIDE DEF t, size
      <4> QED
        BY <1>1, <1>2, <3>1
    <3> QED
      BY <2>1, <3>2
  <2> QED
    BY <2>1
<1> HIDE DEF size, D
<1>3. \A s \in D : s \in Q
  BY <1>1, <1>2, BySize
<1> QED
  BY <1>3 DEF D

\* The port of a bit of a map.
LEMMA BitParts ==
  /\ \A bit \in 0..15 : bit \div 4 \in Port /\ bit % 4 \in Port /\ bit = Bit(bit \div 4, bit % 4)
  /\ \A src, dst \in Port : Bit(src, dst) \in 0..15 /\ Bit(src, dst) \div 4 = src /\ Bit(src, dst) % 4 = dst
<1>1. \A bit \in 0..15 : bit \div 4 \in 0..3 /\ bit % 4 \in 0..3 /\ bit = (bit \div 4) * 4 + (bit % 4)
  <2> SUFFICES ASSUME NEW bit \in 0..15
               PROVE  bit \div 4 \in 0..3 /\ bit % 4 \in 0..3 /\ bit = (bit \div 4) * 4 + (bit % 4)
    OBVIOUS
  <2> QED
    OBVIOUS
<1>2. \A src, dst \in 0..3 : src * 4 + dst \in 0..15 /\ (src * 4 + dst) \div 4 = src /\ (src * 4 + dst) % 4 = dst
  OBVIOUS
<1> QED
  BY <1>1, <1>2 DEF Bit, Port

\* The inputs of one frame.
IsFrame(us) == us \in Seq(SomeInputs)

LEMMA FrameParts ==
  ASSUME NEW us, IsFrame(us)
  PROVE  /\ DOMAIN us = 1..Len(us) /\ Len(us) \in Nat
         /\ \A u \in DOMAIN us : us[u].map \subseteq 0..15
         /\ \A u \in DOMAIN us : \A p \in Port : us[u].ports[p].x \in Int /\ us[u].ports[p].y \in Int
<1>1. DOMAIN us = 1..Len(us) /\ Len(us) \in Nat
  BY LenProperties DEF IsFrame
<1>2. \A u \in DOMAIN us : us[u] \in SomeInputs
  BY <1>1, ElementOfSeq DEF IsFrame
<1>3. \A i \in SomeInputs : IsMap(i.map) /\ \A p \in Port : i.ports[p].x \in -128..127 /\ i.ports[p].y \in -128..127
  BY InputAssumption DEF IsInput
<1>4. \A i \in SomeInputs : i.map \subseteq 0..15
  BY <1>3 DEF IsMap
<1>5. \A i \in SomeInputs : \A p \in Port : i.ports[p].x \in Int /\ i.ports[p].y \in Int
  <2>1. \A a : a \in -128..127 => a \in Int
    OBVIOUS
  <2> QED
    BY <1>3, <2>1, Zenon
<1> QED
  BY <1>1, <1>2, <1>4, <1>5

LEMMA SourcesOf ==
  ASSUME NEW us, IsFrame(us), NEW dst \in Port
  PROVE  Sources(us, dst) = {c \in (DOMAIN us) \X Port : Maps(us[c[1]].map, c[2], dst)}
<1>1. ASSUME NEW c \in Sources(us, dst) PROVE c \in (DOMAIN us) \X Port /\ Maps(us[c[1]].map, c[2], dst)
  <2>1. PICK u \in DOMAIN us : \E bit \in us[u].map : bit % 4 = dst /\ c = <<u, bit \div 4>>
    BY DEF Sources
  <2>2. PICK bit \in us[u].map : bit % 4 = dst /\ c = <<u, bit \div 4>>
    BY <2>1
  <2>3. bit \in 0..15
    BY FrameParts
  <2>4. bit \div 4 \in Port /\ bit = Bit(bit \div 4, dst)
    BY <2>2, <2>3, BitParts
  <2> QED
    BY <2>2, <2>4 DEF Maps
<1>2. ASSUME NEW u \in DOMAIN us, NEW src \in Port, Maps(us[u].map, src, dst) PROVE <<u, src>> \in Sources(us, dst)
  <2>1. PICK bit \in us[u].map : bit = Bit(src, dst)
    BY <1>2 DEF Maps
  <2>2. bit % 4 = dst /\ bit \div 4 = src
    BY <2>1, BitParts
  <2>3. <<u, src>> \in {<<u, b \div 4>> : b \in {b \in us[u].map : b % 4 = dst}}
    BY <2>2
  <2> QED
    BY <2>3 DEF Sources
<1> QED
  BY <1>1, <1>2

LEMMA PortFinite == IsFiniteSet(Port)
<1>1. PICK a \in Int, b \in Int : a = 0 /\ b = 3
  OBVIOUS
<1>2. IsFiniteSet(a..b)
  BY FS_Interval
<1> QED
  BY <1>1, <1>2 DEF Port

\* A sum of n numbers between lo and hi is between n * lo and n * hi.
LEMMA SumBounds ==
  ASSUME NEW S, IsFiniteSet(S), NEW v \in Ints(S), NEW G, Adding(G, S, v), NEW lo \in Int, NEW hi \in Int,
         \A c \in S : lo <= v[c] /\ v[c] <= hi
  PROVE  G[S] \in Int /\ lo * Cardinality(S) <= G[S] /\ G[S] <= hi * Cardinality(S)
<1> DEFINE Q == {s \in SUBSET S : G[s] \in Int /\ lo * Cardinality(s) <= G[s] /\ G[s] <= hi * Cardinality(s)}
<1>1. {} \in Q
  <2>1. G[{}] = 0 /\ Cardinality({}) = 0
    BY FS_EmptySet DEF Adding
  <2> QED
    BY <2>1
<1>2. ASSUME NEW s \in SUBSET S, s # {}, s \ {CHOOSE x \in s : TRUE} \in Q PROVE s \in Q
  <2> DEFINE one == CHOOSE x \in s : TRUE
             rest == s \ {one}
  <2>1. G[s] = v[one] + G[rest]
    BY <1>2 DEF Adding
  <2>2. one \in S /\ one \in s
    BY <1>2, ChosenOne
  <2>3. /\ v[one] \in Int /\ lo <= v[one] /\ v[one] <= hi
        /\ G[rest] \in Int /\ lo * Cardinality(rest) <= G[rest] /\ G[rest] <= hi * Cardinality(rest)
    BY <1>2, <2>2 DEF Ints
  <2>4. Cardinality(rest) = Cardinality(s) - 1 /\ Cardinality(s) \in Nat
    <3> HIDE DEF one
    <3>1. IsFiniteSet(s)
      BY FS_Subset
    <3> QED
      BY <2>2, <3>1, FS_RemoveElement, FS_CardinalityType
  <2> HIDE DEF rest, one
  <2>5. PICK n \in Int : n = Cardinality(rest) /\ Cardinality(s) = n + 1
    BY <2>4
  <2>6. lo * (n + 1) = lo * n + lo /\ hi * (n + 1) = hi * n + hi
    OBVIOUS
  <2>7. PICK a \in Int, b \in Int : a = lo * n /\ b = hi * n
    OBVIOUS
  <2>8. G[s] \in Int /\ a + lo <= G[s] /\ G[s] <= b + hi
    BY <2>1, <2>3, <2>5, <2>7
  <2> QED
    BY <2>5, <2>6, <2>7, <2>8
<1> HIDE DEF Q
<1>3. S \in Q
  BY <1>1, <1>2, SubsetInduction
<1> QED
  BY <1>3 DEF Q

\* What one user's four controllers add.
LEMMA AddedBounds ==
  ASSUME NEW i, IsInput(i), NEW dst \in Port, NEW axis \in {"x", "y"}
  PROVE  Added(i, dst, axis) \in Int /\ -512 <= Added(i, dst, axis) /\ Added(i, dst, axis) <= 508
<1> DEFINE S == {src \in Port : Maps(i.map, src, dst)}
           v == [c \in S |-> i.ports[c][axis]]
           iter[s \in SUBSET S] ==
             IF s = {} THEN 0
             ELSE i.ports[CHOOSE x \in s : TRUE][axis] + iter[s \ {CHOOSE x \in s : TRUE}]
<1>1. IsFiniteSet(S) /\ S \subseteq Port
  BY PortFinite, FS_Subset
<1>2. \A c \in Port : i.ports[c][axis] \in Int /\ -128 <= i.ports[c][axis] /\ i.ports[c][axis] <= 127
  <2>1. \A c \in Port : i.ports[c][axis] \in -128..127
    BY DEF IsInput
  <2>2. \A a : a \in -128..127 => a \in Int /\ -128 <= a /\ a <= 127
    OBVIOUS
  <2> QED
    BY <2>1, <2>2, Zenon
<1> HIDE DEF S
<1>3. v \in Ints(S) /\ \A c \in S : -128 <= v[c] /\ v[c] <= 127
  BY <1>1, <1>2 DEF Ints
<1>4. PICK F : Adding(F, S, v)
  <2> HIDE DEF v
  <2> QED
    BY <1>1, <1>3, SumUnfolds
<1>5. \A s \in SUBSET S : s # {} => v[CHOOSE x \in s : TRUE] = i.ports[CHOOSE x \in s : TRUE][axis]
  BY <1>1, ChosenOne
<1>6. F = [s \in SUBSET S |->
             IF s = {} THEN 0
             ELSE i.ports[CHOOSE x \in s : TRUE][axis] + F[s \ {CHOOSE x \in s : TRUE}]]
  <2> HIDE DEF v
  <2> QED
    BY <1>4, <1>5 DEF Adding
<1>7. iter = [s \in SUBSET S |->
             IF s = {} THEN 0
             ELSE i.ports[CHOOSE x \in s : TRUE][axis] + iter[s \ {CHOOSE x \in s : TRUE}]]
  BY <1>6 DEF iter
<1> HIDE DEF iter
<1>8. Adding(iter, S, v)
  <2> HIDE DEF v
  <2> QED
    BY <1>5, <1>7 DEF Adding
<1>9. iter[S] \in Int /\ -128 * Cardinality(S) <= iter[S] /\ iter[S] <= 127 * Cardinality(S)
  <2> DEFINE lo == -128
             hi == 127
  <2>1. lo \in Int /\ hi \in Int /\ \A c \in S : lo <= v[c] /\ v[c] <= hi
    BY <1>3
  <2> HIDE DEF v, lo, hi
  <2>2. iter[S] \in Int /\ lo * Cardinality(S) <= iter[S] /\ iter[S] <= hi * Cardinality(S)
    BY <1>1, <1>3, <1>8, <2>1, SumBounds
  <2>3. PICK k \in Nat : k = Cardinality(S)
    BY <1>1, FS_CardinalityType
  <2>4. lo * k <= iter[S] /\ iter[S] <= hi * k /\ iter[S] \in Int
    BY <2>2, <2>3
  <2> QED
    BY <2>3, <2>4 DEF lo, hi
<1>10. Cardinality(S) \in Nat /\ Cardinality(S) <= 4
  <2>1. PICK a \in Int, b \in Int : a = 0 /\ b = 3
    OBVIOUS
  <2>2. Cardinality(a..b) = IF a > b THEN 0 ELSE b - a + 1
    BY FS_Interval
  <2>3. Cardinality(Port) = 4
    BY <2>1, <2>2 DEF Port
  <2> QED
    BY <1>1, <2>3, PortFinite, FS_Subset, FS_CardinalityType
<1>11. Added(i, dst, axis) = iter[S]
  BY DEF Added, MapThenSumSet, MapThenFoldSet, S, iter
<1> QED
  BY <1>9, <1>10, <1>11

\* What all users add: 16 bits have room for 64 of them.
LEMMA TotalBounds ==
  ASSUME NEW us, IsFrame(us), NEW dst \in Port, NEW axis \in {"x", "y"}
  PROVE  /\ Total(us, dst, axis) \in Int
         /\ -512 * Len(us) <= Total(us, dst, axis) /\ Total(us, dst, axis) <= 508 * Len(us)
<1> DEFINE S == DOMAIN us
           e(u) == Added(us[u], dst, axis)
           v == [u \in S |-> e(u)]
           iter[s \in SUBSET S] ==
             IF s = {} THEN 0 ELSE e(CHOOSE x \in s : TRUE) + iter[s \ {CHOOSE x \in s : TRUE}]
<1>1. IsFiniteSet(S) /\ Cardinality(S) = Len(us) /\ Len(us) \in Nat
  <2>1. PICK n \in Nat : n = Len(us)
    BY FrameParts
  <2>2. IsFiniteSet(1..n) /\ Cardinality(1..n) = IF 1 > n THEN 0 ELSE n - 1 + 1
    BY FS_Interval
  <2>3. S = 1..n
    BY <2>1, FrameParts
  <2> QED
    BY <2>1, <2>2, <2>3
<1>2. \A u \in S : e(u) \in Int /\ -512 <= e(u) /\ e(u) <= 508
  <2> SUFFICES ASSUME NEW u \in S PROVE e(u) \in Int /\ -512 <= e(u) /\ e(u) <= 508
    OBVIOUS
  <2>1. us[u] \in SomeInputs
    BY ElementOfSeq, FrameParts DEF IsFrame
  <2>2. IsInput(us[u])
    BY <2>1, InputAssumption
  <2> DEFINE i == us[u]
  <2>3. IsInput(i)
    BY <2>2
  <2> HIDE DEF i
  <2>4. Added(i, dst, axis) \in Int /\ -512 <= Added(i, dst, axis) /\ Added(i, dst, axis) <= 508
    BY <2>3, AddedBounds
  <2> QED
    BY <2>4 DEF i
<1> HIDE DEF S, e
<1>3. v \in Ints(S) /\ \A c \in S : -512 <= v[c] /\ v[c] <= 508
  BY <1>2 DEF Ints
<1>4. PICK F : Adding(F, S, v)
  <2> HIDE DEF v
  <2> QED
    BY <1>1, <1>3, SumUnfolds
<1>5. \A s \in SUBSET S : s # {} => v[CHOOSE x \in s : TRUE] = e(CHOOSE x \in s : TRUE)
  BY <1>1, ChosenOne
<1>6. F = [s \in SUBSET S |->
             IF s = {} THEN 0 ELSE e(CHOOSE x \in s : TRUE) + F[s \ {CHOOSE x \in s : TRUE}]]
  <2> HIDE DEF v
  <2> QED
    BY <1>4, <1>5 DEF Adding
<1>7. iter = [s \in SUBSET S |->
             IF s = {} THEN 0 ELSE e(CHOOSE x \in s : TRUE) + iter[s \ {CHOOSE x \in s : TRUE}]]
  BY <1>6 DEF iter
<1> HIDE DEF iter
<1>8. Adding(iter, S, v)
  <2> HIDE DEF v
  <2> QED
    BY <1>5, <1>7 DEF Adding
<1>9. iter[S] \in Int /\ -512 * Cardinality(S) <= iter[S] /\ iter[S] <= 508 * Cardinality(S)
  <2> DEFINE lo == -512
             hi == 508
  <2>1. lo \in Int /\ hi \in Int /\ \A c \in S : lo <= v[c] /\ v[c] <= hi
    BY <1>3
  <2> HIDE DEF v, lo, hi
  <2>2. iter[S] \in Int /\ lo * Cardinality(S) <= iter[S] /\ iter[S] <= hi * Cardinality(S)
    BY <1>1, <1>3, <1>8, <2>1, SumBounds
  <2>3. PICK k \in Nat : k = Cardinality(S)
    BY <1>1, FS_CardinalityType
  <2>4. lo * k <= iter[S] /\ iter[S] <= hi * k /\ iter[S] \in Int
    BY <2>2, <2>3
  <2> QED
    BY <2>3, <2>4 DEF lo, hi
<1>10. Total(us, dst, axis) = iter[S]
  BY DEF Total, MapThenSumSet, MapThenFoldSet, S, iter, e
<1> QED
  BY <1>1, <1>9, <1>10

-----------------------------------------------------------------------------
(* The merged stick and buttons. *)

LEMMA QuotientBounds ==
  ASSUME NEW a \in Int, NEW r \in Int, r > 0, a <= r, -r <= a
  PROVE  /\ (a * 255) \div (2 * r) \in -128..127
         /\ a > 0 => (a * 255) \div (2 * r) >= 0
         /\ a < 0 => (a * 255) \div (2 * r) < 0
<1> DEFINE d == 2 * r
           q == (a * 255) \div d
<1>1. d \in Int /\ d > 0
  OBVIOUS
<1>2. q \in Int /\ q * d <= a * 255 /\ a * 255 < (q + 1) * d
  <2> HIDE DEF d
  <2>1. \A x, y \in Int : y > 0 => x \div y \in Int /\ (x \div y) * y <= x /\ x < ((x \div y) + 1) * y
    OBVIOUS
  <2> QED
    BY <1>1, <2>1
<1> HIDE DEF q
<1>3. q <= 127
  <2> SUFFICES ASSUME q >= 128 PROVE FALSE
    BY <1>2
  <2>1. q * d >= 128 * d
    <3> HIDE DEF d
    <3>1. \A x, y, z \in Int : x >= y /\ z > 0 => x * z >= y * z
      OBVIOUS
    <3> QED
      BY <1>1, <1>2, <3>1
  <2>2. PICK p \in Int : p = q * d
    BY <1>1, <1>2
  <2>3. p >= 256 * r /\ p <= a * 255
    BY <1>2, <2>1, <2>2
  <2> QED
    BY <2>3
<1>4. q >= -128
  <2> SUFFICES ASSUME q + 1 <= -128 PROVE FALSE
    BY <1>2
  <2>1. (q + 1) * d <= -128 * d
    <3> HIDE DEF d
    <3>1. \A x, y, z \in Int : x <= y /\ z > 0 => x * z <= y * z
      OBVIOUS
    <3> QED
      BY <1>1, <1>2, <3>1
  <2>2. PICK p \in Int : p = (q + 1) * d
    BY <1>1, <1>2
  <2>3. p <= -256 * r /\ p > a * 255
    BY <1>2, <2>1, <2>2
  <2> QED
    BY <2>3
<1>5. a > 0 => q >= 0
  <2> SUFFICES ASSUME a > 0, q + 1 <= 0 PROVE FALSE
    BY <1>2
  <2>1. (q + 1) * d <= 0
    <3> HIDE DEF d
    <3>1. \A x, z \in Int : x <= 0 /\ z > 0 => x * z <= 0
      OBVIOUS
    <3> QED
      BY <1>1, <1>2, <3>1
  <2>2. PICK p \in Int : p = (q + 1) * d
    BY <1>1, <1>2
  <2> QED
    BY <1>2, <2>1, <2>2
<1>6. a < 0 => q < 0
  <2> SUFFICES ASSUME a < 0, q >= 0 PROVE FALSE
    BY <1>2
  <2>1. q * d >= 0
    <3> HIDE DEF d
    <3>1. \A x, z \in Int : x >= 0 /\ z > 0 => x * z >= 0
      OBVIOUS
    <3> QED
      BY <1>1, <1>2, <3>1
  <2>2. PICK p \in Int : p = q * d
    BY <1>1, <1>2
  <2> QED
    BY <1>2, <2>1, <2>2
<1> QED
  BY <1>2, <1>3, <1>4, <1>5, <1>6 DEF q

LEMMA ScaledFits ==
  ASSUME NEW x \in Int, NEW y \in Int
  PROVE  /\ Scaled(x, y) \in -128..127
         /\ x \in -128..127 /\ y \in -128..127 => Scaled(x, y) = x
         /\ x > 0 => Scaled(x, y) >= 0
         /\ x < 0 => Scaled(x, y) < 0
<1> DEFINE a == 2 * x + 1
           c == 2 * y + 1
           r == Larger(Abs(a), Abs(c))
<1>1. /\ a \in Int /\ c \in Int /\ r \in Int /\ a <= r /\ -r <= a /\ r > 0
      /\ r = Abs(a) \/ r = Abs(c)
  BY DEF Larger, Abs
<1>2. Scaled(x, y) = IF r > 255 THEN (a * 255) \div (2 * r) ELSE x
  BY DEF Scaled
<1>3. (x > 0 => a > 0) /\ (x < 0 => a < 0)
  OBVIOUS
<1>4. x \in -128..127 /\ y \in -128..127 => ~(r > 255)
  BY <1>1 DEF Abs
<1>5. ~(r > 255) => x \in -128..127
  BY <1>1
<1> HIDE DEF r, a
<1>6. CASE r > 255
  <2>1. /\ (a * 255) \div (2 * r) \in -128..127
        /\ a > 0 => (a * 255) \div (2 * r) >= 0
        /\ a < 0 => (a * 255) \div (2 * r) < 0
    BY <1>1, QuotientBounds
  <2> DEFINE q == (a * 255) \div (2 * r)
  <2>2. Scaled(x, y) = q
    BY <1>2, <1>6
  <2> HIDE DEF q
  <2> QED
    BY <1>3, <1>4, <1>6, <2>1, <2>2 DEF q
<1>7. CASE ~(r > 255)
  BY <1>2, <1>5, <1>7
<1> QED
  BY <1>6, <1>7

LEMMA Int16Fits ==
  /\ \A n \in Int : Int16(n) \in Int
  /\ \A n \in Int : -32768 <= n /\ n <= 32767 => Int16(n) = n
BY DEF Int16

LEMMA FitsFrame ==
  ASSUME NEW us, IsFrame(us), NEW dst \in Port
  PROVE  LET x == Total(us, dst, "x")
             y == Total(us, dst, "y")
             m == Merged(us)[dst]
         IN  /\ {m.x, m.y} \subseteq -128..127
             /\ {x, y} \subseteq -128..127 => m.x = x /\ m.y = y
             /\ Len(us) <= 64 => (x > 0 => m.x >= 0) /\ (x < 0 => m.x < 0)
<1> DEFINE x == Total(us, dst, "x")
           y == Total(us, dst, "y")
           m == Merged(us)[dst]
           n == Len(us)
<1>1. /\ x \in Int /\ y \in Int /\ n \in Nat
      /\ -512 * n <= x /\ x <= 508 * n
  BY TotalBounds, FrameParts
<1>2. m.x = Scaled(Int16(x), Int16(y)) /\ m.y = Scaled(Int16(y), Int16(x))
  BY DEF Merged, Sum
<1> HIDE DEF x, y, m, n
<1>3. PICK a \in Int, c \in Int : a = Int16(x) /\ c = Int16(y)
  BY <1>1, Int16Fits
<1>4. /\ Scaled(a, c) \in -128..127 /\ Scaled(c, a) \in -128..127
      /\ a \in -128..127 /\ c \in -128..127 => Scaled(a, c) = a /\ Scaled(c, a) = c
      /\ a > 0 => Scaled(a, c) >= 0
      /\ a < 0 => Scaled(a, c) < 0
  BY ScaledFits
<1>5. /\ x \in -128..127 => a = x
      /\ y \in -128..127 => c = y
      /\ n <= 64 => a = x
  <2>1. n <= 64 => -32768 <= x /\ x <= 32767
    BY <1>1
  <2>2. \A k \in Int : k \in -128..127 => -32768 <= k /\ k <= 32767
    OBVIOUS
  <2> QED
    BY <1>1, <1>3, <2>1, <2>2, Int16Fits
<1>6. /\ m.x \in -128..127 /\ m.y \in -128..127
      /\ x \in -128..127 /\ y \in -128..127 => m.x = x /\ m.y = y
      /\ n <= 64 => (x > 0 => m.x >= 0) /\ (x < 0 => m.x < 0)
  BY <1>2, <1>3, <1>4, <1>5
<1>7. /\ {m.x, m.y} \subseteq -128..127
      /\ {x, y} \subseteq -128..127 => m.x = x /\ m.y = y
  BY <1>6, Zenon
<1> QED
  BY <1>6, <1>7 DEF x, y, m, n

LEMMA MappedFrame ==
  ASSUME NEW us, IsFrame(us), NEW dst \in Port, NEW b
  PROVE  b \in Merged(us)[dst].buttons <=>
            \E u \in DOMAIN us, src \in Port : Maps(us[u].map, src, dst) /\ b \in us[u].ports[src].buttons
<1>1. Merged(us)[dst].buttons = UNION {us[s[1]].ports[s[2]].buttons : s \in Sources(us, dst)}
  BY DEF Merged, Buttons
<1>2. ASSUME b \in Merged(us)[dst].buttons
      PROVE  \E u \in DOMAIN us, src \in Port : Maps(us[u].map, src, dst) /\ b \in us[u].ports[src].buttons
  <2>1. PICK s \in Sources(us, dst) : b \in us[s[1]].ports[s[2]].buttons
    BY <1>1, <1>2
  <2>2. s[1] \in DOMAIN us /\ s[2] \in Port /\ Maps(us[s[1]].map, s[2], dst)
    BY SourcesOf
  <2> QED
    BY <2>1, <2>2
<1>3. ASSUME NEW u \in DOMAIN us, NEW src \in Port, Maps(us[u].map, src, dst), b \in us[u].ports[src].buttons
      PROVE  b \in Merged(us)[dst].buttons
  <2> DEFINE s == <<u, src>>
  <2>1. s \in (DOMAIN us) \X Port /\ s[1] = u /\ s[2] = src
    OBVIOUS
  <2> HIDE DEF s
  <2>2. s \in Sources(us, dst)
    BY <1>3, <2>1, SourcesOf
  <2>3. b \in us[s[1]].ports[s[2]].buttons
    BY <1>3, <2>1
  <2> QED
    BY <1>1, <2>2, <2>3
<1> QED
  BY <1>2, <1>3

-----------------------------------------------------------------------------
(* The ports of a room. *)

\* Different ranks below their number are all the ranks there are.
LEMMA RankOnto ==
  ASSUME NEW C, IsFiniteSet(C), NEW rank, \A c \in C : rank[c] \in Nat /\ rank[c] < Cardinality(C),
         \A c, d \in C : rank[c] = rank[d] => c = d
  PROVE  \A k \in Nat : k < Cardinality(C) => \E c \in C : rank[c] = k
<1>1. PICK n \in Nat : n = Cardinality(C)
  BY FS_CardinalityType
<1> DEFINE f == [c \in C |-> rank[c]]
           T == 0..n - 1
<1>2. f \in [C -> T]
  BY <1>1
<1>3. IsFiniteSet(T) /\ Cardinality(T) = n
  <2>1. PICK m \in Int : m = n - 1
    BY <1>1
  <2>2. IsFiniteSet(0..m) /\ Cardinality(0..m) = IF 0 > m THEN 0 ELSE m - 0 + 1
    BY FS_Interval
  <2> QED
    BY <2>1, <2>2
<1>4. f \in Injection(C, T)
  BY <1>2 DEF Injection, IsInjective
<1> HIDE DEF T
<1>5. f \in Surjection(C, T)
  <2> HIDE DEF f
  <2> QED
    BY <1>1, <1>3, <1>4, FS_Injection
<1>6. \A k \in T : \E c \in C : f[c] = k
  BY <1>5 DEF Surjection
<1>7. \A k \in T : \E c \in C : rank[c] = k
  BY <1>6
<1>8. \A k \in Nat : k < n => k \in T
  BY DEF T
<1> QED
  BY <1>1, <1>7, <1>8

\* The members of a room.
IsRoom(us) == us \in Seq(SomeMembers)

LEMMA RoomParts ==
  ASSUME NEW us, IsRoom(us)
  PROVE  /\ DOMAIN us = 1..Len(us) /\ Len(us) \in Nat /\ IsFiniteSet(DOMAIN us) /\ IsFiniteSet(Port)
         /\ \A u \in DOMAIN us : us[u].present \subseteq Port /\ \A p \in Port : us[u].plugin[p] \in Nat /\ us[u].plugin[p] >= 1
<1>1. DOMAIN us = 1..Len(us) /\ Len(us) \in Nat
  BY LenProperties DEF IsRoom
<1>2. \A u \in DOMAIN us : us[u] \in SomeMembers
  BY <1>1, ElementOfSeq DEF IsRoom
<1>3. \A m \in SomeMembers : m.present \subseteq Port /\ \A p \in Port : m.plugin[p] \in Nat \ {0}
  BY MemberAssumption DEF IsMember
<1>4. \A m \in SomeMembers : \A p \in Port : m.plugin[p] \in Nat /\ m.plugin[p] >= 1
  <2>1. \A k : k \in Nat \ {0} => k \in Nat /\ k >= 1
    OBVIOUS
  <2> QED
    BY <1>3, <2>1, Zenon
<1>5. IsFiniteSet(DOMAIN us) /\ IsFiniteSet(Port)
  <2>1. PICK n \in Nat : n = Len(us)
    BY <1>1
  <2>2. IsFiniteSet(1..n)
    BY FS_Interval
  <2>3. DOMAIN us = 1..n
    BY <1>1, <2>1
  <2> QED
    BY <2>2, <2>3, PortFinite
<1> QED
  BY <1>1, <1>2, <1>3, <1>4, <1>5

\* The controllers of users without a map of their own.
Plugged(us) == {c \in (DOMAIN us) \X Port : ~us[c[1]].manual /\ c[2] \in us[c[1]].present}

LEMMA BeforeParts ==
  ASSUME NEW us, IsRoom(us)
  PROVE  /\ IsFiniteSet(Plugged(us))
         /\ \A c \in Plugged(us) :
              Before(us, c[1], c[2]) = {d \in Plugged(us) : d[1] < c[1] \/ (d[1] = c[1] /\ d[2] < c[2])}
<1> DEFINE n == Len(us)
<1>1. DOMAIN us = 1..n /\ n \in Nat /\ IsFiniteSet((DOMAIN us) \X Port)
  BY RoomParts, FS_Product
<1> HIDE DEF n
<1>2. IsFiniteSet(Plugged(us))
  BY <1>1, FS_Subset DEF Plugged
<1>3. ASSUME NEW c \in Plugged(us)
      PROVE  Before(us, c[1], c[2]) = {d \in Plugged(us) : d[1] < c[1] \/ (d[1] = c[1] /\ d[2] < c[2])}
  <2>1. PICK u \in 1..n, p \in Port : c[1] = u /\ c[2] = p
    BY <1>1 DEF Plugged
  <2>2. \A p1, p2 \in Port : p1 < p2 => p1 # p2
    BY DEF Port
  <2>3. Before(us, u, p) = {d \in (1..u) \X Port : ~us[d[1]].manual /\ d[2] \in us[d[1]].present /\ (d[1] < u \/ d[2] < p)}
    BY DEF Before
  <2>4. ASSUME NEW d \in Before(us, u, p) PROVE d \in Plugged(us) /\ (d[1] < u \/ (d[1] = u /\ d[2] < p))
    <3>1. d \in (1..u) \X Port /\ ~us[d[1]].manual /\ d[2] \in us[d[1]].present /\ (d[1] < u \/ d[2] < p)
      BY <2>3
    <3>2. PICK w \in 1..u : d[1] = w
      BY <3>1
    <3>3. w \in 1..n /\ (w < u \/ w = u)
      BY <1>1
    <3>4. d \in (1..n) \X Port
      BY <1>1, <3>1
    <3> QED
      BY <1>1, <3>1, <3>2, <3>3, <3>4 DEF Plugged
  <2>5. ASSUME NEW d \in Plugged(us), d[1] < u \/ (d[1] = u /\ d[2] < p) PROVE d \in Before(us, u, p)
    <3>1. d \in (1..n) \X Port /\ ~us[d[1]].manual /\ d[2] \in us[d[1]].present
      BY <1>1 DEF Plugged
    <3>2. PICK w \in 1..n : d[1] = w
      BY <3>1
    <3>3. w \in 1..u
      BY <1>1, <2>5, <3>2
    <3>4. d \in (1..u) \X Port
      BY <3>1, <3>2, <3>3
    <3> QED
      BY <2>3, <2>5, <3>1, <3>4
  <2>6. Before(us, u, p) = {d \in Plugged(us) : d[1] < u \/ (d[1] = u /\ d[2] < p)}
    BY <2>4, <2>5
  <2> QED
    BY <2>1, <2>6
<1> QED
  BY <1>2, <1>3

\* How many controllers get a port before a controller: different numbers, all below how many there are.
LEMMA RankParts ==
  ASSUME NEW us, IsRoom(us)
  PROVE  LET C == Plugged(us)
             rank(c) == Cardinality(Before(us, c[1], c[2]))
         IN  /\ \A c \in C : rank(c) \in Nat /\ rank(c) < Cardinality(C)
             /\ \A c, d \in C : rank(c) = rank(d) => c = d
             /\ \A k \in Nat : k < Cardinality(C) => \E c \in C : rank(c) = k
             /\ Cardinality(C) \in Nat
<1> DEFINE C == Plugged(us)
           B(c) == Before(us, c[1], c[2])
           rank(c) == Cardinality(Before(us, c[1], c[2]))
           less(d, c) == d[1] < c[1] \/ (d[1] = c[1] /\ d[2] < c[2])
<1>1. IsFiniteSet(C) /\ \A c \in C : B(c) = {d \in C : less(d, c)}
  BY BeforeParts
<1>2. \A c \in C : c[1] \in Int /\ c[2] \in Int /\ c = <<c[1], c[2]>>
  <2>1. DOMAIN us = 1..Len(us) /\ Len(us) \in Nat
    BY RoomParts
  <2>2. \A u \in DOMAIN us : u \in Int
    BY <2>1
  <2>3. \A p \in Port : p \in Int
    BY DEF Port
  <2> QED
    BY <2>2, <2>3 DEF Plugged
<1>3. /\ \A c \in C : ~less(c, c)
      /\ \A c, d \in C : c # d => less(c, d) \/ less(d, c)
      /\ \A c, d, e \in C : less(c, d) /\ less(d, e) => less(c, e)
  <2>1. \A c \in C : ~less(c, c)
    BY <1>2
  <2>2. ASSUME NEW c \in C, NEW d \in C, c # d PROVE less(c, d) \/ less(d, c)
    <3>1. PICK a \in Int, b \in Int, e \in Int, f \in Int : a = c[1] /\ b = c[2] /\ e = d[1] /\ f = d[2]
      BY <1>2
    <3>2. a # e \/ b # f
      BY <1>2, <2>2, <3>1
    <3>3. a < e \/ e < a \/ (a = e /\ (b < f \/ f < b))
      BY <3>2
    <3> QED
      BY <3>1, <3>3
  <2>3. ASSUME NEW c \in C, NEW d \in C, NEW e \in C, less(c, d), less(d, e) PROVE less(c, e)
    BY <1>2, <2>3
  <2> QED
    BY <2>1, <2>2, <2>3
<1>4. \A c \in C : IsFiniteSet(B(c)) /\ rank(c) \in Nat /\ B(c) \subseteq C
  BY <1>1, FS_Subset, FS_CardinalityType
<1>5. \A c, d \in C : less(c, d) => rank(c) < rank(d)
  <2> SUFFICES ASSUME NEW c \in C, NEW d \in C, less(c, d) PROVE rank(c) < rank(d)
    OBVIOUS
  <2> HIDE DEF less, C
  <2>1. c \in B(d) /\ c \notin B(c) /\ B(c) \subseteq B(d)
    BY <1>1, <1>3
  <2> HIDE DEF B
  <2>2. IsFiniteSet(B(d)) /\ IsFiniteSet(B(c))
    BY <1>4 DEF B
  <2>3. Cardinality(B(c)) <= Cardinality(B(d)) /\ Cardinality(B(c)) # Cardinality(B(d))
    BY <2>1, <2>2, FS_Subset
  <2>4. rank(c) \in Nat /\ rank(d) \in Nat
    BY <1>4
  <2> QED
    BY <2>3, <2>4 DEF B
<1>6. \A c, d \in C : rank(c) = rank(d) => c = d
  <2> SUFFICES ASSUME NEW c \in C, NEW d \in C, c # d PROVE rank(c) # rank(d)
    OBVIOUS
  <2>1. rank(c) < rank(d) \/ rank(d) < rank(c)
    <3> HIDE DEF less, C, rank
    <3> QED
      BY <1>3, <1>5
  <2>2. rank(c) \in Nat /\ rank(d) \in Nat
    BY <1>4
  <2> HIDE DEF rank
  <2> QED
    BY <2>1, <2>2
<1>7. \A c \in C : rank(c) < Cardinality(C)
  <2> SUFFICES ASSUME NEW c \in C PROVE rank(c) < Cardinality(C)
    OBVIOUS
  <2>1. c \notin B(c) /\ B(c) \subseteq C
    <3> HIDE DEF less
    <3> QED
      BY <1>1, <1>3
  <2>2. rank(c) \in Nat /\ Cardinality(C) \in Nat
    BY <1>1, <1>4, FS_CardinalityType
  <2> HIDE DEF B, C
  <2>3. Cardinality(B(c)) <= Cardinality(C) /\ Cardinality(B(c)) # Cardinality(C)
    BY <1>1, <2>1, FS_Subset
  <2> QED
    BY <2>2, <2>3 DEF B
<1>8. \A k \in Nat : k < Cardinality(C) => \E c \in C : rank(c) = k
  <2> DEFINE r == [c \in C |-> rank(c)]
  <2> HIDE DEF C, rank
  <2>1. \A c \in C : r[c] = rank(c)
    OBVIOUS
  <2> HIDE DEF r
  <2>2. /\ \A c \in C : r[c] \in Nat /\ r[c] < Cardinality(C)
        /\ \A c, d \in C : r[c] = r[d] => c = d
    BY <1>4, <1>6, <1>7, <2>1 DEF rank
  <2>3. \A k \in Nat : k < Cardinality(C) => \E c \in C : r[c] = k
    BY <1>1, <2>2, RankOnto
  <2> QED
    BY <2>1, <2>3
<1>9. Cardinality(C) \in Nat
  BY <1>1, FS_CardinalityType
<1> QED
  BY <1>4, <1>6, <1>7, <1>8, <1>9

\* The controllers that update_controller_map leads to a port, of users without a map of their own.
LEMMA DriversOf ==
  ASSUME NEW us, IsRoom(us), NEW dst \in Port
  PROVE  {c \in {u \in DOMAIN us : ~us[u].manual} \X Port : Maps(Assigned(us)[c[1]], c[2], dst)}
         = {c \in Plugged(us) : Cardinality(Before(us, c[1], c[2])) = dst}
<1> DEFINE auto == {u \in DOMAIN us : ~us[u].manual}
           rank(u, src) == Cardinality(Before(us, u, src))
<1>1. ASSUME NEW u \in auto, NEW src \in Port
      PROVE  Maps(Assigned(us)[u], src, dst) <=> (<<u, src>> \in Plugged(us) /\ rank(u, src) = dst)
  <2>1. Assigned(us)[u] = {Bit(s, rank(u, s)) : s \in {s \in us[u].present : rank(u, s) < 4}}
    BY DEF Assigned
  <2>2. us[u].present \subseteq Port
    BY RoomParts
  <2>3. \A s \in us[u].present : <<u, s>> \in Plugged(us)
    BY <2>2 DEF Plugged
  <2>4. \A s \in us[u].present : rank(u, s) \in Nat
    <3> SUFFICES ASSUME NEW s \in us[u].present PROVE rank(u, s) \in Nat
      OBVIOUS
    <3> DEFINE c == <<u, s>>
    <3>1. c \in Plugged(us) /\ c[1] = u /\ c[2] = s
      BY <2>3
    <3> HIDE DEF c
    <3>2. Cardinality(Before(us, c[1], c[2])) \in Nat
      BY <3>1, RankParts
    <3> QED
      BY <3>1, <3>2
  <2> HIDE DEF rank
  <2>5. ASSUME Maps(Assigned(us)[u], src, dst) PROVE <<u, src>> \in Plugged(us) /\ rank(u, src) = dst
    <3>1. Bit(src, dst) \in {Bit(s, rank(u, s)) : s \in {s \in us[u].present : rank(u, s) < 4}}
      BY <2>1, <2>5 DEF Maps
    <3>2. PICK s \in us[u].present : rank(u, s) < 4 /\ Bit(src, dst) = Bit(s, rank(u, s))
      BY <3>1
    <3>3. \A k \in Nat : k < 4 => k \in Port
      BY DEF Port
    <3>4. rank(u, s) \in Port /\ s \in Port
      BY <2>2, <2>4, <3>2, <3>3
    <3>5. src = s /\ dst = rank(u, s)
      BY <3>2, <3>4, BitParts
    <3> QED
      BY <2>3, <3>5
  <2>6. ASSUME <<u, src>> \in Plugged(us), rank(u, src) = dst PROVE Maps(Assigned(us)[u], src, dst)
    <3>1. src \in us[u].present /\ rank(u, src) < 4
      <4>1. src \in us[u].present
        BY <2>6 DEF Plugged
      <4>2. dst < 4
        BY DEF Port
      <4> QED
        BY <2>6, <4>1, <4>2
    <3>2. Bit(src, dst) \in {Bit(s, rank(u, s)) : s \in {s \in us[u].present : rank(u, s) < 4}}
      BY <2>6, <3>1
    <3> QED
      BY <2>1, <3>2 DEF Maps
  <2> QED
    BY <2>5, <2>6
<1>2. Plugged(us) \subseteq auto \X Port
  BY DEF Plugged
<1> DEFINE led(c) == Maps(Assigned(us)[c[1]], c[2], dst)
<1>3. ASSUME NEW c \in auto \X Port PROVE led(c) <=> (c \in Plugged(us) /\ rank(c[1], c[2]) = dst)
  <2>1. PICK u \in auto, src \in Port : c = <<u, src>> /\ c[1] = u /\ c[2] = src
    OBVIOUS
  <2> HIDE DEF auto, rank
  <2> QED
    BY <1>1, <2>1
<1> HIDE DEF auto, led, rank
<1>4. {c \in auto \X Port : led(c)} = {c \in Plugged(us) : rank(c[1], c[2]) = dst}
  BY <1>2, <1>3
<1> QED
  BY <1>4 DEF auto, led, rank

\* They are as many as the present ones of all these users together.
LEMMA PluggedSum ==
  ASSUME NEW us, IsRoom(us)
  PROVE  Cardinality(Plugged(us)) = MapThenSumSet(LAMBDA u : Cardinality(us[u].present), {u \in DOMAIN us : ~us[u].manual})
<1> DEFINE A == {u \in DOMAIN us : ~us[u].manual}
           v == [u \in A |-> Cardinality(us[u].present)]
           iter[s \in SUBSET A] ==
             IF s = {} THEN 0
             ELSE Cardinality(us[CHOOSE x \in s : TRUE].present) + iter[s \ {CHOOSE x \in s : TRUE}]
           part(s) == {c \in Plugged(us) : c[1] \in s}
<1>1. IsFiniteSet(A) /\ IsFiniteSet(Plugged(us))
  <2>1. IsFiniteSet(DOMAIN us) /\ A \subseteq DOMAIN us
    BY RoomParts
  <2> HIDE DEF A
  <2> QED
    BY <2>1, BeforeParts, FS_Subset
<1>2. \A u \in A : IsFiniteSet(us[u].present) /\ Cardinality(us[u].present) \in Nat
  <2>1. \A u \in A : us[u].present \subseteq Port /\ IsFiniteSet(Port)
    BY RoomParts
  <2> QED
    BY <2>1, FS_Subset, FS_CardinalityType
<1>3. v \in Ints(A)
  BY <1>2 DEF Ints
<1>4. MapThenSumSet(LAMBDA u : Cardinality(us[u].present), A) = iter[A]
  BY DEF MapThenSumSet, MapThenFoldSet, iter
<1>5. PICK F : Adding(F, A, v)
  <2> HIDE DEF v, A
  <2> QED
    BY <1>1, <1>3, SumUnfolds
<1>6. ASSUME NEW s \in SUBSET A, s # {} PROVE (CHOOSE x \in s : TRUE) \in s /\ (CHOOSE x \in s : TRUE) \in A
  BY <1>6
<1>7. F = [s \in SUBSET A |->
             IF s = {} THEN 0
             ELSE Cardinality(us[CHOOSE x \in s : TRUE].present) + F[s \ {CHOOSE x \in s : TRUE}]]
  <2>1. \A s \in SUBSET A : s # {} => v[CHOOSE x \in s : TRUE] = Cardinality(us[CHOOSE x \in s : TRUE].present)
    BY <1>6
  <2> HIDE DEF v, A
  <2> QED
    BY <1>5, <2>1 DEF Adding
<1>8. iter = [s \in SUBSET A |->
             IF s = {} THEN 0
             ELSE Cardinality(us[CHOOSE x \in s : TRUE].present) + iter[s \ {CHOOSE x \in s : TRUE}]]
  <2> HIDE DEF A
  <2> QED
    BY <1>7 DEF iter
<1> HIDE DEF iter
<1>9. ASSUME NEW u \in A
      PROVE  IsFiniteSet(part({u})) /\ Cardinality(part({u})) = Cardinality(us[u].present)
  <2>1. part({u}) = {u} \X us[u].present
    <3>1. us[u].present \subseteq Port
      BY RoomParts
    <3> QED
      BY <3>1 DEF Plugged
  <2>2. IsFiniteSet({u}) /\ Cardinality({u}) = 1
    BY FS_Singleton
  <2>3. IsFiniteSet({u} \X us[u].present) /\ Cardinality({u} \X us[u].present) = Cardinality({u}) * Cardinality(us[u].present)
    BY <1>2, <2>2, FS_Product
  <2>4. PICK k \in Nat : k = Cardinality(us[u].present)
    BY <1>2
  <2>5. Cardinality({u} \X us[u].present) = k
    BY <2>2, <2>3, <2>4
  <2> HIDE DEF part
  <2> QED
    BY <2>1, <2>3, <2>4, <2>5
<1>10. \A s \in SUBSET A : IsFiniteSet(part(s)) /\ Cardinality(part(s)) \in Nat
  <2> SUFFICES ASSUME NEW s \in SUBSET A PROVE IsFiniteSet(part(s)) /\ Cardinality(part(s)) \in Nat
    OBVIOUS
  <2>1. part(s) \in SUBSET Plugged(us)
    OBVIOUS
  <2> HIDE DEF part
  <2> QED
    BY <1>1, <2>1, FS_Subset, FS_CardinalityType
<1> DEFINE Q == {s \in SUBSET A : iter[s] = Cardinality(part(s))}
<1>11. {} \in Q
  <2>1. part({}) = {} /\ {} \in SUBSET A
    OBVIOUS
  <2>2. iter[{}] = 0
    <3> HIDE DEF A
    <3> QED
      BY <1>8, <2>1
  <2>3. Cardinality(part({})) = 0
    <3> HIDE DEF part
    <3> QED
      BY <2>1, FS_EmptySet
  <2> QED
    BY <2>1, <2>2, <2>3
<1>12. ASSUME NEW s \in SUBSET A, s # {}, s \ {CHOOSE x \in s : TRUE} \in Q PROVE s \in Q
  <2> DEFINE one == CHOOSE x \in s : TRUE
             t == s \ {one}
  <2>1. one \in s /\ one \in A /\ t \in SUBSET A
    BY <1>6, <1>12
  <2>2. iter[s] = Cardinality(us[one].present) + iter[t]
    <3> HIDE DEF A
    <3> QED
      BY <1>8, <1>12
  <2>3. iter[t] = Cardinality(part(t))
    BY <1>12
  <2> HIDE DEF one
  <2>4. part(s) = part({one}) \cup part(t) /\ part({one}) \cap part(t) = {}
    BY <2>1
  <2> HIDE DEF part, t, A
  <2>5. IsFiniteSet(part({one})) /\ IsFiniteSet(part(t))
    BY <1>9, <1>10, <2>1
  <2>6. Cardinality(part({one}) \cup part(t)) = Cardinality(part({one})) + Cardinality(part(t)) - Cardinality({})
    BY <2>4, <2>5, FS_Union
  <2>7. Cardinality({}) = 0 /\ Cardinality(part({one})) = Cardinality(us[one].present)
    BY <1>9, <2>1, FS_EmptySet
  <2>8. Cardinality(us[one].present) \in Nat /\ Cardinality(part(t)) \in Nat
    BY <1>2, <1>10, <2>1
  <2>9. iter[s] = Cardinality(part(s))
    BY <2>2, <2>3, <2>4, <2>6, <2>7, <2>8
  <2> QED
    BY <2>9
<1>13. A \in Q
  <2> HIDE DEF A, Q
  <2> QED
    BY <1>1, <1>11, <1>12, SubsetInduction
<1>14. part(A) = Plugged(us)
  BY DEF Plugged
<1> QED
  BY <1>4, <1>13, <1>14

LEMMA RoomFilled ==
  ASSUME kind = "members", IsRoom(sample), NEW dst \in Port
  PROVE  /\ Cardinality(Drivers(dst)) =
              IF dst < MapThenSumSet(LAMBDA u : Cardinality(sample[u].present), Automatic) THEN 1 ELSE 0
         /\ \A c \in Drivers(dst) :
              (\A u \in DOMAIN sample, src \in Port : sample[u].manual => ~Maps(sample[u].map, src, dst))
                => Plugins(sample, Assigned(sample), dst) = sample[c[1]].plugin[c[2]]
<1> DEFINE C == Plugged(sample)
           rank(c) == Cardinality(Before(sample, c[1], c[2]))
<1>1. Drivers(dst) = {c \in C : rank(c) = dst}
  BY DriversOf DEF Drivers, Automatic
<1>2. MapThenSumSet(LAMBDA u : Cardinality(sample[u].present), Automatic) = Cardinality(C)
  BY PluggedSum DEF Automatic
<1>3. /\ \A c \in C : rank(c) \in Nat /\ rank(c) < Cardinality(C)
      /\ \A c, d \in C : rank(c) = rank(d) => c = d
      /\ \A k \in Nat : k < Cardinality(C) => \E c \in C : rank(c) = k
      /\ Cardinality(C) \in Nat
  BY RankParts
<1> HIDE DEF C, rank
<1>4. Cardinality(Drivers(dst)) = IF dst < Cardinality(C) THEN 1 ELSE 0
  <2>0. dst \in Nat
    BY DEF Port
  <2>1. CASE dst < Cardinality(C)
    <3>1. PICK c \in C : rank(c) = dst
      BY <1>3, <2>0, <2>1
    <3>2. Drivers(dst) = {c}
      BY <1>1, <1>3, <3>1
    <3> QED
      BY <2>1, <3>2, FS_Singleton
  <2>2. CASE ~(dst < Cardinality(C))
    <3>1. Drivers(dst) = {}
      BY <1>1, <1>3, <2>0, <2>2
    <3> QED
      BY <2>2, <3>1, FS_EmptySet
  <2> QED
    BY <2>1, <2>2
<1>5. ASSUME NEW c \in Drivers(dst),
             \A u \in DOMAIN sample, src \in Port : sample[u].manual => ~Maps(sample[u].map, src, dst)
      PROVE  Plugins(sample, Assigned(sample), dst) = sample[c[1]].plugin[c[2]]
  <2> DEFINE maps == Assigned(sample)
             D == {d \in (DOMAIN sample) \X Port : Maps(maps[d[1]], d[2], dst)}
             p == sample[c[1]].plugin[c[2]]
  <2>1. c \in D
    BY DEF Drivers, Automatic
  <2>2. ASSUME NEW d \in D PROVE d = c
    <3>1. d[1] \in DOMAIN sample /\ d[2] \in Port /\ Maps(maps[d[1]], d[2], dst)
      OBVIOUS
    <3>2. ~sample[d[1]].manual
      <4> SUFFICES ASSUME sample[d[1]].manual PROVE FALSE
        OBVIOUS
      <4>1. maps[d[1]] = sample[d[1]].map
        BY <3>1 DEF Assigned
      <4> QED
        BY <1>5, <3>1, <4>1
    <3>3. d \in Drivers(dst)
      BY <3>2 DEF Drivers, Automatic
    <3> HIDE DEF D
    <3> QED
      BY <1>1, <1>3, <3>3
  <2>3. p \in Nat /\ p >= 1
    BY <2>1, RoomParts
  <2>4. Plugins(sample, maps, dst) = Max({1} \cup {sample[d[1]].plugin[d[2]] : d \in D})
    BY DEF Plugins
  <2>5. {sample[d[1]].plugin[d[2]] : d \in D} = {p}
    <3> HIDE DEF D
    <3> QED
      BY <2>1, <2>2
  <2> HIDE DEF p, D, maps
  <2>6. Max({1} \cup {p}) = p
    <3> DEFINE S == {1} \cup {p}
    <3>1. S \in SUBSET (0..p) /\ S # {} /\ p \in S
      BY <2>3
    <3>2. \A y \in S : y \in Int
      BY <2>3
    <3> HIDE DEF S
    <3>3. Max(S) \in S /\ \A y \in S : Max(S) >= y
      BY <2>3, <3>1, MaxOf
    <3>4. Max(S) = p
      <4>1. PICK m \in S : m = Max(S) /\ m >= p
        BY <3>1, <3>3
      <4>2. m = p \/ m = 1
        BY DEF S
      <4> QED
        BY <2>3, <4>1, <4>2
    <3> QED
      BY <3>4 DEF S
  <2> QED
    BY <2>4, <2>5, <2>6 DEF p, maps
<1> QED
  BY <1>2, <1>4, <1>5

-----------------------------------------------------------------------------
(* The samples. *)

\* A sample is one of its kind.
Sampled ==
  /\ kind = "bytes" => sample \in Seq(Byte) /\ Len(sample) < Limit
  /\ kind = "datagram" => sample \in Seq(SomeMessages)
  /\ kind = "inputs" => IsFrame(sample)
  /\ kind = "members" => IsRoom(sample)

LEMMA Appended == \A S : \A s \in Seq(S), e \in S : Append(s, e) \in Seq(S) /\ Len(Append(s, e)) = Len(s) + 1
BY AppendProperties

LEMMA AlwaysSampled == Spec => []Sampled
<1>1. Init => Sampled
  <2> SUFFICES ASSUME Init PROVE Sampled
    OBVIOUS
  <2>1. CASE kind = "bytes" /\ sample \in {<<>>} \cup LongStrings
    <3>1. <<>> \in Seq(Byte) /\ Len(<<>>) < Limit
      <4>1. 0 < Limit
        BY DEF Limit
      <4> QED
        BY <4>1, NoBytes
    <3> QED
      BY <2>1, <3>1, StringAssumption DEF Sampled
  <2>2. CASE kind \in {"datagram", "inputs", "members"} /\ sample = <<>>
    BY <2>2 DEF Sampled, IsFrame, IsRoom
  <2>3. CASE kind = "inputs" /\ sample \in LongInputs
    BY <2>3, InputAssumption DEF Sampled, IsFrame
  <2> QED
    BY <2>1, <2>2, <2>3 DEF Init
<1>2. Sampled /\ [Next]_<<kind, sample>> => Sampled'
  <2> SUFFICES ASSUME Sampled, [Next]_<<kind, sample>> PROVE Sampled'
    OBVIOUS
  <2>1. CASE Longer("bytes", SomeBytes, MaxBytes)
    <3>1. PICK e \in SomeBytes : sample' = Append(sample, e)
      BY <2>1 DEF Longer
    <3>2. kind = "bytes" /\ kind' = "bytes" /\ Len(sample) < MaxBytes
      BY <2>1 DEF Longer
    <3>3. sample \in Seq(Byte) /\ e \in Byte /\ Len(sample) \in Nat
      BY <3>2, StringAssumption, Nonempty DEF Sampled
    <3>4. sample' \in Seq(Byte) /\ Len(sample') = Len(sample) + 1
      BY <3>1, <3>3, Appended
    <3>5. Len(sample') < Limit
      BY <3>2, <3>3, <3>4, BoundAssumption, LimitIsNat
    <3> QED
      BY <3>2, <3>4, <3>5 DEF Sampled
  <2>2. CASE Longer("datagram", SomeMessages, MaxMessages)
    BY <2>2, Appended DEF Longer, Sampled
  <2>3. CASE Longer("inputs", SomeInputs, MaxUsers)
    BY <2>3, Appended DEF Longer, Sampled, IsFrame
  <2>4. CASE Longer("members", SomeMembers, MaxUsers + 1)
    BY <2>4, Appended DEF Longer, Sampled, IsRoom
  <2>5. CASE UNCHANGED <<kind, sample>>
    BY <2>5 DEF Sampled, IsFrame, IsRoom
  <2> QED
    BY <2>1, <2>2, <2>3, <2>4, <2>5 DEF Next
<1> QED
  BY <1>1, <1>2, PTL DEF Spec

\* What write_rle makes of any bytes, read_rle takes back, and it stops behind the end marker (packet.h).
THEOREM RleRoundTripAlways == Spec => []RleRoundTrip
<1>1. Sampled => RleRoundTrip
  <2> SUFFICES ASSUME Sampled, kind = "bytes"
               PROVE  ReadRle[WriteRle[sample] \o <<7>>] = [thrown |-> FALSE, bytes |-> sample, left |-> <<7>>]
    BY DEF RleRoundTrip
  <2>1. sample \in Seq(Byte) /\ Len(sample) < Limit /\ Len(sample) \in Nat
    BY Nonempty DEF Sampled
  <2>2. Len(sample) <= MaxSize
    BY <2>1, LimitFits, LimitIsNat, MaxIsNat
  <2> DEFINE rest == <<7>>
  <2>3. rest \in Seq(Byte)
    <3>1. 7 \in Byte
      BY DEF Byte
    <3> QED
      BY <3>1
  <2> HIDE DEF rest
  <2>4. ReadRle[WriteRle[sample] \o rest] = [thrown |-> FALSE, bytes |-> sample, left |-> rest]
    BY <2>1, <2>2, <2>3, RleReadBack
  <2> QED
    BY <2>4 DEF rest
<1> QED
  BY <1>1, AlwaysSampled, PTL

\* What write_rle makes of a string has at most three bytes more than the string.
THEOREM CodingFitsAlways == Spec => []CodingFits
<1>1. Sampled => CodingFits
  BY RleFits DEF Sampled, CodingFits
<1> QED
  BY <1>1, AlwaysSampled, PTL

\* receive_udp_packet and on_receive read the messages that were written into a datagram, in their order.
THEOREM DatagramRoundTripAlways == Spec => []DatagramRoundTrip
<1>1. Sampled => DatagramRoundTrip
  <2> SUFFICES ASSUME Sampled, kind = "datagram" PROVE DatagramRoundTrip
    BY DEF DatagramRoundTrip
  <2>1. sample \in Seq(SomeMessages)
    BY DEF Sampled
  <2>2. PICK n \in Nat : n = Len(sample)
    BY <2>1, LenProperties
  <2>3. sample = [i \in 1..n |-> sample[i]] /\ \A i \in 1..n : IsMessage(sample[i])
    <3>1. \A i \in 1..n : sample[i] \in SomeMessages
      BY <2>1, <2>2, ElementOfSeq
    <3> QED
      BY <2>1, <2>2, <3>1, MessageAssumption
  <2>4. LET ps == ReadPackets[FlattenSeq([i \in 1..n |-> WritePacket(InputData(sample[i]))])]
        IN  [i \in 1..Len(ps) |-> ReadInputData(ps[i])] = sample
    BY <2>3, DatagramBack
  <2> QED
    BY <2>2, <2>4 DEF DatagramRoundTrip
<1> QED
  BY <1>1, AlwaysSampled, PTL

\* client::on_input brings the sticks of any number of users into a signed byte, their sum
\* unchanged if it fits one, and for up to 64 users on the side of zero it was on.
THEOREM MergeFitsAlways == Spec => []MergeFits
<1>1. Sampled => MergeFits
  BY FitsFrame DEF Sampled, MergeFits
<1> QED
  BY <1>1, AlwaysSampled, PTL

\* client::on_input holds a button at a port exactly if a controller mapped there has it held.
THEOREM MergeMappedAlways == Spec => []MergeMapped
<1>1. Sampled => MergeMapped
  BY MappedFrame DEF Sampled, MergeMapped
<1> QED
  BY <1>1, AlwaysSampled, PTL

\* room::update_controller_map gives the ports in turn, one controller each, and the game sees its pak.
THEOREM PortsFilledAlways == Spec => []PortsFilled
<1>1. Sampled => PortsFilled
  BY RoomFilled DEF Sampled, PortsFilled
<1> QED
  BY <1>1, AlwaysSampled, PTL
=============================================================================
