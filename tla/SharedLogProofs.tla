-------------------------- MODULE SharedLogProofs --------------------------
(* A shared log never forks, for any processes, streams and values.        *)
EXTENDS SharedLog, SequenceTheorems, TLAPS

LEMMA PrefixElements ==
  ASSUME NEW s \in Seq(Value), NEW t \in Seq(Value)
  PROVE  Prefix(s, t) <=> Len(s) <= Len(t) /\ \A i \in 1..Len(s) : t[i] = s[i]
<1>1. Len(s) \in Nat /\ Len(t) \in Nat
  BY LenProperties
<1>2. ASSUME Len(s) <= Len(t)
      PROVE  SubSeq(t, 1, Len(s)) = s <=> \A i \in 1..Len(s) : t[i] = s[i]
  <2> DEFINE p == SubSeq(t, 1, Len(s))
  <2>1. \A i \in 1..Len(s) : t[i] \in Value
    BY <1>1, <1>2, ElementOfSeq
  <2>2. p \in Seq(Value) /\ Len(p) = Len(s)
    BY <1>1, <2>1, SubSeqProperties
  <2>3. \A i \in 1..Len(s) : p[i] = t[i]
    BY <1>1, <2>1, SubSeqProperties
  <2> HIDE DEF p
  <2>4. (\A i \in 1..Len(s) : p[i] = s[i]) => p = s
    BY <2>2, SeqEqual
  <2> QED
    BY <2>3, <2>4 DEF p
<1> QED
  BY <1>2 DEF Prefix

LEMMA PrefixTransitive ==
  ASSUME NEW s \in Seq(Value), NEW t \in Seq(Value), NEW r \in Seq(Value),
         Prefix(s, t), Prefix(t, r)
  PROVE  Prefix(s, r)
<1>1. Len(s) \in Nat /\ Len(t) \in Nat /\ Len(r) \in Nat
  BY LenProperties
<1>2. Len(s) <= Len(t) /\ \A i \in 1..Len(s) : t[i] = s[i]
  BY PrefixElements
<1>3. Len(t) <= Len(r) /\ \A i \in 1..Len(t) : r[i] = t[i]
  BY PrefixElements
<1>4. Len(s) <= Len(r) /\ \A i \in 1..Len(s) : r[i] = s[i]
  BY <1>1, <1>2, <1>3
<1> QED
  BY <1>4, PrefixElements

\* Two prefixes of one sequence agree.
LEMMA PrefixesAgree ==
  ASSUME NEW s \in Seq(Value), NEW t \in Seq(Value), NEW r \in Seq(Value),
         Prefix(s, r), Prefix(t, r)
  PROVE  Agree(s, t)
<1>1. Len(s) \in Nat /\ Len(t) \in Nat /\ Len(r) \in Nat
  BY LenProperties
<1>2. Len(s) <= Len(r) /\ \A i \in 1..Len(s) : r[i] = s[i]
  BY PrefixElements
<1>3. Len(t) <= Len(r) /\ \A i \in 1..Len(t) : r[i] = t[i]
  BY PrefixElements
<1>4. CASE Len(s) <= Len(t)
  <2>1. \A i \in 1..Len(s) : t[i] = s[i]
    BY <1>1, <1>2, <1>3, <1>4
  <2> QED
    BY <1>4, <2>1, PrefixElements DEF Agree
<1>5. CASE Len(t) <= Len(s)
  <2>1. \A i \in 1..Len(t) : s[i] = t[i]
    BY <1>1, <1>2, <1>3, <1>5
  <2> QED
    BY <1>5, <2>1, PrefixElements DEF Agree
<1> QED
  BY <1>1, <1>4, <1>5

LEMMA PrefixReflexive ==
  ASSUME NEW s \in Seq(Value)
  PROVE  Prefix(s, s)
BY PrefixElements, LenProperties

-----------------------------------------------------------------------------
IInv == TypeOK /\ Agreement

LEMMA InitIInv == Init => IInv
<1> SUFFICES ASSUME Init PROVE IInv
  OBVIOUS
<1>1. <<>> \in Seq(Value)
  BY EmptySeq
<1>2. TypeOK
  BY <1>1 DEF Init, TypeOK
<1>3. Agreement
  <2>1. \A p \in Process, u \in Stream : copy[p][u] = <<>>
    BY DEF Init
  <2>2. Agree(<<>>, <<>>)
    BY <1>1, PrefixReflexive DEF Agree
  <2> QED
    BY <2>1, <2>2 DEF Agreement, Init
<1> QED
  BY <1>2, <1>3 DEF IInv

LEMMA ExtendType ==
  ASSUME TypeOK, NEW p \in Process, NEW u \in Stream, NEW s, Extend(p, u, s)
  PROVE  /\ TypeOK' /\ live' = live /\ copy'[p][u] = s /\ s \in Seq(Value)
         /\ Prefix(copy[p][u], s)
         /\ \A q \in Process, v \in Stream : (q # p \/ v # u) => copy'[q][v] = copy[q][v]
<1>1. /\ copy' = [copy EXCEPT ![p][u] = s] /\ s \in Seq(Value) /\ live' = live
      /\ Prefix(copy[p][u], s)
  BY DEF Extend
<1> QED
  BY <1>1 DEF TypeOK

\* If the new copy agrees with every live one, the copies still agree.
LEMMA ExtendAgrees ==
  ASSUME IInv, NEW p \in live, NEW u \in Stream, NEW s, Extend(p, u, s),
         \A q \in live : Agree(s, copy[q][u])
  PROVE  IInv'
<1>1. p \in Process
  BY DEF IInv, TypeOK
<1>2. /\ TypeOK' /\ live' = live /\ copy'[p][u] = s /\ s \in Seq(Value)
      /\ \A q \in Process, v \in Stream : (q # p \/ v # u) => copy'[q][v] = copy[q][v]
  BY <1>1, ExtendType DEF IInv
<1>3. ASSUME NEW v \in Stream, NEW q \in live, NEW r \in live
      PROVE  Agree(copy'[q][v], copy'[r][v])
  <2>1. q \in Process /\ r \in Process
    BY DEF IInv, TypeOK
  <2>2. CASE v # u \/ (q # p /\ r # p)
    BY <2>1, <2>2, <1>2 DEF IInv, Agreement
  <2>3. CASE v = u /\ q = p /\ r # p
    BY <2>1, <2>3, <1>2
  <2>4. CASE v = u /\ q # p /\ r = p
    <3>1. Agree(s, copy[q][v])
      BY <2>4
    <3> QED
      BY <2>1, <2>4, <3>1, <1>2 DEF Agree
  <2>5. CASE v = u /\ q = p /\ r = p
    BY <2>5, <1>2, PrefixReflexive DEF Agree
  <2> QED
    BY <2>2, <2>3, <2>4, <2>5
<1>4. Agreement'
  BY <1>2, <1>3 DEF Agreement
<1> QED
  BY <1>2, <1>4 DEF IInv

LEMMA ProduceStep ==
  ASSUME IInv, NEW p \in live, NEW u \in Stream, Produce(p, u)
  PROVE  IInv'
<1> DEFINE s == copy'[p][u]
<1>1. p \in Process /\ \A q \in live : q \in Process /\ copy[q][u] \in Seq(Value)
  BY DEF IInv, TypeOK
<1>2. Extend(p, u, s) /\ \A q \in live : Prefix(copy[q][u], copy[p][u])
  BY DEF Produce
<1> HIDE DEF s
<1>3. s \in Seq(Value) /\ Prefix(copy[p][u], s)
  BY <1>2 DEF Extend
<1>4. \A q \in live : Agree(s, copy[q][u])
  BY <1>1, <1>2, <1>3, PrefixTransitive DEF Agree
<1> QED
  BY <1>2, <1>4, ExtendAgrees

LEMMA LearnStep ==
  ASSUME IInv, NEW p \in live, NEW u \in Stream, Learn(p, u)
  PROVE  IInv'
<1> DEFINE s == copy'[p][u]
<1>1. p \in Process /\ \A q \in live : q \in Process /\ copy[q][u] \in Seq(Value)
  BY DEF IInv, TypeOK
<1>2. Extend(p, u, s)
  BY DEF Learn
<1> PICK q \in live : Prefix(s, copy[q][u])
  BY DEF Learn
<1> HIDE DEF s
<1>3. s \in Seq(Value)
  BY <1>2 DEF Extend
<1>4. ASSUME NEW r \in live
      PROVE  Agree(s, copy[r][u])
  <2>1. Agree(copy[q][u], copy[r][u])
    BY DEF IInv, Agreement
  <2>2. CASE Prefix(copy[q][u], copy[r][u])
    BY <2>2, <1>1, <1>3, PrefixTransitive DEF Agree
  <2>3. CASE Prefix(copy[r][u], copy[q][u])
    BY <2>3, <1>1, <1>3, PrefixesAgree
  <2> QED
    BY <2>1, <2>2, <2>3 DEF Agree
<1> QED
  BY <1>2, <1>4, ExtendAgrees

LEMMA LeaveStep ==
  ASSUME IInv, NEW p \in live, Leave(p)
  PROVE  IInv'
<1>1. /\ live' = live \ {p} /\ \A q \in live' : copy'[q] = copy[q]
      /\ copy'[p] \in [Stream -> Seq(Value)]
      /\ copy' = [copy EXCEPT ![p] = copy'[p]]
  BY DEF Leave
<1>2. TypeOK'
  BY <1>1 DEF IInv, TypeOK
<1>3. Agreement'
  BY <1>1 DEF IInv, Agreement
<1> QED
  BY <1>2, <1>3 DEF IInv

\* The copies of the processes taking part never contradict each other: what
\* every client feeds its emulator is one sequence of inputs per user.
THEOREM AgreementAlways == Spec => []Agreement
<1>1. IInv /\ [Next]_vars => IInv'
  <2> SUFFICES ASSUME IInv, [Next]_vars PROVE IInv'
    OBVIOUS
  <2>1. ASSUME NEW p \in live, NEW u \in Stream, Produce(p, u)
        PROVE  IInv'
    BY <2>1, ProduceStep
  <2>2. ASSUME NEW p \in live, NEW u \in Stream, Learn(p, u)
        PROVE  IInv'
    BY <2>2, LearnStep
  <2>3. ASSUME NEW p \in live, Leave(p)
        PROVE  IInv'
    BY <2>3, LeaveStep
  <2>4. CASE UNCHANGED vars
    BY <2>4 DEF vars, IInv, TypeOK, Agreement
  <2> QED
    BY <2>1, <2>2, <2>3, <2>4 DEF Next
<1>2. IInv => Agreement
  BY DEF IInv
<1> QED
  BY InitIInv, <1>1, <1>2, PTL DEF Spec

=============================================================================
