---------------------------- MODULE StreamProofs ----------------------------
(* Why the copies of a stream agree: the inductive invariant of streams    *)
(* and authority, that each of the moves which handlers of Lockstep        *)
(* consist of preserves it, and that every handler is a sequence of moves. *)
(*                                                                         *)
(* A handler may make two moves, as one that takes an input and gives the  *)
(* authority away.  The invariant and the moves are therefore stated of    *)
(* any values of the variables: M is members, S srvLog, U up, D down, A    *)
(* auth, L log, UU upUdp and DU downUdp.                                   *)
EXTENDS LockstepProofs, LockstepRefinement, FiniteSetTheorems

IsInput(m, u) == m.type = "INPUT_DATA" /\ m.user = u
IsGift(m, u) == m.type = "DELEGATE_AUTHORITY" /\ m.user = u
End(m) == m.first + Len(m.inputs)

Types(M, S, U, D, A, L) ==
    /\ M \in SUBSET User
    /\ S \in [User -> Seq(Input)]
    /\ U \in [User -> Seq(Packet)]
    /\ D \in [User -> Seq(Packet)]
    /\ A \in [User -> [User -> User]]
    /\ L \in [User -> [User -> Seq(Input)]]

-----------------------------------------------------------------------------
(* Copies and packets hold parts of one stream. *)

Below(s, t) == Len(s) <= Len(t) /\ \A i \in 1..Len(s) : s[i] = t[i]

\* Packet m holds a part of s.
Segment(m, s) ==
    End(m) <= Len(s) /\ \A i \in 1..Len(m.inputs) : m.inputs[i] = s[m.first + i]

\* Every client's copy is comparable with the server's, a client has sent only
\* what it has, and the server as well.
Data(M, S, U, D, L) ==
    \A d \in M :
        /\ \A u \in User : Below(L[d][u], S[u]) \/ Below(S[u], L[d][u])
        /\ \A i \in 1..Len(U[d]) :
              U[d][i].type = "INPUT_DATA" => Segment(U[d][i], L[d][U[d][i].user])
        /\ \A i \in 1..Len(D[d]) :
              D[d][i].type = "INPUT_DATA" => Segment(D[d][i], S[D[d][i].user])

Datagram(M, S, UU, DU, L) ==
    \A d \in M : /\ \A m \in UU[d] : Segment(m, L[d][m.user])
                 /\ \A m \in DU[d] : Segment(m, S[m.user])

-----------------------------------------------------------------------------
(* TCP alone brings every copy up to that of the sender.  Whoever handles s *)
(* and has n inputs of u finds each packet about u to be next or old, and   *)
(* in the end has t inputs.                                                 *)

Gapless(s, u, n) ==
    \A k \in 1..Len(s) : IsInput(s[k], u) =>
        s[k].first <= n \/ \E j \in 1..k-1 : IsInput(s[j], u) /\ s[k].first <= End(s[j])

Reaches(s, u, n, t) == t <= n \/ \E j \in 1..Len(s) : IsInput(s[j], u) /\ t <= End(s[j])

Conveys(s, u, n, t) == Gapless(s, u, n) /\ Reaches(s, u, n, t)

Delivery(M, S, U, D, L) ==
    \A d \in M :
        /\ \A u \in User : Conveys(D[d], u, Len(L[d][u]), Len(S[u]))
        /\ \A u \in M : Conveys(U[d], u, Len(S[u]), Len(L[d][u]))

-----------------------------------------------------------------------------
(* The authority over u is in one place: held by a client, in a gift on its *)
(* way up from one, or in a gift on its way down to one.                    *)

Up(M, U, u, c) == Delegates(U[c], u, M \ {c})
Down(D, u, c) == Delegates(D[c], u, {c})

Unique(M, U, D, A, u) ==
    \A c, d \in M :
        /\ A[c][u] = c /\ A[d][u] = d => c = d
        /\ \A i \in Up(M, U, u, c), j \in Up(M, U, u, d) : c = d /\ i = j
        /\ \A i \in Down(D, u, c), j \in Down(D, u, d) : c = d /\ i = j
        /\ A[c][u] = c => Up(M, U, u, d) = {} /\ Down(D, u, d) = {}
        /\ Up(M, U, u, c) = {} \/ Down(D, u, d) = {}

\* Who passes the authority over another's stream on keeps nothing back.
Honest(M, U) ==
    \A c \in M : \A i \in 1..Len(U[c]) :
        U[c][i].type = "DELEGATE_AUTHORITY" /\ U[c][i].user # c => U[c][i].authority # c

-----------------------------------------------------------------------------
(* Only one client has more of a stream than the server, and if anybody has *)
(* authority over it or is giving it away, then that one.  The gift comes   *)
(* after all inputs.                                                        *)

Ahead(S, L, u, d) == Len(S[u]) < Len(L[d][u])

Behind(M, S, U, D, A, L, u) ==
    /\ \A d, e \in M : Ahead(S, L, u, d) /\ Ahead(S, L, u, e) => d = e
    /\ \A c \in M : A[c][u] = c =>
          /\ Len(S[u]) <= Len(L[c][u])
          /\ \A d \in M : Ahead(S, L, u, d) => d = c
          /\ \A k \in 1..Len(D[c]) : ~IsInput(D[c][k], u)
    /\ \A c \in M : \A i \in Up(M, U, u, c) :
          /\ \A d \in M : Ahead(S, L, u, d) => d = c
          /\ \A k \in i..Len(U[c]) : ~IsInput(U[c][k], u)
    /\ \A c \in M : \A i \in Down(D, u, c) :
          /\ \A d \in M : ~Ahead(S, L, u, d)
          /\ \A k \in i..Len(D[c]) : ~IsInput(D[c][k], u)

-----------------------------------------------------------------------------
(* What the owner of a stream believes.  A client with view v of who has    *)
(* authority over u has view a when it has handled the first n packets of s. *)

Sees(s, n, v, u, a) ==
    \/ v = a /\ \A j \in 1..n : ~IsGift(s[j], u)
    \/ \E j \in 1..n : /\ IsGift(s[j], u) /\ s[j].authority = a
                       /\ \A k \in j+1..n : ~IsGift(s[k], u)

WillSee(D, A, u, a) == Sees(D[u], Len(D[u]), A[u][u], u, a)

\* After the QUIT of the user it sees with the authority nothing about u comes.
Final(s, v, u) ==
    \A i, j \in 1..Len(s) :
        i < j /\ s[i].type = "QUIT" /\ Sees(s, i - 1, v, u, s[i].user)
            => ~IsGift(s[j], u) /\ ~IsInput(s[j], u)

\* The owner will see who has the authority, or is its last known holder.  So
\* when it learns that the holder it sees has left, there is neither a holder
\* nor an input that it does not have.
Owner(M, S, U, D, A, L, u) ==
    /\ \A c \in M : A[c][u] = c => WillSee(D, A, u, c)
    /\ \A c \in M : \A i \in Up(M, U, u, c) :
          WillSee(D, A, u, IF c = u THEN U[c][i].authority ELSE c)
    /\ \A c \in M : Down(D, u, c) # {} => WillSee(D, A, u, c)
    /\ \A d \in M \ {u} : Ahead(S, L, u, d) => WillSee(D, A, u, d)
    /\ Final(D[u], A[u][u], u)

Settled(M, S, U, D, A, L, u) ==
    /\ Unique(M, U, D, A, u) /\ Behind(M, S, U, D, A, L, u)
    /\ u \in M => Owner(M, S, U, D, A, L, u)

Authority(M, S, U, D, A, L) ==
    Honest(M, U) /\ \A u \in User : Settled(M, S, U, D, A, L, u)

\* No QUIT about a member is on its way.
NoFalseQuit(M, D) ==
    \A d \in M : \A i \in 1..Len(D[d]) : D[d][i].type = "QUIT" => D[d][i].user \notin M

Streams(M, S, U, D, A, L) ==
    /\ Types(M, S, U, D, A, L) /\ NoFalseQuit(M, D)
    /\ Data(M, S, U, D, L) /\ Delivery(M, S, U, D, L)
    /\ Authority(M, S, U, D, A, L)

-----------------------------------------------------------------------------
(* What sending and taking do to a copy. *)

\* An input packet is a part of a stream, which may be longer.
LEMMA SegmentBelow ==
  ASSUME NEW m \in InputPacket, NEW s \in Seq(Input), NEW t \in Seq(Input)
  PROVE  /\ Segment(m, s) /\ Below(s, t) => Segment(m, t)
         /\ Segment(m, t) /\ Below(s, t) /\ End(m) <= Len(s) => Segment(m, s)
<1>1. /\ m.first \in Nat /\ Len(m.inputs) \in Nat /\ Len(s) \in Nat /\ Len(t) \in Nat
  BY LenProperties DEF InputPacket
<1>2. ASSUME Segment(m, s), Below(s, t) PROVE Segment(m, t)
  <2>1. End(m) <= Len(t)
    BY <1>1, <1>2 DEF Segment, Below, End
  <2>2. ASSUME NEW i \in 1..Len(m.inputs) PROVE m.inputs[i] = t[m.first + i]
    <3>1. m.first + i \in 1..Len(s)
      BY <1>1, <1>2 DEF Segment, End
    <3>2. s[m.first + i] = t[m.first + i]
      BY <1>2, <3>1 DEF Below
    <3> QED
      BY <1>2, <3>2 DEF Segment
  <2> QED
    BY <2>1, <2>2 DEF Segment
<1>3. ASSUME Segment(m, t), Below(s, t), End(m) <= Len(s) PROVE Segment(m, s)
  <2>1. \A i \in 1..Len(m.inputs) : m.first + i \in 1..Len(s)
    BY <1>1, <1>3 DEF End
  <2> QED
    BY <1>1, <1>3, <2>1 DEF Segment, Below
<1> QED
  BY <1>2, <1>3

LEMMA BelowTrans ==
  ASSUME NEW s \in Seq(Input), NEW t \in Seq(Input), NEW r \in Seq(Input),
         Below(s, t), Below(t, r)
  PROVE  Below(s, r)
BY LenProperties DEF Below

LEMMA BelowConcat ==
  ASSUME NEW s \in Seq(Input), NEW vs \in Seq(Input)
  PROVE  s \o vs \in Seq(Input) /\ Len(s \o vs) = Len(s) + Len(vs) /\ Below(s, s \o vs)
BY LenProperties, ConcatProperties DEF Below

\* Where s is comparable with a stream t that m is a part of, so is what
\* add_input_history makes of it; and the end of m is reached if its start was.
LEMMA FreshBelow ==
  ASSUME NEW m \in InputPacket, NEW s \in Seq(Input), NEW t \in Seq(Input),
         Segment(m, t), Below(s, t) \/ Below(t, s)
  PROVE  /\ Fresh(m, s) \in Seq(Input) /\ s \o Fresh(m, s) \in Seq(Input)
         /\ Below(s, s \o Fresh(m, s)) /\ Len(s) <= Len(s \o Fresh(m, s))
         /\ m.first <= Len(s) => End(m) <= Len(s \o Fresh(m, s))
         /\ \/ Fresh(m, s) = <<>> /\ s \o Fresh(m, s) = s
            \/ /\ Below(s \o Fresh(m, s), t) /\ Len(s \o Fresh(m, s)) = End(m)
               /\ Len(s) < End(m) /\ End(m) <= Len(t)
<1> DEFINE f == Fresh(m, s)
           e == s \o f
<1>1. /\ m.first \in Nat /\ m.inputs \in Seq(Input) /\ Len(m.inputs) \in Nat
      /\ Len(s) \in Nat /\ Len(t) \in Nat
  BY LenProperties DEF InputPacket
<1>2. f \in Seq(Input)
  BY FreshType
<1> HIDE DEF f
<1>3. e \in Seq(Input) /\ Below(s, e) /\ Len(e) = Len(s) + Len(f) /\ Len(f) \in Nat
  BY <1>2, BelowConcat, LenProperties
<1>4. CASE m.first <= Len(s) /\ Len(s) < End(m)
  <2>1. f = SubSeq(m.inputs, Len(s) - m.first + 1, Len(m.inputs))
    BY <1>4 DEF f, Fresh, End
  <2>2. /\ Len(f) = End(m) - Len(s)
        /\ \A i \in 1..Len(f) : f[i] = m.inputs[Len(s) - m.first + i]
    <3>1. Len(s) - m.first + 1 \in 1..Len(m.inputs)
      BY <1>1, <1>4 DEF End
    <3>2. \A i \in (Len(s) - m.first + 1)..Len(m.inputs) : m.inputs[i] \in Input
      BY <1>1, <3>1, ElementOfSeq
    <3> DEFINE b == Len(s) - m.first + 1
    <3>3. b \in Int /\ Len(m.inputs) \in Int /\ b <= Len(m.inputs)
      BY <1>1, <3>1
    <3> HIDE DEF b
    <3>4. /\ Len(f) = IF b <= Len(m.inputs) THEN Len(m.inputs) - b + 1 ELSE 0
          /\ \A i \in 1..(Len(m.inputs) - b + 1) : f[i] = m.inputs[b + i - 1]
      BY <2>1, <3>2, <3>3, SubSeqProperties DEF b
    <3>5. Len(f) = Len(m.inputs) - b + 1 /\ \A i \in 1..Len(f) : f[i] = m.inputs[b + i - 1]
      BY <3>3, <3>4
    <3> USE DEF b
    <3>6. \A i \in 1..Len(f) : (Len(s) - m.first + 1) + i - 1 = Len(s) - m.first + i
      BY <1>1, <3>5
    <3> QED
      BY <1>1, <3>5, <3>6 DEF End
  <2>3. Len(e) = End(m) /\ End(m) <= Len(t) /\ End(m) \in Nat
    BY <1>1, <1>3, <2>2 DEF Segment, End
  <2>4. Below(s, t)
    BY <1>1, <1>4, <2>3 DEF Below
  <2>5. ASSUME NEW i \in 1..Len(e) PROVE e[i] = t[i]
    <3>1. CASE i <= Len(s)
      BY <1>1, <1>3, <2>4, <3>1 DEF Below
    <3>2. CASE i > Len(s)
      <4>1. i - Len(s) \in 1..Len(f) /\ e[i] = f[i - Len(s)]
        BY <1>1, <1>2, <1>3, <3>2, ConcatProperties
      <4>2. f[i - Len(s)] = m.inputs[Len(s) - m.first + (i - Len(s))]
        BY <2>2, <4>1
      <4>3. Len(s) - m.first + (i - Len(s)) = i - m.first
        BY <1>1, <2>3
      <4>4. i - m.first \in 1..Len(m.inputs) /\ m.first + (i - m.first) = i
        BY <1>1, <1>4, <2>3, <3>2 DEF End
      <4> QED
        BY <4>1, <4>2, <4>3, <4>4 DEF Segment
    <3> QED
      BY <1>1, <1>3, <3>1, <3>2
  <2> QED
    BY <1>1, <1>2, <1>3, <1>4, <2>3, <2>5 DEF Below, f
<1>5. CASE ~(m.first <= Len(s) /\ Len(s) < End(m))
  <2>1. f = <<>>
    BY <1>5 DEF f, Fresh, End
  <2>2. e = s
    BY <2>1, ConcatEmptySeq
  <2> QED
    BY <1>1, <1>2, <1>3, <1>5, <2>1, <2>2 DEF f, End
<1> QED
  BY <1>4, <1>5

\* What is sent on TCP is about the inputs just added.
LEMMA PacketsSegment ==
  ASSUME NEW u \in User, NEW s \in Seq(Input), NEW vs \in Seq(Input)
  PROVE  /\ Packets(u, s, vs) \in Seq(Packet) /\ Len(Packets(u, s, vs)) = Len(vs)
         /\ \A i \in 1..Len(vs) :
              /\ IsInput(Packets(u, s, vs)[i], u)
              /\ Packets(u, s, vs)[i].first = Len(s) + i - 1
              /\ End(Packets(u, s, vs)[i]) = Len(s) + i
              /\ Segment(Packets(u, s, vs)[i], s \o vs)
<1>1. Packets(u, s, vs) \in Seq(Packet) /\ Len(Packets(u, s, vs)) = Len(vs)
  BY PacketsType
<1>2. Len(s) \in Nat /\ Len(vs) \in Nat /\ Len(s \o vs) = Len(s) + Len(vs)
  BY LenProperties, BelowConcat
<1>3. ASSUME NEW i \in 1..Len(vs)
      PROVE  /\ IsInput(Packets(u, s, vs)[i], u)
             /\ Packets(u, s, vs)[i].first = Len(s) + i - 1
             /\ End(Packets(u, s, vs)[i]) = Len(s) + i
             /\ Segment(Packets(u, s, vs)[i], s \o vs)
  <2> DEFINE m == Packets(u, s, vs)[i]
  <2>1. m = InputData(u, Len(s) + i - 1, <<vs[i]>>)
    BY DEF Packets
  <2>2. m.type = "INPUT_DATA" /\ m.user = u /\ m.first = Len(s) + i - 1 /\ m.inputs = <<vs[i]>>
    BY <2>1 DEF InputData
  <2> HIDE DEF m
  <2>3. Len(m.inputs) = 1 /\ m.inputs[1] = vs[i]
    BY <2>2
  <2>4. (s \o vs)[Len(s) + i] = vs[i]
    BY <1>2, ConcatProperties
  <2>5. End(m) = Len(s) + i
    BY <1>2, <2>2, <2>3 DEF End
  <2>6. Segment(m, s \o vs)
    BY <1>2, <2>2, <2>3, <2>4, <2>5 DEF Segment
  <2> QED
    BY <2>2, <2>5, <2>6 DEF m, IsInput
<1> QED
  BY <1>1, <1>3

\* A datagram holds the end of the copy at some time.
LEMMA DatagramsSegment ==
  ASSUME NEW u \in User, NEW s \in Seq(Input), NEW vs \in Seq(Input),
         NEW m \in Datagrams(u, s, vs)
  PROVE  m \in InputPacket /\ m.user = u /\ Segment(m, s \o vs)
<1> PICK i \in 1..Len(vs) :
       m = InputData(u, Len(s \o SubSeq(vs, 1, i)) - Len(History(s \o SubSeq(vs, 1, i))),
                     History(s \o SubSeq(vs, 1, i)))
  BY DEF Datagrams
<1> DEFINE p == SubSeq(vs, 1, i)
           t == s \o p
           h == History(t)
           b == Longer(1, Len(t) - HistoryLength + 1)
<1>1. m \in InputPacket
  BY DatagramsType
<1>2. Len(s) \in Nat /\ Len(vs) \in Nat
  BY LenProperties
<1>3. p \in Seq(Input) /\ Len(p) = i /\ \A j \in 1..i : p[j] = vs[j]
  <2>1. \A j \in 1..i : vs[j] \in Input
    BY <1>2, ElementOfSeq
  <2> QED
    BY <1>2, <2>1, SubSeqProperties
<1>4. m.user = u /\ m.first = Len(t) - Len(h) /\ m.inputs = h
  BY DEF InputData
<1> HIDE DEF p
<1>5. t \in Seq(Input) /\ Len(t) = Len(s) + i
  BY <1>3, BelowConcat
<1>6. Below(t, s \o vs)
  <2>1. ASSUME NEW j \in 1..Len(t) PROVE t[j] = (s \o vs)[j]
    <3>1. CASE j <= Len(s)
      BY <1>2, <1>3, <1>5, <3>1, ConcatProperties
    <3>2. CASE j > Len(s)
      <4>1. t[j] = p[j - Len(s)] /\ (s \o vs)[j] = vs[j - Len(s)] /\ j - Len(s) \in 1..i
        BY <1>2, <1>3, <1>5, <3>2, ConcatProperties
      <4> QED
        BY <1>3, <4>1
    <3> QED
      BY <1>2, <1>5, <3>1, <3>2
  <2> QED
    BY <1>2, <1>5, <2>1, BelowConcat DEF Below
<1> HIDE DEF t
<1>7. b \in 1..(Len(t) + 1) /\ Len(t) \in Nat
  BY <1>5, LenProperties, HistoryAssumption DEF Longer
<1>8. h = SubSeq(t, b, Len(t))
  BY DEF History
<1> HIDE DEF b, h
<1>9. Len(h) = Len(t) - b + 1 /\ \A j \in 1..Len(h) : h[j] = t[b + j - 1]
  <2>1. \A j \in b..Len(t) : t[j] \in Input
    BY <1>5, <1>7, ElementOfSeq
  <2>2. b \in Int /\ Len(t) \in Int /\ (b <= Len(t) \/ b = Len(t) + 1)
    BY <1>7
  <2>3. /\ Len(h) = IF b <= Len(t) THEN Len(t) - b + 1 ELSE 0
        /\ \A j \in 1..(Len(t) - b + 1) : h[j] = t[b + j - 1]
    BY <1>8, <2>1, <2>2, SubSeqProperties
  <2> QED
    BY <2>2, <2>3
<1>10. Segment(m, t)
  <2>1. m.first = b - 1 /\ End(m) = Len(t)
    <3>1. m.first = Len(t) - Len(h) /\ End(m) = m.first + Len(h)
      BY <1>4 DEF End
    <3>2. Len(h) = Len(t) - b + 1 /\ b \in Int /\ Len(t) \in Int
      BY <1>7, <1>9
    <3> QED
      BY <3>1, <3>2
  <2>2. ASSUME NEW j \in 1..Len(h) PROVE m.inputs[j] = t[m.first + j]
    <3>1. m.first + j = b + j - 1
      BY <1>7, <1>9, <2>1
    <3> QED
      BY <1>4, <1>9, <3>1
  <2> QED
    BY <1>4, <1>7, <2>1, <2>2 DEF Segment
<1>11. s \o vs \in Seq(Input)
  BY BelowConcat
<1> QED
  BY <1>1, <1>4, <1>5, <1>6, <1>10, <1>11, SegmentBelow

LEMMA Typed ==
  ASSUME NEW M, NEW S, NEW U, NEW D, NEW A, NEW L, Types(M, S, U, D, A, L)
  PROVE  /\ M \subseteq User
         /\ \A u \in User : S[u] \in Seq(Input) /\ Len(S[u]) \in Nat
         /\ \A d, u \in User : /\ L[d][u] \in Seq(Input) /\ Len(L[d][u]) \in Nat
                               /\ A[d][u] \in User
         /\ \A d \in User : /\ U[d] \in Seq(Packet) /\ Len(U[d]) \in Nat
                            /\ D[d] \in Seq(Packet) /\ Len(D[d]) \in Nat
         /\ \A d \in User : \A i \in 1..Len(U[d]) : U[d][i] \in Packet
         /\ \A d \in User : \A i \in 1..Len(D[d]) : D[d][i] \in Packet
<1>1. /\ M \subseteq User
      /\ \A u \in User : S[u] \in Seq(Input)
      /\ \A d, u \in User : L[d][u] \in Seq(Input) /\ A[d][u] \in User
      /\ \A d \in User : U[d] \in Seq(Packet) /\ D[d] \in Seq(Packet)
  BY DEF Types
<1> QED
  BY <1>1, LenProperties, ElementOfSeq

-----------------------------------------------------------------------------
(* What appending to a channel and handling its head do to the operators on *)
(* channels.                                                                 *)

LEMMA Joined ==
  ASSUME NEW s \in Seq(Packet), NEW ps \in Seq(Packet)
  PROVE  /\ s \o ps \in Seq(Packet) /\ Len(s \o ps) = Len(s) + Len(ps)
         /\ Len(s) \in Nat /\ Len(ps) \in Nat
         /\ \A i \in 1..Len(s) : (s \o ps)[i] = s[i] /\ i \in 1..Len(s \o ps)
         /\ \A i \in 1..Len(s \o ps) :
              i \notin 1..Len(s) => /\ i - Len(s) \in 1..Len(ps) /\ Len(s) < i
                                    /\ (s \o ps)[i] = ps[i - Len(s)]
BY LenProperties, ConcatProperties

LEMMA Appended ==
  ASSUME NEW s \in Seq(Packet), NEW m \in Packet
  PROVE  /\ Append(s, m) \in Seq(Packet) /\ Append(s, m) = s \o <<m>>
         /\ Len(Append(s, m)) = Len(s) + 1 /\ Len(s) \in Nat
         /\ Append(s, m)[Len(s) + 1] = m
         /\ \A i \in 1..Len(s) : Append(s, m)[i] = s[i]
         /\ <<m>> \in Seq(Packet) /\ Len(<<m>>) = 1 /\ <<m>>[1] = m
BY LenProperties, AppendProperties

LEMMA Tailed ==
  ASSUME NEW s \in Seq(Packet), s # <<>>
  PROVE  /\ Head(s) \in Packet /\ Head(s) = s[1] /\ Len(s) \in Nat \ {0}
         /\ Tail(s) \in Seq(Packet) /\ Len(Tail(s)) = Len(s) - 1
         /\ \A i \in 1..Len(Tail(s)) : Tail(s)[i] = s[i + 1] /\ i + 1 \in 1..Len(s)
         /\ \A i \in 1..Len(s) : i # 1 => i - 1 \in 1..Len(Tail(s)) /\ Tail(s)[i - 1] = s[i]
<1>1. Head(s) \in Packet /\ Head(s) = s[1] /\ Len(s) \in Nat \ {0}
  BY HeadTailProperties, EmptySeq
<1>2. /\ Tail(s) \in Seq(Packet) /\ Len(Tail(s)) = Len(s) - 1
      /\ \A i \in 1..Len(Tail(s)) : Tail(s)[i] = s[i + 1]
  BY HeadTailProperties
<1>3. ASSUME NEW i \in 1..Len(s), i # 1
      PROVE  i - 1 \in 1..Len(Tail(s)) /\ Tail(s)[i - 1] = s[i]
  <2>1. i - 1 \in 1..Len(Tail(s)) /\ (i - 1) + 1 = i
    BY <1>1, <1>2, <1>3
  <2> QED
    BY <1>2, <2>1
<1> QED
  BY <1>1, <1>2, <1>3

LEMMA InputEnd ==
  ASSUME NEW m \in Packet, m.type = "INPUT_DATA"
  PROVE  m \in InputPacket /\ m.first \in Nat /\ End(m) \in Nat /\ m.user \in User
<1>1. m \in InputPacket
  BY PacketParts
<1> QED
  BY <1>1, LenProperties DEF InputPacket, End

LEMMA ConveysMore ==
  ASSUME NEW s \in Seq(Packet), NEW u, NEW n \in Nat, NEW k \in Nat, NEW t \in Nat,
         n <= k
  PROVE  /\ Conveys(s, u, n, t) => Conveys(s, u, k, t)
         /\ \A r \in Nat : Conveys(s, u, n, t) /\ r <= k => Conveys(s, u, k, r)
<1>1. \A i \in 1..Len(s) : IsInput(s[i], u) => s[i].first \in Nat
  BY ElementOfSeq, InputEnd DEF IsInput
<1> QED
  BY <1>1 DEF Conveys, Gapless, Reaches

LEMMA ConveysConcat ==
  ASSUME NEW s \in Seq(Packet), NEW ps \in Seq(Packet), NEW u, NEW n \in Nat, NEW t \in Nat,
         Conveys(s, u, n, t), \A i \in 1..Len(ps) : ~IsInput(ps[i], u)
  PROVE  Conveys(s \o ps, u, n, t)
<1> DEFINE r == s \o ps
<1>1. /\ Len(s) \in Nat /\ \A i \in 1..Len(s) : r[i] = s[i] /\ i \in 1..Len(r)
      /\ \A i \in 1..Len(r) : IsInput(r[i], u) => i \in 1..Len(s)
  BY Joined
<1> HIDE DEF r
<1>2. ASSUME NEW k \in 1..Len(r), IsInput(r[k], u)
      PROVE  r[k].first <= n \/ \E j \in 1..k-1 : IsInput(r[j], u) /\ r[k].first <= End(r[j])
  <2>1. k \in 1..Len(s) /\ \A j \in 1..k-1 : j \in 1..Len(s)
    BY <1>1, <1>2
  <2> QED
    BY <1>1, <1>2, <2>1 DEF Conveys, Gapless
<1>3. Reaches(r, u, n, t)
  BY <1>1 DEF Conveys, Reaches
<1>4. Conveys(r, u, n, t)
  BY <1>2, <1>3 DEF Conveys, Gapless
<1> QED
  BY <1>4 DEF r

\* What is sent next comes next.
LEMMA ConveysPackets ==
  ASSUME NEW s \in Seq(Packet), NEW u \in User, NEW n \in Nat,
         NEW x \in Seq(Input), NEW vs \in Seq(Input), Conveys(s, u, n, Len(x))
  PROVE  Conveys(s \o Packets(u, x, vs), u, n, Len(x) + Len(vs))
<1> DEFINE ps == Packets(u, x, vs)
           r == s \o ps
<1>1. /\ ps \in Seq(Packet) /\ Len(ps) = Len(vs) /\ Len(x) \in Nat /\ Len(vs) \in Nat
      /\ \A i \in 1..Len(vs) : /\ IsInput(ps[i], u)
                               /\ ps[i].first = Len(x) + i - 1 /\ End(ps[i]) = Len(x) + i
  BY PacketsSegment, LenProperties
<1> HIDE DEF ps
<1>2. /\ Len(s) \in Nat /\ Len(r) = Len(s) + Len(vs)
      /\ \A i \in 1..Len(s) : r[i] = s[i]
      /\ \A i \in 1..Len(r) : i \notin 1..Len(s) => /\ i - Len(s) \in 1..Len(vs)
                                                    /\ r[i] = ps[i - Len(s)]
  BY <1>1, Joined
<1> HIDE DEF r
<1>3. ASSUME NEW k \in 1..Len(r), IsInput(r[k], u)
      PROVE  r[k].first <= n \/ \E j \in 1..k-1 : IsInput(r[j], u) /\ r[k].first <= End(r[j])
  <2>1. CASE k \in 1..Len(s)
    <3>1. \A j \in 1..k-1 : j \in 1..Len(s)
      BY <1>2, <2>1
    <3> QED
      BY <1>2, <1>3, <2>1, <3>1 DEF Conveys, Gapless
  <2>2. CASE k = Len(s) + 1
    <3>1. k \notin 1..Len(s) /\ k - Len(s) = 1 /\ 1 \in 1..Len(vs)
      BY <1>2, <2>2
    <3>3. r[k] = ps[1] /\ r[k].first = Len(x) + 1 - 1
      BY <1>1, <1>2, <3>1
    <3>4. r[k].first = Len(x)
      BY <1>1, <3>3
    <3>2. \A j \in 1..Len(s) : j \in 1..k-1
      BY <1>2, <2>2
    <3> QED
      BY <1>2, <3>2, <3>4 DEF Conveys, Reaches
  <2>3. CASE k \notin 1..Len(s) /\ k # Len(s) + 1
    <3>1. /\ k - Len(s) \in 1..Len(vs) /\ r[k] = ps[k - Len(s)]
          /\ k - 1 \in 1..Len(r) /\ k - 1 \notin 1..Len(s) /\ k - 1 \in 1..k-1
      BY <1>2, <2>3
    <3>2. (k - 1) - Len(s) \in 1..Len(vs) /\ r[k - 1] = ps[(k - 1) - Len(s)]
      BY <1>2, <3>1
    <3>3. IsInput(r[k - 1], u) /\ r[k].first = Len(x) + (k - Len(s)) - 1
      BY <1>1, <3>1, <3>2
    <3>4. End(r[k - 1]) = Len(x) + ((k - 1) - Len(s))
      BY <1>1, <3>2
    <3>5. r[k].first <= End(r[k - 1])
      BY <1>1, <1>2, <3>3, <3>4
    <3> QED
      BY <3>1, <3>3, <3>5
  <2> QED
    BY <2>1, <2>2, <2>3
<1>4. Reaches(r, u, n, Len(x) + Len(vs))
  <2>1. CASE Len(vs) = 0
    <3>1. \A j \in 1..Len(s) : j \in 1..Len(r)
      BY <1>2
    <3> QED
      BY <1>1, <1>2, <2>1, <3>1 DEF Conveys, Reaches
  <2>2. CASE Len(vs) # 0
    <3>1. /\ Len(r) \in 1..Len(r) /\ Len(r) \notin 1..Len(s)
          /\ Len(r) - Len(s) = Len(vs) /\ Len(vs) \in 1..Len(vs)
      BY <1>1, <1>2, <2>2
    <3>2. IsInput(r[Len(r)], u) /\ End(r[Len(r)]) = Len(x) + Len(vs)
      BY <1>1, <1>2, <3>1
    <3> QED
      BY <1>1, <3>1, <3>2 DEF Reaches
  <2> QED
    BY <2>1, <2>2
<1>5. Conveys(r, u, n, Len(x) + Len(vs))
  BY <1>3, <1>4 DEF Conveys, Gapless
<1> QED
  BY <1>5 DEF r, ps

\* The head of a channel is next or old, and once it is handled the rest goes on.
LEMMA ConveysTail ==
  ASSUME NEW s \in Seq(Packet), s # <<>>, NEW u, NEW n \in Nat, NEW t \in Nat,
         Conveys(s, u, n, t)
  PROVE  /\ IsInput(Head(s), u) => Head(s).first <= n
         /\ \A k \in Nat : n <= k /\ (IsInput(Head(s), u) => End(Head(s)) <= k)
                             => Conveys(Tail(s), u, k, t)
<1> DEFINE r == Tail(s)
<1>1. /\ Head(s) = s[1] /\ Len(s) \in Nat \ {0} /\ Len(r) = Len(s) - 1
      /\ \A i \in 1..Len(r) : r[i] = s[i + 1] /\ i + 1 \in 1..Len(s)
      /\ \A i \in 1..Len(s) : i # 1 => i - 1 \in 1..Len(r) /\ r[i - 1] = s[i]
  BY Tailed
<1>2. \A i \in 1..Len(s) : IsInput(s[i], u) => s[i].first \in Nat /\ End(s[i]) \in Nat
  BY ElementOfSeq, InputEnd DEF IsInput
<1> HIDE DEF r
<1>3. IsInput(s[1], u) => s[1].first <= n
  BY <1>1 DEF Conveys, Gapless
<1>4. ASSUME NEW k \in Nat, n <= k, IsInput(s[1], u) => End(s[1]) <= k
      PROVE  Conveys(r, u, k, t)
  <2>1. ASSUME NEW i \in 1..Len(r), IsInput(r[i], u)
        PROVE  r[i].first <= k \/ \E j \in 1..i-1 : IsInput(r[j], u) /\ r[i].first <= End(r[j])
    <3>1. r[i] = s[i + 1] /\ i + 1 \in 1..Len(s) /\ IsInput(s[i + 1], u)
      BY <1>1, <2>1
    <3>2. CASE s[i + 1].first <= n
      BY <1>2, <1>4, <3>1, <3>2
    <3>3. CASE \E j \in 1..(i + 1) - 1 : IsInput(s[j], u) /\ s[i + 1].first <= End(s[j])
      <4> PICK j \in 1..(i + 1) - 1 : IsInput(s[j], u) /\ s[i + 1].first <= End(s[j])
        BY <3>3
      <4>1. j \in 1..Len(s)
        BY <1>1, <3>1
      <4>2. CASE j = 1
        BY <1>1, <1>2, <1>4, <3>1, <4>1, <4>2
      <4>3. CASE j # 1
        <5>1. j - 1 \in 1..i-1 /\ r[j - 1] = s[j]
          BY <1>1, <4>1, <4>3
        <5> QED
          BY <3>1, <5>1
      <4> QED
        BY <4>2, <4>3
    <3> QED
      BY <3>1, <3>2, <3>3 DEF Conveys, Gapless
  <2>2. Reaches(r, u, k, t)
    <3>1. CASE t <= n
      BY <1>4, <3>1 DEF Reaches
    <3>2. CASE \E j \in 1..Len(s) : IsInput(s[j], u) /\ t <= End(s[j])
      <4> PICK j \in 1..Len(s) : IsInput(s[j], u) /\ t <= End(s[j])
        BY <3>2
      <4>1. CASE j = 1
        BY <1>2, <1>4, <4>1 DEF Reaches
      <4>2. CASE j # 1
        BY <1>1, <4>2 DEF Reaches
      <4> QED
        BY <4>1, <4>2
    <3> QED
      BY <3>1, <3>2 DEF Conveys, Reaches
  <2> QED
    BY <2>1, <2>2 DEF Conveys, Gapless
<1> QED
  BY <1>1, <1>3, <1>4 DEF r

LEMMA DelegatesConcat ==
  ASSUME NEW s \in Seq(Packet), NEW ps \in Seq(Packet), NEW u, NEW a,
         \A i \in 1..Len(ps) : ~IsGift(ps[i], u)
  PROVE  Delegates(s \o ps, u, a) = Delegates(s, u, a)
BY Joined DEF Delegates, IsGift

LEMMA DelegatesAppend ==
  ASSUME NEW s \in Seq(Packet), NEW m \in Packet, NEW u, NEW a
  PROVE  \A i : i \in Delegates(Append(s, m), u, a) <=>
            \/ i \in Delegates(s, u, a)
            \/ i = Len(s) + 1 /\ IsGift(m, u) /\ m.authority \in a
BY Appended DEF Delegates, IsGift

LEMMA DelegatesTail ==
  ASSUME NEW s \in Seq(Packet), s # <<>>, NEW u, NEW a
  PROVE  \A i \in Delegates(Tail(s), u, a) :
            i \in 1..Len(Tail(s)) /\ i + 1 \in Delegates(s, u, a)
BY Tailed DEF Delegates

-----------------------------------------------------------------------------
(* The view of an owner. *)

LEMMA SeesUnique ==
  ASSUME NEW s, NEW n \in Nat, NEW v, NEW u, NEW a, NEW b,
         Sees(s, n, v, u, a), Sees(s, n, v, u, b)
  PROVE  a = b
<1>1. CASE \A j \in 1..n : ~IsGift(s[j], u)
  BY <1>1 DEF Sees
<1>2. CASE \E j \in 1..n : IsGift(s[j], u)
  <2> PICK i \in 1..n : /\ IsGift(s[i], u) /\ s[i].authority = a
                        /\ \A k \in i+1..n : ~IsGift(s[k], u)
    BY <1>2 DEF Sees
  <2> PICK j \in 1..n : /\ IsGift(s[j], u) /\ s[j].authority = b
                        /\ \A k \in j+1..n : ~IsGift(s[k], u)
    BY <1>2 DEF Sees
  <2>1. i = j
    <3>1. ~(i < j) /\ ~(j < i)
      OBVIOUS
    <3> QED
      BY <3>1
  <2> QED
    BY <2>1
<1> QED
  BY <1>1, <1>2

LEMMA SeesSame ==
  ASSUME NEW s, NEW t, NEW n \in Nat, NEW v, NEW u, NEW a, \A j \in 1..n : s[j] = t[j]
  PROVE  Sees(s, n, v, u, a) <=> Sees(t, n, v, u, a)
<1>1. \A j \in 1..n : \A k \in j+1..n : k \in 1..n
  OBVIOUS
<1> QED
  BY <1>1 DEF Sees

\* Packets that give no authority over u leave the view as it is.
LEMMA SeesMore ==
  ASSUME NEW s, NEW n \in Nat, NEW m \in Nat, n <= m, NEW v, NEW u, NEW a,
         \A k \in n+1..m : ~IsGift(s[k], u)
  PROVE  Sees(s, m, v, u, a) <=> Sees(s, n, v, u, a)
<1>1. ASSUME Sees(s, n, v, u, a) PROVE Sees(s, m, v, u, a)
  <2>1. CASE v = a /\ \A j \in 1..n : ~IsGift(s[j], u)
    <3>1. \A j \in 1..m : j \in 1..n \/ j \in n+1..m
      OBVIOUS
    <3> QED
      BY <2>1, <3>1 DEF Sees
  <2>2. CASE \E j \in 1..n : /\ IsGift(s[j], u) /\ s[j].authority = a
                             /\ \A k \in j+1..n : ~IsGift(s[k], u)
    <3> PICK j \in 1..n : /\ IsGift(s[j], u) /\ s[j].authority = a
                          /\ \A k \in j+1..n : ~IsGift(s[k], u)
      BY <2>2
    <3>1. j \in 1..m /\ \A k \in j+1..m : k \in j+1..n \/ k \in n+1..m
      OBVIOUS
    <3> QED
      BY <3>1 DEF Sees
  <2> QED
    BY <1>1, <2>1, <2>2 DEF Sees
<1>2. ASSUME Sees(s, m, v, u, a) PROVE Sees(s, n, v, u, a)
  <2>1. CASE v = a /\ \A j \in 1..m : ~IsGift(s[j], u)
    <3>1. \A j \in 1..n : j \in 1..m
      OBVIOUS
    <3> QED
      BY <2>1, <3>1 DEF Sees
  <2>2. CASE \E j \in 1..m : /\ IsGift(s[j], u) /\ s[j].authority = a
                             /\ \A k \in j+1..m : ~IsGift(s[k], u)
    <3> PICK j \in 1..m : /\ IsGift(s[j], u) /\ s[j].authority = a
                          /\ \A k \in j+1..m : ~IsGift(s[k], u)
      BY <2>2
    <3>1. j \in 1..n
      <4>1. j \notin n+1..m
        OBVIOUS
      <4> QED
        BY <4>1
    <3>2. \A k \in j+1..n : k \in j+1..m
      OBVIOUS
    <3> QED
      BY <3>1, <3>2 DEF Sees
  <2> QED
    BY <1>2, <2>1, <2>2 DEF Sees
<1> QED
  BY <1>1, <1>2

LEMMA SeesAppend ==
  ASSUME NEW s \in Seq(Packet), NEW m \in Packet, NEW v, NEW u, IsGift(m, u)
  PROVE  Sees(Append(s, m), Len(s) + 1, v, u, m.authority)
<1>1. Len(s) \in Nat /\ Append(s, m)[Len(s) + 1] = m /\ Len(s) + 1 \in 1..Len(s)+1
  BY Appended
<1>2. \A k \in (Len(s) + 1)+1..Len(s)+1 : FALSE
  BY <1>1
<1> QED
  BY <1>1, <1>2 DEF Sees

\* Handling the head of the channel brings the view one packet forward.
LEMMA SeesTail ==
  ASSUME NEW s \in Seq(Packet), s # <<>>, NEW n \in 1..Len(s), NEW v, NEW u, NEW a
  PROVE  Sees(s, n, v, u, a)
           <=> Sees(Tail(s), n - 1, IF IsGift(Head(s), u) THEN Head(s).authority ELSE v, u, a)
<1> DEFINE r == Tail(s)
           w == IF IsGift(Head(s), u) THEN Head(s).authority ELSE v
<1>1. /\ Head(s) = s[1] /\ Len(s) \in Nat \ {0} /\ Len(r) = Len(s) - 1
      /\ \A i \in 1..Len(r) : r[i] = s[i + 1]
      /\ \A i \in 1..Len(s) : i # 1 => i - 1 \in 1..Len(r) /\ r[i - 1] = s[i]
  BY Tailed
<1> HIDE DEF r
<1>2. ASSUME Sees(s, n, v, u, a) PROVE Sees(r, n - 1, w, u, a)
  <2>1. CASE v = a /\ \A j \in 1..n : ~IsGift(s[j], u)
    <3>1. ~IsGift(s[1], u) /\ \A j \in 1..n-1 : r[j] = s[j + 1] /\ j + 1 \in 1..n
      BY <1>1, <2>1
    <3> QED
      BY <1>1, <2>1, <3>1 DEF Sees
  <2>2. CASE \E j \in 1..n : /\ IsGift(s[j], u) /\ s[j].authority = a
                             /\ \A k \in j+1..n : ~IsGift(s[k], u)
    <3> PICK j \in 1..n : /\ IsGift(s[j], u) /\ s[j].authority = a
                          /\ \A k \in j+1..n : ~IsGift(s[k], u)
      BY <2>2
    <3>1. \A k \in 1..n-1 : k >= j => r[k] = s[k + 1] /\ k + 1 \in j+1..n
      BY <1>1
    <3>2. CASE j = 1
      <4>1. w = a
        BY <1>1, <3>2
      <4>2. \A k \in 1..n-1 : ~IsGift(r[k], u)
        BY <3>1, <3>2
      <4> QED
        BY <4>1, <4>2 DEF Sees
    <3>3. CASE j # 1
      <4>1. j - 1 \in 1..n-1 /\ r[j - 1] = s[j]
        BY <1>1, <3>3
      <4>2. \A k \in (j-1)+1..n-1 : ~IsGift(r[k], u)
        <5>1. \A k \in (j-1)+1..n-1 : k \in 1..n-1 /\ k >= j
          BY <3>3
        <5> QED
          BY <3>1, <5>1
      <4> QED
        BY <4>1, <4>2 DEF Sees
    <3> QED
      BY <3>2, <3>3
  <2> QED
    BY <1>2, <2>1, <2>2 DEF Sees
<1>3. ASSUME Sees(r, n - 1, w, u, a) PROVE Sees(s, n, v, u, a)
  <2>1. CASE w = a /\ \A j \in 1..n-1 : ~IsGift(r[j], u)
    <3>1. \A j \in 2..n : ~IsGift(s[j], u)
      <4>1. \A j \in 2..n : j \in 1..Len(s) /\ j # 1 /\ j - 1 \in 1..n-1
        BY <1>1
      <4>2. \A j \in 2..n : r[j - 1] = s[j]
        BY <1>1, <4>1
      <4> QED
        BY <2>1, <4>1, <4>2
    <3>2. CASE IsGift(s[1], u)
      <4>1. s[1].authority = a /\ 1 \in 1..n /\ \A j \in 1+1..n : j \in 2..n
        BY <1>1, <2>1, <3>2
      <4> QED
        BY <3>1, <3>2, <4>1 DEF Sees
    <3>3. CASE ~IsGift(s[1], u)
      <4>1. v = a /\ \A j \in 1..n : j = 1 \/ j \in 2..n
        BY <1>1, <2>1, <3>3
      <4> QED
        BY <3>1, <3>3, <4>1 DEF Sees
    <3> QED
      BY <3>2, <3>3
  <2>2. CASE \E j \in 1..n-1 : /\ IsGift(r[j], u) /\ r[j].authority = a
                               /\ \A k \in j+1..n-1 : ~IsGift(r[k], u)
    <3> PICK j \in 1..n-1 : /\ IsGift(r[j], u) /\ r[j].authority = a
                            /\ \A k \in j+1..n-1 : ~IsGift(r[k], u)
      BY <2>2
    <3>0. j \in Int /\ n \in Int /\ 1 <= j /\ j <= n - 1 /\ n <= Len(s)
      BY <1>1
    <3>3. j + 1 \in 1..n /\ j \in 1..Len(r)
      BY <1>1, <3>0
    <3>1. j + 1 \in 1..n /\ r[j] = s[j + 1]
      BY <1>1, <3>3
    <3>2. ASSUME NEW k \in (j+1)+1..n PROVE ~IsGift(s[k], u)
      <4>1. j \in Int /\ n \in Int /\ k \in Int /\ 1 <= j /\ j + 2 <= k /\ k <= n
        OBVIOUS
      <4>2. k - 1 \in j+1..n-1 /\ k \in 1..n /\ k # 1
        BY <4>1
      <4>3. k \in 1..Len(s)
        BY <1>1, <4>2
      <4>4. r[k - 1] = s[k]
        BY <1>1, <4>2, <4>3
      <4> QED
        BY <4>2, <4>4
    <3> QED
      BY <3>1, <3>2 DEF Sees
  <2> QED
    BY <1>3, <2>1, <2>2 DEF Sees
<1> QED
  BY <1>2, <1>3 DEF r

-----------------------------------------------------------------------------
(* What a channel has about u is what it had, after k packets have gone.     *)

Rest(s2, s, k, u, a) ==
    \A i \in 1..Len(s2) :
        IsInput(s2[i], u) \/ (IsGift(s2[i], u) /\ s2[i].authority \in a)
            => i + k \in 1..Len(s) /\ s2[i] = s[i + k]
Follows(s2, s, u, a) == \E k \in {0, 1} : Rest(s2, s, k, u, a)

LEMMA FollowsSame ==
  ASSUME NEW s \in Seq(Packet), NEW u, NEW a
  PROVE  Follows(s, s, u, a)
<1>1. Rest(s, s, 0, u, a)
  BY LenProperties DEF Rest
<1> QED
  BY <1>1 DEF Follows

LEMMA FollowsConcat ==
  ASSUME NEW s \in Seq(Packet), NEW ps \in Seq(Packet), NEW u, NEW a,
         \A i \in 1..Len(ps) :
            ~IsInput(ps[i], u) /\ ~(IsGift(ps[i], u) /\ ps[i].authority \in a)
  PROVE  Follows(s \o ps, s, u, a)
<1> DEFINE r == s \o ps
<1>1. \A i \in 1..Len(r) : IsInput(r[i], u) \/ (IsGift(r[i], u) /\ r[i].authority \in a)
                              => i \in 1..Len(s) /\ r[i] = s[i]
  BY Joined
<1>2. Rest(r, s, 0, u, a)
  BY <1>1, LenProperties DEF Rest
<1> QED
  BY <1>2 DEF Follows

LEMMA FollowsTail ==
  ASSUME NEW s \in Seq(Packet), s # <<>>, NEW u, NEW a
  PROVE  Follows(Tail(s), s, u, a)
<1>1. Rest(Tail(s), s, 1, u, a)
  BY Tailed DEF Rest
<1> QED
  BY <1>1 DEF Follows

\* Nothing about the authority over w moved.
Undisturbed(M, S, U, D, A, L, M2, S2, U2, D2, A2, L2, w) ==
    \A d \in M2 :
        /\ d \in M /\ d \in User
        /\ Len(U2[d]) \in Nat /\ Len(U[d]) \in Nat /\ Follows(U2[d], U[d], w, User)
        /\ Len(D2[d]) \in Nat /\ Len(D[d]) \in Nat /\ Follows(D2[d], D[d], w, {d})
        /\ A2[d][w] = d => A[d][w] = d /\ Len(S2[w]) <= Len(L2[d][w])
        /\ Ahead(S2, L2, w, d) => Ahead(S, L, w, d)

\* Then it is where it was.
LEMMA Elsewhere ==
  ASSUME NEW M, NEW S, NEW U, NEW D, NEW A, NEW L,
         NEW M2, NEW S2, NEW U2, NEW D2, NEW A2, NEW L2, NEW w,
         Undisturbed(M, S, U, D, A, L, M2, S2, U2, D2, A2, L2, w),
         Unique(M, U, D, A, w), Behind(M, S, U, D, A, L, w)
  PROVE  /\ Unique(M2, U2, D2, A2, w) /\ Behind(M2, S2, U2, D2, A2, L2, w)
         /\ \A d \in M2 : \A i \in Up(M2, U2, w, d) :
               \E j \in Up(M, U, w, d) : U[d][j].authority = U2[d][i].authority
         /\ \A d \in M2 : Down(D2, w, d) # {} => Down(D, w, d) # {}
<1> DEFINE ku(d) == CHOOSE k \in {0, 1} : Rest(U2[d], U[d], k, w, User)
           kd(d) == CHOOSE k \in {0, 1} : Rest(D2[d], D[d], k, w, {d})
<1>1. \A d \in M2 : d \in M /\ d \in User
  BY DEF Undisturbed
<1>2. \A d \in M2 : /\ Len(U2[d]) \in Nat /\ Len(U[d]) \in Nat
                    /\ ku(d) \in {0, 1} /\ Rest(U2[d], U[d], ku(d), w, User)
                    /\ Len(D2[d]) \in Nat /\ Len(D[d]) \in Nat
                    /\ kd(d) \in {0, 1} /\ Rest(D2[d], D[d], kd(d), w, {d})
  BY DEF Undisturbed, Follows
<1> HIDE DEF ku, kd
<1>3. \A d \in M2 : /\ A2[d][w] = d => A[d][w] = d /\ Len(S2[w]) <= Len(L2[d][w])
                    /\ Ahead(S2, L2, w, d) => Ahead(S, L, w, d)
  BY DEF Undisturbed
<1>4. ASSUME NEW d \in M2, NEW i \in Up(M2, U2, w, d)
      PROVE  i \in Int /\ i + ku(d) \in Up(M, U, w, d) /\ U[d][i + ku(d)] = U2[d][i]
  <2>1. /\ i \in 1..Len(U2[d]) /\ IsGift(U2[d][i], w)
        /\ U2[d][i].authority \in User /\ U2[d][i].authority \in M \ {d}
    BY <1>1 DEF Up, Delegates, IsGift
  <2>2. i + ku(d) \in 1..Len(U[d]) /\ U[d][i + ku(d)] = U2[d][i]
    BY <1>2, <2>1 DEF Rest
  <2> QED
    BY <2>1, <2>2 DEF Up, Delegates, IsGift
<1>5. ASSUME NEW d \in M2, NEW i \in Down(D2, w, d)
      PROVE  i \in Int /\ i + kd(d) \in Down(D, w, d)
  <2>1. i \in 1..Len(D2[d]) /\ IsGift(D2[d][i], w) /\ D2[d][i].authority \in {d}
    BY DEF Down, Delegates, IsGift
  <2>2. i + kd(d) \in 1..Len(D[d]) /\ D[d][i + kd(d)] = D2[d][i]
    BY <1>2, <2>1 DEF Rest
  <2> QED
    BY <2>1, <2>2 DEF Down, Delegates, IsGift
<1>6. Unique(M2, U2, D2, A2, w)
  <2>1. ASSUME NEW c \in M2, NEW d \in M2, NEW i \in Up(M2, U2, w, c), NEW j \in Up(M2, U2, w, d)
        PROVE  c = d /\ i = j
    <3>1. c = d /\ i + ku(c) = j + ku(d)
      BY <1>1, <1>4 DEF Unique
    <3>2. i + ku(c) = j + ku(c) /\ i \in Int /\ j \in Int /\ ku(c) \in {0, 1}
      BY <1>2, <1>4, <3>1
    <3> QED
      BY <3>1, <3>2
  <2>2. ASSUME NEW c \in M2, NEW d \in M2, NEW i \in Down(D2, w, c), NEW j \in Down(D2, w, d)
        PROVE  c = d /\ i = j
    <3>1. c = d /\ i + kd(c) = j + kd(d)
      BY <1>1, <1>5 DEF Unique
    <3>2. i + kd(c) = j + kd(c) /\ i \in Int /\ j \in Int /\ kd(c) \in {0, 1}
      BY <1>2, <1>5, <3>1
    <3> QED
      BY <3>1, <3>2
  <2>3. ASSUME NEW c \in M2, NEW d \in M2
        PROVE  /\ A2[c][w] = c /\ A2[d][w] = d => c = d
               /\ A2[c][w] = c => Up(M2, U2, w, d) = {} /\ Down(D2, w, d) = {}
               /\ Up(M2, U2, w, c) = {} \/ Down(D2, w, d) = {}
    <3>1. /\ Up(M, U, w, d) = {} => Up(M2, U2, w, d) = {}
          /\ Up(M, U, w, c) = {} => Up(M2, U2, w, c) = {}
          /\ Down(D, w, d) = {} => Down(D2, w, d) = {}
      BY <1>4, <1>5
    <3> QED
      BY <1>1, <1>3, <3>1 DEF Unique
  <2> QED
    BY <2>1, <2>2, <2>3 DEF Unique
<1>7. ASSUME NEW d \in M2, NEW i \in Up(M2, U2, w, d), NEW k \in i..Len(U2[d])
      PROVE  ~IsInput(U2[d][k], w)
  <2>1. SUFFICES ASSUME IsInput(U2[d][k], w) PROVE FALSE
    OBVIOUS
  <2>2. i \in 1..Len(U2[d]) /\ i \in Int
    BY DEF Up, Delegates
  <2>3. k \in 1..Len(U2[d]) /\ k \in Int
    BY <2>2
  <2>4. k + ku(d) \in 1..Len(U[d]) /\ IsInput(U[d][k + ku(d)], w)
    BY <1>2, <2>1, <2>3 DEF Rest
  <2>5. k + ku(d) \in i+ku(d)..Len(U[d])
    <3>1. i \in Int /\ k \in Int /\ i <= k
      BY <2>2
    <3>2. ku(d) \in Int /\ Len(U[d]) \in Int /\ k + ku(d) <= Len(U[d])
      BY <1>2, <2>4 DEF Rest
    <3>3. \A n \in Int : i + ku(d) <= k + ku(d)
      BY <3>1, <3>2
    <3> HIDE DEF ku
    <3> QED
      BY <3>1, <3>2, <3>3
  <2> QED
    BY <1>1, <1>4, <2>4, <2>5 DEF Behind
<1>8. ASSUME NEW d \in M2, NEW i \in Down(D2, w, d), NEW k \in i..Len(D2[d])
      PROVE  ~IsInput(D2[d][k], w)
  <2>1. SUFFICES ASSUME IsInput(D2[d][k], w) PROVE FALSE
    OBVIOUS
  <2>2. i \in 1..Len(D2[d]) /\ i \in Int
    BY DEF Down, Delegates
  <2>3. k \in 1..Len(D2[d]) /\ k \in Int
    BY <2>2
  <2>4. k + kd(d) \in 1..Len(D[d]) /\ IsInput(D[d][k + kd(d)], w)
    BY <1>2, <2>1, <2>3 DEF Rest
  <2>5. k + kd(d) \in i+kd(d)..Len(D[d])
    <3>1. i \in Int /\ k \in Int /\ i <= k
      BY <2>2
    <3>2. kd(d) \in Int /\ Len(D[d]) \in Int /\ k + kd(d) <= Len(D[d])
      BY <1>2, <2>4 DEF Rest
    <3>3. \A n \in Int : i + kd(d) <= k + kd(d)
      BY <3>1, <3>2
    <3> HIDE DEF kd
    <3> QED
      BY <3>1, <3>2, <3>3
  <2> QED
    BY <1>1, <1>5, <2>4, <2>5 DEF Behind
<1>9. ASSUME NEW d \in M2, A2[d][w] = d, NEW k \in 1..Len(D2[d])
      PROVE  ~IsInput(D2[d][k], w)
  BY <1>1, <1>2, <1>9, <1>3 DEF Rest, Behind
<1>10. Behind(M2, S2, U2, D2, A2, L2, w)
  <2>1. ASSUME NEW c \in M2, A2[c][w] = c
        PROVE  /\ Len(S2[w]) <= Len(L2[c][w])
               /\ \A d \in M2 : Ahead(S2, L2, w, d) => d = c
    BY <1>1, <1>3, <2>1 DEF Behind
  <2>2. ASSUME NEW c \in M2, NEW i \in Up(M2, U2, w, c), NEW d \in M2, Ahead(S2, L2, w, d)
        PROVE  d = c
    BY <1>1, <1>4, <1>3, <2>2 DEF Behind
  <2>3. ASSUME NEW c \in M2, NEW i \in Down(D2, w, c), NEW d \in M2
        PROVE  ~Ahead(S2, L2, w, d)
    BY <1>1, <1>5, <1>3 DEF Behind
  <2>4. \A d, e \in M2 : Ahead(S2, L2, w, d) /\ Ahead(S2, L2, w, e) => d = e
    BY <1>1, <1>3 DEF Behind
  <2> QED
    BY <1>7, <1>8, <1>9, <2>1, <2>2, <2>3, <2>4 DEF Behind
<1>11. ASSUME NEW d \in M2, NEW i \in Up(M2, U2, w, d)
       PROVE  \E j \in Up(M, U, w, d) : U[d][j].authority = U2[d][i].authority
  BY <1>4
<1> QED
  BY <1>5, <1>6, <1>10, <1>11

LEMMA OwnerElsewhere ==
  ASSUME NEW M, NEW S, NEW U, NEW D, NEW A, NEW L,
         NEW M2, NEW S2, NEW U2, NEW D2, NEW A2, NEW L2, NEW w,
         Undisturbed(M, S, U, D, A, L, M2, S2, U2, D2, A2, L2, w),
         Unique(M, U, D, A, w), Behind(M, S, U, D, A, L, w), Owner(M, S, U, D, A, L, w),
         \A a : WillSee(D, A, w, a) => WillSee(D2, A2, w, a),
         Final(D2[w], A2[w][w], w)
  PROVE  Owner(M2, S2, U2, D2, A2, L2, w)
<1>1. \A d \in M2 : /\ d \in M
                    /\ A2[d][w] = d => A[d][w] = d
                    /\ Ahead(S2, L2, w, d) => Ahead(S, L, w, d)
  BY DEF Undisturbed
<1>2. \A d \in M2 : /\ Down(D2, w, d) # {} => Down(D, w, d) # {}
                    /\ \A i \in Up(M2, U2, w, d) :
                          \E j \in Up(M, U, w, d) : U[d][j].authority = U2[d][i].authority
  BY Elsewhere
<1>3. ASSUME NEW c \in M2, NEW i \in Up(M2, U2, w, c)
      PROVE  WillSee(D2, A2, w, IF c = w THEN U2[c][i].authority ELSE c)
  <2> PICK j \in Up(M, U, w, c) : U[c][j].authority = U2[c][i].authority
    BY <1>2
  <2> QED
    BY <1>1 DEF Owner
<1>4. ASSUME NEW c \in M2, A2[c][w] = c \/ Down(D2, w, c) # {} PROVE WillSee(D2, A2, w, c)
  BY <1>1, <1>2, <1>4 DEF Owner
<1>5. ASSUME NEW d \in M2 \ {w}, Ahead(S2, L2, w, d) PROVE WillSee(D2, A2, w, d)
  BY <1>1, <1>5 DEF Owner
<1> QED
  BY <1>3, <1>4, <1>5 DEF Owner

\* The owner of u sees what it saw.
Views(D, A, D2, A2, u) ==
    /\ \A a : WillSee(D, A, u, a) => WillSee(D2, A2, u, a)
    /\ Final(D[u], A[u][u], u) => Final(D2[u], A2[u][u], u)

LEMMA Kept ==
  ASSUME NEW M, NEW S, NEW U, NEW D, NEW A, NEW L,
         NEW M2, NEW S2, NEW U2, NEW D2, NEW A2, NEW L2, NEW u,
         Undisturbed(M, S, U, D, A, L, M2, S2, U2, D2, A2, L2, u), u \in M2 => u \in M,
         u \in M2 => Views(D, A, D2, A2, u), Settled(M, S, U, D, A, L, u)
  PROVE  Settled(M2, S2, U2, D2, A2, L2, u)
<1>1. Unique(M, U, D, A, u) /\ Behind(M, S, U, D, A, L, u)
  BY DEF Settled
<1>2. Unique(M2, U2, D2, A2, u) /\ Behind(M2, S2, U2, D2, A2, L2, u)
  BY <1>1, Elsewhere
<1>3. ASSUME u \in M2 PROVE Owner(M2, S2, U2, D2, A2, L2, u)
  <2>1. Owner(M, S, U, D, A, L, u)
    BY <1>3 DEF Settled
  <2>2. Final(D2[u], A2[u][u], u)
    BY <1>3, <2>1 DEF Owner, Views
  <2>3. \A a : WillSee(D, A, u, a) => WillSee(D2, A2, u, a)
    BY <1>3 DEF Views
  <2> QED
    BY <1>1, <2>1, <2>2, <2>3, OwnerElsewhere
<1> QED
  BY <1>2, <1>3 DEF Settled

LEMMA ViewsSame ==
  ASSUME NEW D, NEW A, NEW D2, NEW A2, NEW u, D2[u] = D[u], A2[u][u] = A[u][u]
  PROVE  Views(D, A, D2, A2, u)
BY DEF Views, WillSee

\* The owner goes by the last QUIT it believes.
LEMMA FinalLast ==
  ASSUME NEW s \in Seq(Packet), NEW v, NEW u, Final(s, v, u),
         NEW i \in 1..Len(s), s[i].type = "QUIT", Sees(s, i - 1, v, u, s[i].user)
  PROVE  /\ Sees(s, Len(s), v, u, s[i].user)
         /\ \A j \in i..Len(s) : ~IsGift(s[j], u) /\ ~IsInput(s[j], u)
<1>1. Len(s) \in Nat /\ i - 1 \in Nat /\ i - 1 <= Len(s) /\ i \in Int
  BY LenProperties
<1>2. ASSUME NEW j \in i..Len(s) PROVE ~IsGift(s[j], u) /\ ~IsInput(s[j], u)
  <2>1. CASE j = i
    BY <2>1 DEF IsGift, IsInput
  <2>2. CASE j # i
    <3>1. j \in 1..Len(s) /\ i < j
      BY <1>1, <2>2
    <3> QED
      BY <3>1 DEF Final
  <2> QED
    BY <2>1, <2>2
<1>3. \A j \in (i-1)+1..Len(s) : ~IsGift(s[j], u)
  BY <1>1, <1>2
<1> QED
  BY <1>1, <1>2, <1>3, SeesMore

LEMMA FinalConcat ==
  ASSUME NEW s \in Seq(Packet), NEW ps \in Seq(Packet), NEW v, NEW u,
         Final(s, v, u),
         \/ \A i \in 1..Len(ps) : ~IsInput(ps[i], u) /\ ~IsGift(ps[i], u)
         \/ /\ \A i \in 1..Len(ps) : ps[i].type # "QUIT"
            /\ \A i \in 1..Len(s) :
                  s[i].type = "QUIT" => ~Sees(s, i - 1, v, u, s[i].user)
  PROVE  Final(s \o ps, v, u)
<1> DEFINE r == s \o ps
<1>1. /\ Len(s) \in Nat /\ \A i \in 1..Len(s) : r[i] = s[i]
      /\ \A i \in 1..Len(r) : i \notin 1..Len(s) => /\ i - Len(s) \in 1..Len(ps)
                                                    /\ r[i] = ps[i - Len(s)] /\ Len(s) < i
      /\ Len(r) \in Nat
  BY Joined, LenProperties
<1> HIDE DEF r
<1>2. ASSUME NEW i \in 1..Len(r), NEW j \in 1..Len(r), i < j, r[i].type = "QUIT",
             Sees(r, i - 1, v, u, r[i].user)
      PROVE  ~IsGift(r[j], u) /\ ~IsInput(r[j], u)
  <2>1. ASSUME i \in 1..Len(s) PROVE Sees(s, i - 1, v, u, s[i].user) /\ s[i].type = "QUIT"
    <3>1. i - 1 \in Nat /\ \A k \in 1..i-1 : r[k] = s[k]
      <4>1. i - 1 \in Nat /\ \A k \in 1..i-1 : k \in 1..Len(s)
        BY <1>1, <2>1
      <4> QED
        BY <1>1, <4>1
    <3>2. r[i] = s[i]
      BY <1>1, <2>1
    <3> QED
      BY <1>2, <3>1, <3>2, SeesSame
  <2>2. CASE j \in 1..Len(s)
    <3>1. i \in 1..Len(s) /\ r[j] = s[j]
      BY <1>1, <1>2, <2>2
    <3> QED
      BY <1>2, <2>1, <2>2, <3>1 DEF Final
  <2>3. CASE j \notin 1..Len(s) /\ i \in 1..Len(s)
    <3>1. j - Len(s) \in 1..Len(ps) /\ r[j] = ps[j - Len(s)]
      BY <1>1, <2>3
    <3> QED
      BY <2>1, <2>3, <3>1
  <2>4. CASE j \notin 1..Len(s) /\ i \notin 1..Len(s)
    <3>1. /\ j - Len(s) \in 1..Len(ps) /\ r[j] = ps[j - Len(s)]
          /\ i - Len(s) \in 1..Len(ps) /\ r[i] = ps[i - Len(s)]
      BY <1>1, <2>4
    <3> QED
      BY <1>2, <3>1
  <2> QED
    BY <2>2, <2>3, <2>4
<1>3. Final(r, v, u)
  BY <1>2 DEF Final
<1> QED
  BY <1>3 DEF r

\* Packets that give no authority over u leave the view as it is.
LEMMA ViewConcat ==
  ASSUME NEW s \in Seq(Packet), NEW ps \in Seq(Packet), NEW v, NEW u,
         \A i \in 1..Len(ps) : ~IsGift(ps[i], u)
  PROVE  \A a : Sees(s, Len(s), v, u, a) => Sees(s \o ps, Len(s \o ps), v, u, a)
<1> DEFINE r == s \o ps
<1>1. /\ Len(s) \in Nat /\ Len(r) = Len(s) + Len(ps) /\ Len(ps) \in Nat
      /\ \A i \in 1..Len(s) : r[i] = s[i]
      /\ \A i \in 1..Len(r) : i \notin 1..Len(s) => /\ i - Len(s) \in 1..Len(ps)
                                                    /\ r[i] = ps[i - Len(s)]
  BY Joined
<1> HIDE DEF r
<1>2. SUFFICES ASSUME NEW a, Sees(s, Len(s), v, u, a) PROVE Sees(r, Len(r), v, u, a)
  BY DEF r
<1>3. Sees(r, Len(s), v, u, a)
  BY <1>1, <1>2, SeesSame
<1>4. \A k \in Len(s)+1..Len(r) : k \in 1..Len(r) /\ k \notin 1..Len(s)
  BY <1>1
<1>5. \A k \in Len(s)+1..Len(r) : ~IsGift(r[k], u)
  BY <1>1, <1>4
<1>6. Len(s) <= Len(r) /\ Len(r) \in Nat
  BY <1>1
<1> QED
  BY <1>1, <1>3, <1>5, <1>6, SeesMore

LEMMA ViewTail ==
  ASSUME NEW s \in Seq(Packet), s # <<>>, NEW v, NEW u, NEW w,
         w = IF IsGift(Head(s), u) THEN Head(s).authority ELSE v
  PROVE  /\ \A a : Sees(s, Len(s), v, u, a) <=> Sees(Tail(s), Len(Tail(s)), w, u, a)
         /\ Final(s, v, u) => Final(Tail(s), w, u)
<1> DEFINE r == Tail(s)
<1>1. /\ Len(s) \in Nat \ {0} /\ Len(r) = Len(s) - 1
      /\ \A i \in 1..Len(r) : r[i] = s[i + 1] /\ i + 1 \in 1..Len(s)
  BY Tailed
<1>2. ASSUME NEW a PROVE Sees(s, Len(s), v, u, a) <=> Sees(r, Len(r), w, u, a)
  <2>1. Len(s) \in 1..Len(s)
    BY <1>1
  <2> QED
    BY <1>1, <2>1, SeesTail
<1>3. ASSUME Final(s, v, u), NEW i \in 1..Len(r), NEW j \in 1..Len(r), i < j,
             r[i].type = "QUIT", Sees(r, i - 1, w, u, r[i].user)
      PROVE  ~IsGift(r[j], u) /\ ~IsInput(r[j], u)
  <2>1. i \in 1..Len(s) /\ i + 1 \in 1..Len(s) /\ j + 1 \in 1..Len(s) /\ i + 1 < j + 1
    BY <1>1, <1>3
  <2>2. Sees(s, i, v, u, r[i].user)
    BY <1>3, <2>1, SeesTail
  <2>3. r[i] = s[i + 1] /\ r[j] = s[j + 1] /\ (i + 1) - 1 = i
    BY <1>1
  <2> QED
    BY <1>3, <2>1, <2>2, <2>3 DEF Final
<1> QED
  BY <1>2, <1>3 DEF Final, r

-----------------------------------------------------------------------------
(* Moves that change no copy of a stream.                                   *)

\* Channel s2 has no other inputs than s, and brings a reader that has X just
\* as far in the streams of us.
Still(s2, s, X, us) ==
    /\ \A i \in 1..Len(s2) : s2[i].type = "INPUT_DATA" => \E j \in 1..Len(s) : s2[i] = s[j]
    /\ \A u \in us : \A t \in Nat : Conveys(s, u, Len(X[u]), t) => Conveys(s2, u, Len(X[u]), t)

LEMMA StillSame ==
  ASSUME NEW s, NEW X, NEW us PROVE Still(s, s, X, us)
BY DEF Still

LEMMA StillConcat ==
  ASSUME NEW s \in Seq(Packet), NEW ps \in Seq(Packet), NEW X, NEW us,
         \A u \in us : Len(X[u]) \in Nat,
         \A i \in 1..Len(ps) : ps[i].type # "INPUT_DATA"
  PROVE  Still(s \o ps, s, X, us)
<1>1. ASSUME NEW i \in 1..Len(s \o ps), (s \o ps)[i].type = "INPUT_DATA"
      PROVE  \E j \in 1..Len(s) : (s \o ps)[i] = s[j]
  BY <1>1, Joined
<1>2. ASSUME NEW u \in us, NEW t \in Nat, Conveys(s, u, Len(X[u]), t)
      PROVE  Conveys(s \o ps, u, Len(X[u]), t)
  <2>1. \A i \in 1..Len(ps) : ~IsInput(ps[i], u)
    BY DEF IsInput
  <2> QED
    BY <1>2, <2>1, ConveysConcat
<1> QED
  BY <1>1, <1>2 DEF Still

LEMMA StillTail ==
  ASSUME NEW s \in Seq(Packet), s # <<>>, NEW X, NEW us,
         \A u \in us : Len(X[u]) \in Nat /\ (IsInput(Head(s), u) => End(Head(s)) <= Len(X[u]))
  PROVE  Still(Tail(s), s, X, us)
<1>1. ASSUME NEW i \in 1..Len(Tail(s)) PROVE \E j \in 1..Len(s) : Tail(s)[i] = s[j]
  BY Tailed
<1>2. ASSUME NEW u \in us, NEW t \in Nat, Conveys(s, u, Len(X[u]), t)
      PROVE  Conveys(Tail(s), u, Len(X[u]), t)
  <2>1. Len(X[u]) \in Nat /\ Len(X[u]) <= Len(X[u])
    OBVIOUS
  <2> QED
    BY <1>2, <2>1, ConveysTail
<1> QED
  BY <1>1, <1>2 DEF Still

LEMMA Unmoved ==
  ASSUME NEW M, NEW S, NEW U, NEW D, NEW L, NEW M2, NEW U2, NEW D2, NEW L2,
         \A d \in M2 : d \in M /\ d \in User /\ L2[d] = L[d],
         \A d \in M2 : Still(U2[d], U[d], S, M2) /\ Still(D2[d], D[d], L[d], User),
         \A u \in User : Len(S[u]) \in Nat /\ \A d \in M2 : Len(L[d][u]) \in Nat,
         Data(M, S, U, D, L), Delivery(M, S, U, D, L)
  PROVE  Data(M2, S, U2, D2, L2) /\ Delivery(M2, S, U2, D2, L2)
<1>1. ASSUME NEW d \in M2, NEW i \in 1..Len(U2[d]), U2[d][i].type = "INPUT_DATA"
      PROVE  Segment(U2[d][i], L2[d][U2[d][i].user])
  <2> PICK j \in 1..Len(U[d]) : U2[d][i] = U[d][j]
    BY <1>1 DEF Still
  <2> QED
    BY <1>1 DEF Data
<1>2. ASSUME NEW d \in M2, NEW i \in 1..Len(D2[d]), D2[d][i].type = "INPUT_DATA"
      PROVE  Segment(D2[d][i], S[D2[d][i].user])
  <2> PICK j \in 1..Len(D[d]) : D2[d][i] = D[d][j]
    BY <1>2 DEF Still
  <2> QED
    BY <1>2 DEF Data
<1>3. Data(M2, S, U2, D2, L2)
  BY <1>1, <1>2 DEF Data
<1>4. ASSUME NEW d \in M2, NEW u \in User PROVE Conveys(D2[d], u, Len(L2[d][u]), Len(S[u]))
  BY DEF Still, Delivery
<1>5. ASSUME NEW d \in M2, NEW u \in M2 PROVE Conveys(U2[d], u, Len(S[u]), Len(L2[d][u]))
  BY DEF Still, Delivery
<1> QED
  BY <1>3, <1>4, <1>5 DEF Delivery

\* If anybody has the authority over u then c, and c lacks no input of u.
HeldBy(M, S, U, D, A, L, u, c) ==
    /\ \A d \in M : /\ Up(M, U, u, d) = {} /\ Down(D, u, d) = {}
                    /\ A[d][u] = d => d = c
                    /\ Ahead(S, L, u, d) => d = c
    /\ Len(S[u]) <= Len(L[c][u])
    /\ \A k \in 1..Len(D[c]) : ~IsInput(D[c][k], u)

LEMMA OnlyHeld ==
  ASSUME NEW M, NEW S, NEW U, NEW D, NEW A, NEW L, NEW u, NEW c,
         HeldBy(M, S, U, D, A, L, u, c),
         u \in M => WillSee(D, A, u, c) /\ Final(D[u], A[u][u], u)
  PROVE  Settled(M, S, U, D, A, L, u)
BY DEF Unique, Behind, Owner, Settled, HeldBy

-----------------------------------------------------------------------------
(* A client takes the packet at the head of its channel and believes a gift. *)

TakeMove(c, D, A, D2, A2) ==
    /\ D[c] # <<>>
    /\ D2 = [D EXCEPT ![c] = Tail(@)]
    /\ A2 = IF Head(D[c]).type = "DELEGATE_AUTHORITY"
            THEN [A EXCEPT ![c][Head(D[c]).user] = Head(D[c]).authority]
            ELSE A

LEMMA Take ==
  ASSUME NEW M, NEW S, NEW U, NEW D, NEW A, NEW L, NEW D2, NEW A2,
         Streams(M, S, U, D, A, L), NEW c \in M, TakeMove(c, D, A, D2, A2),
         \A u \in User : IsInput(Head(D[c]), u) => End(Head(D[c])) <= Len(L[c][u])
  PROVE  Streams(M, S, U, D2, A2, L)
<1> DEFINE h == Head(D[c])
           r == Tail(D[c])
<1>1. /\ Types(M, S, U, D, A, L) /\ NoFalseQuit(M, D) /\ Honest(M, U)
      /\ Data(M, S, U, D, L) /\ Delivery(M, S, U, D, L)
      /\ \A u \in User : Settled(M, S, U, D, A, L, u)
  BY DEF Streams, Authority
<1>2. /\ c \in User /\ \A d \in M : d \in User
      /\ D[c] \in Seq(Packet) /\ D[c] # <<>>
  BY <1>1, Typed DEF TakeMove
<1>3. /\ \A u \in User : Len(S[u]) \in Nat
      /\ \A d \in User : \A u \in User : Len(L[d][u]) \in Nat
  BY <1>1, Typed
<1>4. \A d \in User : /\ U[d] \in Seq(Packet) /\ Len(U[d]) \in Nat
                      /\ D[d] \in Seq(Packet) /\ Len(D[d]) \in Nat
  BY <1>1, Typed
<1>5. /\ h \in Packet /\ h = D[c][1] /\ r \in Seq(Packet) /\ Len(r) = Len(D[c]) - 1
      /\ \A i \in 1..Len(r) : r[i] = D[c][i + 1] /\ i + 1 \in 1..Len(D[c])
      /\ Len(D[c]) \in Nat \ {0}
  BY <1>2, Tailed
<1>6. D2[c] = r /\ \A d \in User : d # c => D2[d] = D[d]
  BY <1>2, <1>1 DEF Types, TakeMove
<1>7. \A d, u \in User : A2[d][u] = IF d = c /\ IsGift(h, u) THEN h.authority ELSE A[d][u]
  BY <1>2, <1>5, <1>1 DEF Types, TakeMove, IsGift
<1>8. Types(M, S, U, D2, A2, L)
  <2>1. h.type = "DELEGATE_AUTHORITY" => h.user \in User /\ h.authority \in User
    BY <1>5, PacketParts DEF AuthorityPacket
  <2>2. D2 \in [User -> Seq(Packet)]
    BY <1>2, <1>5, <1>1 DEF Types, TakeMove
  <2>3. A2 \in [User -> [User -> User]]
    BY <1>2, <1>1, <2>1 DEF Types, TakeMove
  <2> QED
    BY <1>1, <2>2, <2>3 DEF Types
<1>9. NoFalseQuit(M, D2)
  <2>1. ASSUME NEW d \in M, NEW i \in 1..Len(D2[d]), D2[d][i].type = "QUIT"
        PROVE  D2[d][i].user \notin M
    <3>1. \E j \in 1..Len(D[d]) : D2[d][i] = D[d][j]
      <4>1. CASE d = c
        BY <1>5, <1>6, <4>1
      <4>2. CASE d # c
        BY <1>2, <1>6, <4>2
      <4> QED
        BY <4>1, <4>2
    <3> QED
      BY <1>1, <2>1, <3>1 DEF NoFalseQuit
  <2> QED
    BY <2>1 DEF NoFalseQuit
<1>10. Data(M, S, U, D2, L) /\ Delivery(M, S, U, D2, L)
  <2>1. Still(r, D[c], L[c], User)
    BY <1>2, <1>3, StillTail
  <2>2. \A d \in M : Still(U[d], U[d], S, M) /\ Still(D2[d], D[d], L[d], User)
    BY <1>2, <1>6, <2>1, StillSame
  <2> QED
    BY <1>2, <1>3, <1>1, <2>2, Unmoved
<1>11. ASSUME NEW u \in User PROVE Views(D, A, D2, A2, u)
  <2>1. CASE u = c
    <3>1. A2[c][c] = IF IsGift(h, c) THEN h.authority ELSE A[c][c]
      BY <1>2, <1>7
    <3> DEFINE v == A[c][c]
               v2 == A2[c][c]
    <3> HIDE DEF v, v2, h
    <3>2. v2 = IF IsGift(Head(D[c]), c) THEN Head(D[c]).authority ELSE v
      BY <3>1 DEF v, v2, h
    <3> HIDE DEF r
    <3>3. /\ \A a : Sees(D[c], Len(D[c]), v, c, a) <=> Sees(r, Len(r), v2, c, a)
          /\ Final(D[c], v, c) => Final(r, v2, c)
      BY <1>2, <3>2, ViewTail DEF r
    <3> QED
      BY <1>6, <2>1, <3>3 DEF Views, WillSee, v, v2
  <2>2. CASE u # c
    BY <1>6, <1>7, <2>2, ViewsSame
  <2> QED
    BY <2>1, <2>2
<1>12. ASSUME NEW u \in User, ~(IsGift(h, u) /\ h.authority = c)
       PROVE  Settled(M, S, U, D2, A2, L, u)
  <2>1. \A d \in M : /\ Len(U[d]) \in Nat /\ Follows(U[d], U[d], u, User)
                     /\ Len(D2[d]) \in Nat /\ Follows(D2[d], D[d], u, {d})
                     /\ Len(U[d]) \in Nat /\ Len(D[d]) \in Nat
    BY <1>2, <1>4, <1>5, <1>6, FollowsSame, FollowsTail, LenProperties
  <2>2. Settled(M, S, U, D, A, L, u)
    BY <1>1
  <2>3. \A d \in M : A2[d][u] = d => A[d][u] = d /\ Len(S[u]) <= Len(L[d][u])
    BY <1>2, <1>7, <1>12, <2>2 DEF Settled, Behind
  <2>4. Undisturbed(M, S, U, D, A, L, M, S, U, D2, A2, L, u)
    BY <1>2, <2>1, <2>3 DEF Undisturbed
  <2> QED
    BY <1>11, <2>2, <2>4, Kept
<1>13. ASSUME NEW u \in User, IsGift(h, u), h.authority = c
       PROVE  Settled(M, S, U, D2, A2, L, u)
  <2>1. 1 \in Down(D, u, c)
    BY <1>5, <1>13 DEF Down, Delegates, IsGift
  <2>2. /\ Unique(M, U, D, A, u) /\ Behind(M, S, U, D, A, L, u)
        /\ u \in M => Owner(M, S, U, D, A, L, u)
    BY <1>1 DEF Settled
  <2>3. ASSUME NEW d \in M PROVE Up(M, U, u, d) = {} /\ Down(D2, u, d) = {} /\ A[d][u] # d
    <3>1. Up(M, U, u, d) = {} /\ A[d][u] # d
      BY <2>1, <2>2 DEF Unique
    <3>2. \A i \in Down(D, u, d) : d = c /\ i = 1
      BY <2>1, <2>2 DEF Unique
    <3>3. CASE d = c
      <4>1. \A i \in Down(D2, u, c) : i \in 1..Len(r) /\ i + 1 \in Down(D, u, c)
        BY <1>5, <1>6 DEF Down, Delegates
      <4>2. \A i \in 1..Len(r) : i + 1 # 1
        BY <1>5
      <4> QED
        BY <3>1, <3>2, <3>3, <4>1, <4>2
    <3>4. CASE d # c
      BY <1>2, <1>6, <3>1, <3>2, <3>4 DEF Down
    <3> QED
      BY <3>3, <3>4
  <2>4. \A d \in M : /\ Up(M, U, u, d) = {} /\ Down(D2, u, d) = {}
                     /\ A2[d][u] = d => d = c
                     /\ Ahead(S, L, u, d) => d = c
    BY <1>2, <1>7, <2>1, <2>2, <2>3 DEF Behind
  <2>5. \A k \in 1..Len(D[c]) : ~IsInput(D[c][k], u)
    BY <2>1, <2>2 DEF Behind
  <2>6. Len(S[u]) <= Len(L[c][u])
    BY <1>1, <2>5 DEF Delivery, Conveys, Reaches
  <2>7. \A k \in 1..Len(D2[c]) : ~IsInput(D2[c][k], u)
    BY <1>5, <1>6, <2>5
  <2>8. ASSUME u \in M PROVE WillSee(D2, A2, u, c) /\ Final(D2[u], A2[u][u], u)
    BY <1>11, <2>1, <2>2, <2>8 DEF Owner, Views
  <2> QED
    <3>1. HeldBy(M, S, U, D2, A2, L, u, c)
      BY <2>4, <2>6, <2>7 DEF HeldBy
    <3> QED
      BY <2>8, <3>1, OnlyHeld
<1> QED
  <2>1. \A u \in User : Settled(M, S, U, D2, A2, L, u)
    BY <1>12, <1>13
  <2> QED
    BY <1>8, <1>9, <1>10, <1>1, <2>1 DEF Streams, Authority

-----------------------------------------------------------------------------
(* Sending a packet that is no input.                                       *)

LEMMA StillAppend ==
  ASSUME NEW s \in Seq(Packet), NEW m \in Packet, NEW X, NEW us,
         \A u \in us : Len(X[u]) \in Nat, m.type # "INPUT_DATA"
  PROVE  Still(Append(s, m), s, X, us)
<1>1. /\ Append(s, m) = s \o <<m>> /\ <<m>> \in Seq(Packet)
      /\ \A i \in 1..Len(<<m>>) : <<m>>[i].type # "INPUT_DATA"
  BY Appended
<1> QED
  BY <1>1, StillConcat

LEMMA FollowsAppend ==
  ASSUME NEW s \in Seq(Packet), NEW m \in Packet, NEW u, NEW a,
         ~IsInput(m, u), ~(IsGift(m, u) /\ m.authority \in a)
  PROVE  Follows(Append(s, m), s, u, a)
<1>1. /\ Append(s, m) = s \o <<m>> /\ <<m>> \in Seq(Packet)
      /\ \A i \in 1..Len(<<m>>) :
            ~IsInput(<<m>>[i], u) /\ ~(IsGift(<<m>>[i], u) /\ <<m>>[i].authority \in a)
  BY Appended
<1> QED
  BY <1>1, FollowsConcat

LEMMA ViewsConcat ==
  ASSUME NEW D, NEW A, NEW D2, NEW A2, NEW u, NEW ps \in Seq(Packet),
         D[u] \in Seq(Packet), D2[u] = D[u] \o ps, A2[u][u] = A[u][u],
         \A i \in 1..Len(ps) : ~IsInput(ps[i], u) /\ ~IsGift(ps[i], u)
  PROVE  Views(D, A, D2, A2, u)
<1> DEFINE s == D[u]
           v == A[u][u]
<1>1. s \in Seq(Packet) /\ D2[u] = s \o ps /\ A2[u][u] = v
  OBVIOUS
<1> HIDE DEF s, v
<1>2. Final(s, v, u) => Final(s \o ps, v, u)
  BY <1>1, FinalConcat
<1>3. \A a : Sees(s, Len(s), v, u, a) => Sees(s \o ps, Len(s \o ps), v, u, a)
  BY <1>1, ViewConcat
<1> QED
  BY <1>1, <1>2, <1>3 DEF Views, WillSee, s, v

LEMMA ViewsAppend ==
  ASSUME NEW D, NEW A, NEW D2, NEW A2, NEW u, NEW m \in Packet,
         D[u] \in Seq(Packet), D2[u] = Append(D[u], m), A2[u][u] = A[u][u],
         ~IsInput(m, u), ~IsGift(m, u)
  PROVE  Views(D, A, D2, A2, u)
<1>1. /\ D2[u] = D[u] \o <<m>> /\ <<m>> \in Seq(Packet)
      /\ \A i \in 1..Len(<<m>>) : ~IsInput(<<m>>[i], u) /\ ~IsGift(<<m>>[i], u)
  BY Appended
<1> QED
  BY <1>1, ViewsConcat

\* A client asks for an authority.
AskMove(c, m, U, U2) == U2 = [U EXCEPT ![c] = Append(@, m)]

LEMMA Ask ==
  ASSUME NEW M, NEW S, NEW U, NEW D, NEW A, NEW L, NEW U2,
         Streams(M, S, U, D, A, L), NEW c \in M, NEW m \in Packet,
         m.type = "REQUEST_AUTHORITY", AskMove(c, m, U, U2)
  PROVE  Streams(M, S, U2, D, A, L)
<1>1. /\ Types(M, S, U, D, A, L) /\ NoFalseQuit(M, D) /\ Honest(M, U)
      /\ Data(M, S, U, D, L) /\ Delivery(M, S, U, D, L)
      /\ \A u \in User : Settled(M, S, U, D, A, L, u)
  BY DEF Streams, Authority
<1>2. c \in User /\ \A d \in M : d \in User
  BY <1>1, Typed
<1>3. /\ \A u \in User : Len(S[u]) \in Nat
      /\ \A d \in User : \A u \in User : Len(L[d][u]) \in Nat
  BY <1>1, Typed
<1>4. \A d \in User : /\ U[d] \in Seq(Packet) /\ Len(U[d]) \in Nat
                      /\ D[d] \in Seq(Packet) /\ Len(D[d]) \in Nat
  BY <1>1, Typed
<1>5. U2[c] = Append(U[c], m) /\ \A d \in User : d # c => U2[d] = U[d]
  BY <1>1, <1>2 DEF Types, AskMove
<1>6. /\ Append(U[c], m) \in Seq(Packet) /\ Len(Append(U[c], m)) = Len(U[c]) + 1
      /\ Append(U[c], m)[Len(U[c]) + 1] = m
      /\ \A i \in 1..Len(U[c]) : Append(U[c], m)[i] = U[c][i]
  BY <1>2, <1>4, Appended
<1>7. Types(M, S, U2, D, A, L)
  BY <1>1, <1>2, <1>6 DEF Types, AskMove
<1>8. Data(M, S, U2, D, L) /\ Delivery(M, S, U2, D, L)
  <2>1. \A u \in M : Len(S[u]) \in Nat
    BY <1>2, <1>3
  <2>2. Still(Append(U[c], m), U[c], S, M)
    BY <1>2, <1>4, <2>1, StillAppend
  <2>3. \A d \in M : Still(U2[d], U[d], S, M) /\ Still(D[d], D[d], L[d], User)
    BY <1>2, <1>5, <2>2, StillSame
  <2> QED
    BY <1>1, <1>2, <1>3, <2>3, Unmoved
<1>9. ASSUME NEW u \in User PROVE Settled(M, S, U2, D, A, L, u)
  <2>1. ~IsInput(m, u) /\ ~IsGift(m, u)
    BY DEF IsInput, IsGift
  <2>2. \A d \in M : /\ Len(U2[d]) \in Nat /\ Follows(U2[d], U[d], u, User)
                     /\ Len(D[d]) \in Nat /\ Follows(D[d], D[d], u, {d})
    BY <1>2, <1>4, <1>5, <1>6, <2>1, FollowsSame, FollowsAppend, LenProperties
  <2>3. Settled(M, S, U, D, A, L, u)
    BY <1>1
  <2>4. \A d \in M : A[d][u] = d => Len(S[u]) <= Len(L[d][u])
    BY <2>3 DEF Settled, Behind
  <2>5. Undisturbed(M, S, U, D, A, L, M, S, U2, D, A, L, u)
    BY <1>2, <1>4, <2>2, <2>4 DEF Undisturbed
  <2> QED
    BY <2>3, <2>5, ViewsSame, Kept
<1>10. Honest(M, U2)
  <2>1. ASSUME NEW d \in M, NEW i \in 1..Len(U2[d]), U2[d][i].type = "DELEGATE_AUTHORITY"
        PROVE  i \in 1..Len(U[d]) /\ U2[d][i] = U[d][i]
    <3>1. CASE d = c
      <4>1. i \in 1..Len(U[c]) \/ i = Len(U[c]) + 1
        BY <1>2, <1>4, <1>5, <1>6, <2>1, <3>1
      <4> QED
        BY <1>5, <1>6, <2>1, <3>1, <4>1
    <3>2. CASE d # c
      BY <1>2, <1>5, <3>2
    <3> QED
      BY <3>1, <3>2
  <2> QED
    BY <1>1, <2>1 DEF Honest
<1> QED
  BY <1>1, <1>7, <1>8, <1>9, <1>10 DEF Streams, Authority

\* The authority over u is at most in the last packet of c, which gives it to a.
GivenBy(M, S, U, D, A, L, u, c, a) ==
    /\ \A d \in M : /\ A[d][u] # d /\ Down(D, u, d) = {}
                    /\ d # c => Up(M, U, u, d) = {}
                    /\ Ahead(S, L, u, d) => d = c
    /\ \A i \in Up(M, U, u, c) : i = Len(U[c]) /\ U[c][i].authority = a
    /\ Len(U[c]) \in Nat /\ ~IsInput(U[c][Len(U[c])], u)

LEMMA OnlyGiven ==
  ASSUME NEW M, NEW S, NEW U, NEW D, NEW A, NEW L, NEW u, NEW c, NEW a,
         GivenBy(M, S, U, D, A, L, u, c, a),
         u \in M => WillSee(D, A, u, IF c = u THEN a ELSE c) /\ Final(D[u], A[u][u], u)
  PROVE  Settled(M, S, U, D, A, L, u)
<1>1. Unique(M, U, D, A, u)
  BY DEF GivenBy, Unique
<1>2. \A i \in Up(M, U, u, c) : \A k \in i..Len(U[c]) : k = Len(U[c])
  BY DEF GivenBy
<1>3. Behind(M, S, U, D, A, L, u)
  BY <1>2 DEF GivenBy, Behind
<1>4. u \in M => Owner(M, S, U, D, A, L, u)
  BY DEF GivenBy, Owner
<1> QED
  BY <1>1, <1>3, <1>4 DEF Settled

\* The holder gives the authority over u away.
GiveMove(c, u, a, U, A, U2, A2) ==
    /\ U2 = [U EXCEPT ![c] = Append(@, Delegate(u, a))]
    /\ A2 = [A EXCEPT ![c][u] = a]

LEMMA GiveAway ==
  ASSUME NEW M, NEW S, NEW U, NEW D, NEW A, NEW L, NEW U2, NEW A2,
         Streams(M, S, U, D, A, L), NEW c \in M, NEW u \in User, NEW a \in User,
         A[c][u] = c, a # c, GiveMove(c, u, a, U, A, U2, A2)
  PROVE  Streams(M, S, U2, D, A2, L)
<1> DEFINE m == Delegate(u, a)
<1>1. /\ Types(M, S, U, D, A, L) /\ NoFalseQuit(M, D) /\ Honest(M, U)
      /\ Data(M, S, U, D, L) /\ Delivery(M, S, U, D, L)
      /\ \A w \in User : Settled(M, S, U, D, A, L, w)
  BY DEF Streams, Authority
<1>2. c \in User /\ \A d \in M : d \in User
  BY <1>1, Typed
<1>3. /\ \A w \in User : Len(S[w]) \in Nat
      /\ \A d \in User : \A w \in User : Len(L[d][w]) \in Nat
  BY <1>1, Typed
<1>4. \A d \in User : /\ U[d] \in Seq(Packet) /\ Len(U[d]) \in Nat
                      /\ D[d] \in Seq(Packet) /\ Len(D[d]) \in Nat
  BY <1>1, Typed
<1>5. /\ m \in Packet /\ m.type = "DELEGATE_AUTHORITY" /\ m.user = u /\ m.authority = a
  BY PacketParts DEF Delegate, AuthorityPacket, Packet
<1>6. U2[c] = Append(U[c], m) /\ \A d \in User : d # c => U2[d] = U[d]
  BY <1>1, <1>2 DEF Types, GiveMove
<1>7. \A d, w \in User : A2[d][w] = IF d = c /\ w = u THEN a ELSE A[d][w]
  BY <1>1, <1>2 DEF Types, GiveMove
<1>8. Types(M, S, U2, D, A2, L)
  <2>1. Append(U[c], m) \in Seq(Packet)
    BY <1>2, <1>4, <1>5, Appended
  <2>2. U2 \in [User -> Seq(Packet)]
    BY <1>1, <1>2, <2>1 DEF Types, GiveMove
  <2>3. A2 \in [User -> [User -> User]]
    BY <1>1, <1>2 DEF Types, GiveMove
  <2> QED
    BY <1>1, <2>2, <2>3 DEF Types
<1> HIDE DEF m
<1>9. /\ Append(U[c], m) \in Seq(Packet) /\ Len(Append(U[c], m)) = Len(U[c]) + 1
      /\ Append(U[c], m)[Len(U[c]) + 1] = m
      /\ \A i \in 1..Len(U[c]) : Append(U[c], m)[i] = U[c][i]
  BY <1>2, <1>4, <1>5, Appended
<1>10. Data(M, S, U2, D, L) /\ Delivery(M, S, U2, D, L)
  <2>1. \A w \in M : Len(S[w]) \in Nat
    BY <1>2, <1>3
  <2>2. Still(Append(U[c], m), U[c], S, M)
    BY <1>2, <1>4, <1>5, <2>1, StillAppend
  <2>3. \A d \in M : Still(U2[d], U[d], S, M) /\ Still(D[d], D[d], L[d], User)
    BY <1>2, <1>6, <2>2, StillSame
  <2> QED
    BY <1>1, <1>2, <1>3, <2>3, Unmoved
<1>11. ASSUME NEW w \in User, w # u PROVE Settled(M, S, U2, D, A2, L, w)
  <2>1. ~IsInput(m, w) /\ ~IsGift(m, w)
    BY <1>5, <1>11 DEF IsInput, IsGift
  <2>2. \A d \in M : /\ Len(U2[d]) \in Nat /\ Follows(U2[d], U[d], w, User)
                     /\ Len(D[d]) \in Nat /\ Follows(D[d], D[d], w, {d})
    BY <1>2, <1>4, <1>5, <1>6, <1>9, <2>1, FollowsSame, FollowsAppend, LenProperties
  <2>3. Settled(M, S, U, D, A, L, w)
    BY <1>1
  <2>4. \A d \in M : A2[d][w] = d => A[d][w] = d /\ Len(S[w]) <= Len(L[d][w])
    BY <1>2, <1>7, <1>11, <2>3 DEF Settled, Behind
  <2>5. Undisturbed(M, S, U, D, A, L, M, S, U2, D, A2, L, w)
    BY <1>2, <1>4, <2>2, <2>4 DEF Undisturbed
  <2>6. Views(D, A, D, A2, w)
    BY <1>7, <1>11, ViewsSame
  <2> QED
    BY <2>3, <2>5, <2>6, Kept
<1>12. Settled(M, S, U2, D, A2, L, u)
  <2>1. /\ Unique(M, U, D, A, u) /\ Behind(M, S, U, D, A, L, u)
        /\ u \in M => Owner(M, S, U, D, A, L, u)
    BY <1>1 DEF Settled
  <2>2. ASSUME NEW d \in M
        PROVE  /\ Up(M, U, u, d) = {} /\ Down(D, u, d) = {} /\ A2[d][u] # d
               /\ Ahead(S, L, u, d) => d = c
    BY <1>2, <1>7, <2>1 DEF Unique, Behind
  <2>3. \A d \in M : d # c => Up(M, U2, u, d) = {}
    BY <1>2, <1>6, <2>2 DEF Up
  <2>4. \A i \in Up(M, U2, u, c) : i = Len(U2[c]) /\ U2[c][i].authority = a
    <3>1. \A i \in Up(M, U2, u, c) : i \in Up(M, U, u, c) \/ i = Len(U[c]) + 1
      BY <1>2, <1>4, <1>5, <1>6, DelegatesAppend DEF Up
    <3> QED
      BY <1>5, <1>6, <1>9, <2>2, <3>1
  <2>5. Len(U2[c]) \in Nat /\ ~IsInput(U2[c][Len(U2[c])], u)
    BY <1>2, <1>4, <1>5, <1>6, <1>9 DEF IsInput
  <2>6. GivenBy(M, S, U2, D, A2, L, u, c, a)
    BY <2>2, <2>3, <2>4, <2>5 DEF GivenBy
  <2>7. ASSUME u \in M
        PROVE  WillSee(D, A2, u, IF c = u THEN a ELSE c) /\ Final(D[u], A2[u][u], u)
    <3>1. WillSee(D, A, u, c) /\ Final(D[u], A[u][u], u)
      BY <2>1, <2>7 DEF Owner
    <3>2. CASE c = u
      <4>1. \A j \in 1..Len(D[u]) : ~IsGift(D[u][j], u)
        BY <2>2, <3>1, <3>2 DEF WillSee, Sees, Down, Delegates, IsGift
      <4>2. \A j \in 1..Len(D[u]) : ~IsInput(D[u][j], u)
        BY <2>1, <3>2 DEF Behind
      <4>3. A2[u][u] = a
        BY <1>7, <3>2
      <4> QED
        BY <3>2, <4>1, <4>2, <4>3 DEF WillSee, Sees, Final
    <3>3. CASE c # u
      <4>1. A2[u][u] = A[u][u]
        BY <1>7, <3>3
      <4> QED
        BY <3>1, <3>3, <4>1 DEF WillSee
    <3> QED
      BY <3>2, <3>3
  <2> QED
    BY <2>6, <2>7, OnlyGiven
<1>13. Honest(M, U2)
  <2>1. ASSUME NEW d \in M, NEW i \in 1..Len(U2[d]),
               U2[d][i].type = "DELEGATE_AUTHORITY", U2[d][i].user # d
        PROVE  U2[d][i].authority # d
    <3>1. CASE d = c
      <4>1. i \in 1..Len(U[c]) \/ i = Len(U[c]) + 1
        BY <1>2, <1>4, <1>6, <1>9, <2>1, <3>1
      <4>2. CASE i \in 1..Len(U[c])
        BY <1>1, <1>6, <1>9, <2>1, <3>1, <4>2 DEF Honest
      <4>3. CASE i = Len(U[c]) + 1
        BY <1>5, <1>6, <1>9, <3>1, <4>3
      <4> QED
        BY <4>1, <4>2, <4>3
    <3>2. CASE d # c
      BY <1>1, <1>2, <1>6, <2>1, <3>2 DEF Honest
    <3> QED
      BY <3>1, <3>2
  <2> QED
    BY <2>1 DEF Honest
<1> QED
  <2>1. \A w \in User : Settled(M, S, U2, D, A2, L, w)
    BY <1>11, <1>12
  <2> QED
    BY <1>1, <1>8, <1>10, <1>13, <2>1 DEF Streams, Authority

\* A client whose authority the quitter had takes it back and says so.
TakeBackMove(c, U, D, A, U2, D2, A2) ==
    /\ D[c] # <<>> /\ Head(D[c]).type = "QUIT" /\ A[c][c] = Head(D[c]).user
    /\ D2 = [D EXCEPT ![c] = Tail(@)]
    /\ A2 = [A EXCEPT ![c][c] = c]
    /\ U2 = [U EXCEPT ![c] = Append(@, Delegate(c, c))]

LEMMA TakeBack ==
  ASSUME NEW M, NEW S, NEW U, NEW D, NEW A, NEW L, NEW U2, NEW D2, NEW A2,
         Streams(M, S, U, D, A, L), NEW c \in M, TakeBackMove(c, U, D, A, U2, D2, A2)
  PROVE  Streams(M, S, U2, D2, A2, L)
<1> DEFINE h == Head(D[c])
           r == Tail(D[c])
           m == Delegate(c, c)
<1>1. /\ Types(M, S, U, D, A, L) /\ NoFalseQuit(M, D) /\ Honest(M, U)
      /\ Data(M, S, U, D, L) /\ Delivery(M, S, U, D, L)
      /\ \A w \in User : Settled(M, S, U, D, A, L, w)
  BY DEF Streams, Authority
<1>2. /\ c \in User /\ \A d \in M : d \in User
      /\ D[c] # <<>> /\ h.type = "QUIT" /\ A[c][c] = h.user
  BY <1>1, Typed DEF TakeBackMove
<1>3. /\ \A w \in User : Len(S[w]) \in Nat
      /\ \A d \in User : \A w \in User : Len(L[d][w]) \in Nat
  BY <1>1, Typed
<1>4. \A d \in User : /\ U[d] \in Seq(Packet) /\ Len(U[d]) \in Nat
                      /\ D[d] \in Seq(Packet) /\ Len(D[d]) \in Nat
  BY <1>1, Typed
<1>5. /\ m \in Packet /\ m.type = "DELEGATE_AUTHORITY" /\ m.user = c /\ m.authority = c
  BY <1>2, PacketParts DEF Delegate, AuthorityPacket, Packet
<1>6. /\ h = D[c][1] /\ r \in Seq(Packet) /\ Len(r) = Len(D[c]) - 1
      /\ \A i \in 1..Len(r) : r[i] = D[c][i + 1] /\ i + 1 \in 1..Len(D[c])
      /\ Len(D[c]) \in Nat \ {0}
  BY <1>2, <1>4, Tailed
<1>7. /\ U2[c] = Append(U[c], m) /\ D2[c] = r
      /\ \A d \in User : d # c => U2[d] = U[d] /\ D2[d] = D[d]
  BY <1>1, <1>2 DEF Types, TakeBackMove
<1>8. \A d, w \in User : A2[d][w] = IF d = c /\ w = c THEN c ELSE A[d][w]
  BY <1>1, <1>2 DEF Types, TakeBackMove
<1>9. Types(M, S, U2, D2, A2, L)
  <2>1. Append(U[c], m) \in Seq(Packet)
    BY <1>2, <1>4, <1>5, Appended
  <2>2. U2 \in [User -> Seq(Packet)]
    BY <1>1, <1>2, <2>1 DEF Types, TakeBackMove
  <2>3. A2 \in [User -> [User -> User]]
    BY <1>1, <1>2 DEF Types, TakeBackMove
  <2>4. D2 \in [User -> Seq(Packet)]
    BY <1>1, <1>6 DEF Types, TakeBackMove
  <2> QED
    BY <1>1, <2>2, <2>3, <2>4 DEF Types
<1> HIDE DEF m, h, r
<1>10. /\ Append(U[c], m) \in Seq(Packet) /\ Len(Append(U[c], m)) = Len(U[c]) + 1
       /\ Append(U[c], m)[Len(U[c]) + 1] = m
       /\ \A i \in 1..Len(U[c]) : Append(U[c], m)[i] = U[c][i]
  BY <1>2, <1>4, <1>5, Appended
<1>11. NoFalseQuit(M, D2)
  <2>1. ASSUME NEW d \in M, NEW i \in 1..Len(D2[d]) PROVE \E j \in 1..Len(D[d]) : D2[d][i] = D[d][j]
    <3>1. CASE d = c
      BY <1>6, <1>7, <3>1
    <3>2. CASE d # c
      BY <1>2, <1>7, <3>2
    <3> QED
      BY <3>1, <3>2
  <2> QED
    BY <1>1, <2>1 DEF NoFalseQuit
<1>12. Data(M, S, U2, D2, L) /\ Delivery(M, S, U2, D2, L)
  <2>1. \A w \in M : Len(S[w]) \in Nat
    BY <1>2, <1>3
  <2>2. Still(Append(U[c], m), U[c], S, M)
    BY <1>2, <1>4, <1>5, <2>1, StillAppend
  <2>3. Still(r, D[c], L[c], User)
    BY <1>2, <1>3, <1>4, StillTail DEF r, h, IsInput
  <2>4. \A d \in M : Still(U2[d], U[d], S, M) /\ Still(D2[d], D[d], L[d], User)
    BY <1>2, <1>7, <2>2, <2>3, StillSame
  <2> QED
    BY <1>1, <1>2, <1>3, <2>4, Unmoved
<1>13. ASSUME NEW w \in User, w # c PROVE Settled(M, S, U2, D2, A2, L, w)
  <2>1. ~IsInput(m, w) /\ ~IsGift(m, w)
    BY <1>5, <1>13 DEF IsInput, IsGift
  <2>2. \A d \in M : Len(U2[d]) \in Nat /\ Follows(U2[d], U[d], w, User)
    BY <1>2, <1>4, <1>5, <1>7, <1>10, <2>1, FollowsSame, FollowsAppend, LenProperties
  <2>3. \A d \in M : Len(D2[d]) \in Nat /\ Follows(D2[d], D[d], w, {d})
    BY <1>2, <1>4, <1>6, <1>7, FollowsSame, FollowsTail, LenProperties DEF r
  <2>4. Settled(M, S, U, D, A, L, w)
    BY <1>1
  <2>5. \A d \in M : A2[d][w] = d => A[d][w] = d /\ Len(S[w]) <= Len(L[d][w])
    BY <1>2, <1>8, <1>13, <2>4 DEF Settled, Behind
  <2>6. Undisturbed(M, S, U, D, A, L, M, S, U2, D2, A2, L, w)
    BY <1>2, <1>4, <2>2, <2>3, <2>5 DEF Undisturbed
  <2>7. Views(D, A, D2, A2, w)
    BY <1>7, <1>8, <1>13, ViewsSame
  <2> QED
    BY <2>4, <2>6, <2>7, Kept
<1>14. Settled(M, S, U2, D2, A2, L, c)
  <2>1. /\ Unique(M, U, D, A, c) /\ Behind(M, S, U, D, A, L, c) /\ Owner(M, S, U, D, A, L, c)
    BY <1>1, <1>2 DEF Settled
  <2>2. /\ WillSee(D, A, c, h.user)
        /\ \A j \in 1..Len(D[c]) : ~IsGift(D[c][j], c) /\ ~IsInput(D[c][j], c)
    <3>1. 1 \in 1..Len(D[c]) /\ D[c][1].type = "QUIT" /\ Final(D[c], A[c][c], c)
      BY <1>2, <1>6, <2>1 DEF Owner
    <3>2. Sees(D[c], 1 - 1, A[c][c], c, D[c][1].user)
      BY <1>2, <1>6 DEF Sees
    <3> QED
      BY <1>2, <1>4, <1>6, <3>1, <3>2, FinalLast DEF WillSee
  <2>3. h.user \notin M
    BY <1>1, <1>2, <1>6 DEF NoFalseQuit
  <2>4. ASSUME NEW a \in M PROVE ~WillSee(D, A, c, a)
    BY <1>2, <1>4, <2>2, <2>3, SeesUnique DEF WillSee
  <2>5. ASSUME NEW d \in M
        PROVE  /\ A[d][c] # d /\ Up(M, U, c, d) = {} /\ Down(D, c, d) = {}
               /\ Ahead(S, L, c, d) => d = c
    <3>1. \A i \in Up(M, U, c, d) : U[d][i].authority \in M
      BY DEF Up, Delegates
    <3> QED
      BY <2>1, <2>4, <3>1 DEF Owner
  <2>6. \A d \in M : Up(M, U2, c, d) = {}
    <3>1. \A i \in Up(M, U2, c, c) : i \in Up(M, U, c, c)
      BY <1>2, <1>4, <1>5, <1>7, DelegatesAppend DEF Up
    <3> QED
      BY <1>2, <1>7, <2>5, <3>1 DEF Up
  <2>7. \A k \in 1..Len(D2[c]) : ~IsInput(D2[c][k], c) /\ ~IsGift(D2[c][k], c)
    BY <1>6, <1>7, <2>2
  <2>8. \A d \in M : Down(D2, c, d) = {}
    <3>1. Down(D2, c, c) = {}
      BY <2>7 DEF Down, Delegates, IsGift
    <3> QED
      BY <1>2, <1>7, <2>5, <3>1 DEF Down
  <2>9. Len(S[c]) <= Len(L[c][c])
    BY <1>1, <1>2, <2>2 DEF Delivery, Conveys, Reaches
  <2>10. HeldBy(M, S, U2, D2, A2, L, c, c)
    <3>1. \A d \in M : A2[d][c] = d => d = c
      BY <1>2, <1>8, <2>5
    <3> QED
      BY <2>5, <2>6, <2>7, <2>8, <2>9, <3>1 DEF HeldBy
  <2>11. WillSee(D2, A2, c, c) /\ Final(D2[c], A2[c][c], c)
    BY <1>2, <1>8, <2>7 DEF WillSee, Sees, Final
  <2> QED
    BY <2>10, <2>11, OnlyHeld
<1>15. Honest(M, U2)
  <2>1. ASSUME NEW d \in M, NEW i \in 1..Len(U2[d]),
               U2[d][i].type = "DELEGATE_AUTHORITY", U2[d][i].user # d
        PROVE  U2[d][i].authority # d
    <3>1. CASE d = c
      <4>1. i \in 1..Len(U[c]) \/ i = Len(U[c]) + 1
        BY <1>2, <1>4, <1>7, <1>10, <2>1, <3>1
      <4>2. CASE i \in 1..Len(U[c])
        BY <1>1, <1>7, <1>10, <2>1, <3>1, <4>2 DEF Honest
      <4>3. CASE i = Len(U[c]) + 1
        BY <1>5, <1>7, <1>10, <2>1, <3>1, <4>3
      <4> QED
        BY <4>1, <4>2, <4>3
    <3>2. CASE d # c
      BY <1>1, <1>2, <1>7, <2>1, <3>2 DEF Honest
    <3> QED
      BY <3>1, <3>2
  <2> QED
    BY <2>1 DEF Honest
<1> QED
  <2>1. \A w \in User : Settled(M, S, U2, D2, A2, L, w)
    BY <1>13, <1>14
  <2> QED
    BY <1>9, <1>11, <1>12, <1>15, <2>1 DEF Streams, Authority

-----------------------------------------------------------------------------
(* Moves that lengthen a copy.                                              *)

\* add_input_history at a client.
LearnMove(c, m, L, L2) == L2 = [L EXCEPT ![c][m.user] = @ \o Fresh(m, @)]

\* A client learns part of what the server has.
LEMMA Learn ==
  ASSUME NEW M, NEW S, NEW U, NEW D, NEW A, NEW L, NEW L2,
         Streams(M, S, U, D, A, L), NEW c \in M, NEW m \in InputPacket,
         Segment(m, S[m.user]),
         LearnMove(c, m, L, L2)
  PROVE  /\ Streams(M, S, U, D, A, L2)
         /\ \A d \in M, u \in User : Below(L[d][u], L2[d][u])
         /\ m.first <= Len(L[c][m.user]) => End(m) <= Len(L2[c][m.user])
<1> DEFINE u == m.user
           x == L[c][u]
           y == x \o Fresh(m, x)
<1>1. /\ Types(M, S, U, D, A, L) /\ NoFalseQuit(M, D) /\ Honest(M, U)
      /\ Data(M, S, U, D, L) /\ Delivery(M, S, U, D, L)
      /\ \A w \in User : Settled(M, S, U, D, A, L, w)
  BY DEF Streams, Authority
<1>2. u \in User /\ (\A d \in M : d \in User) /\ c \in User /\ m.first \in Nat
  BY <1>1 DEF Types, InputPacket
<1>3. /\ L2 = [L EXCEPT ![c][u] = y] /\ L2[c][u] = y
      /\ \A d, w \in User : <<d, w>> # <<c, u>> => L2[d][w] = L[d][w]
  BY <1>2, <1>1 DEF Types, LearnMove
<1>4. /\ \A w \in User : S[w] \in Seq(Input) /\ Len(S[w]) \in Nat
      /\ \A d \in User : \A w \in User : L[d][w] \in Seq(Input) /\ Len(L[d][w]) \in Nat
  BY <1>1, Typed
<1>5. /\ \A d \in User : U[d] \in Seq(Packet) /\ D[d] \in Seq(Packet)
     /\ \A d \in User : \A i \in 1..Len(U[d]) : U[d][i] \in Packet
  BY <1>1, Typed
<1>6. Below(x, S[u]) \/ Below(S[u], x)
  BY <1>2, <1>1 DEF Data
<1>7. /\ y \in Seq(Input) /\ Len(y) \in Nat /\ Below(x, y) /\ Len(x) <= Len(y)
      /\ m.first <= Len(x) => End(m) <= Len(y)
      /\ \/ y = x
         \/ Below(y, S[u]) /\ Len(y) <= Len(S[u])
  BY <1>2, <1>4, <1>6, FreshBelow, LenProperties
<1> HIDE DEF u, x, y
<1>8. ASSUME NEW d \in User, NEW w \in User
      PROVE  /\ L2[d][w] \in Seq(Input) /\ Len(L2[d][w]) \in Nat
             /\ Below(L[d][w], L2[d][w]) /\ Len(L[d][w]) <= Len(L2[d][w])
             /\ \/ L2[d][w] = L[d][w]
                \/ Len(L2[d][w]) <= Len(S[w]) /\ Below(L2[d][w], S[w])
  <2>1. CASE d = c /\ w = u
    BY <1>3, <1>7, <2>1 DEF x
  <2>2. CASE ~(d = c /\ w = u)
    <3>1. L2[d][w] = L[d][w]
      BY <1>3, <2>2
    <3>2. L[d][w] \in Seq(Input) /\ Len(L[d][w]) \in Nat
      BY <1>4
    <3>3. Below(L[d][w], L[d][w])
      BY <3>2 DEF Below
    <3>4. Len(L[d][w]) <= Len(L[d][w])
      BY <3>2
    <3> QED
      BY <3>1, <3>2, <3>3, <3>4
  <2> QED
    BY <2>1, <2>2
<1>9. Types(M, S, U, D, A, L2)
  <2>1. L2 \in [User -> [User -> Seq(Input)]]
    BY <1>2, <1>3, <1>7, <1>1 DEF Types
  <2> QED
    BY <1>1, <2>1 DEF Types
<1>10. Data(M, S, U, D, L2)
  <2>1. ASSUME NEW d \in M, NEW i \in 1..Len(U[d]), U[d][i].type = "INPUT_DATA"
        PROVE  Segment(U[d][i], L2[d][U[d][i].user])
    <3> DEFINE p == U[d][i]
    <3>1. p \in InputPacket /\ p.user \in User /\ d \in User
      BY <1>2, <1>5, <2>1, InputEnd
    <3>2. Segment(p, L[d][p.user])
      BY <1>1, <2>1 DEF Data
    <3> HIDE DEF p
    <3>3. Segment(p, L2[d][p.user])
      BY <1>4, <1>8, <3>1, <3>2, SegmentBelow
    <3> QED
      BY <3>3 DEF p
  <2>2. ASSUME NEW d \in M, NEW w \in User
        PROVE  Below(L2[d][w], S[w]) \/ Below(S[w], L2[d][w])
    <3>1. Below(L[d][w], S[w]) \/ Below(S[w], L[d][w])
      BY <1>1 DEF Data
    <3> QED
      BY <1>2, <1>8, <3>1
  <2> QED
    BY <1>1, <2>1, <2>2 DEF Data
<1>11. Delivery(M, S, U, D, L2)
  <2>1. ASSUME NEW d \in M, NEW w \in User
        PROVE  Conveys(D[d], w, Len(L2[d][w]), Len(S[w]))
    <3>1. Conveys(D[d], w, Len(L[d][w]), Len(S[w])) /\ d \in User
      BY <1>2, <1>1 DEF Delivery
    <3>2. D[d] \in Seq(Packet)
      BY <1>5, <3>1
    <3>3. Len(S[w]) \in Nat /\ Len(L[d][w]) \in Nat
      BY <1>4, <3>1
    <3>4. Len(L2[d][w]) \in Nat /\ Len(L[d][w]) <= Len(L2[d][w])
      BY <1>8, <3>1
    <3> QED
      BY <3>1, <3>2, <3>3, <3>4, ConveysMore
  <2>2. ASSUME NEW d \in M, NEW w \in M
        PROVE  Conveys(U[d], w, Len(S[w]), Len(L2[d][w]))
    <3>1. Conveys(U[d], w, Len(S[w]), Len(L[d][w])) /\ d \in User /\ w \in User
      BY <1>2, <1>1 DEF Delivery
    <3>2. CASE L2[d][w] = L[d][w]
      BY <3>1, <3>2
    <3>3. CASE Len(L2[d][w]) <= Len(S[w])
      <4>1. U[d] \in Seq(Packet)
        BY <1>5, <3>1
      <4>2. Len(S[w]) \in Nat /\ Len(L[d][w]) \in Nat /\ Len(L2[d][w]) \in Nat
        BY <1>4, <1>8, <3>1
      <4>3. Len(S[w]) <= Len(S[w])
        BY <4>2
      <4> QED
        BY <3>1, <3>3, <4>1, <4>2, <4>3, ConveysMore
    <3> QED
      BY <1>8, <3>1, <3>2, <3>3
  <2> QED
    BY <2>1, <2>2 DEF Delivery
<1>12. ASSUME NEW d \in M, NEW w \in User, Ahead(S, L2, w, d) PROVE Ahead(S, L, w, d)
  <2>1. d \in User
    BY <1>2
  <2>2. Len(S[w]) < Len(L2[d][w])
    BY <1>12 DEF Ahead
  <2>3. L2[d][w] = L[d][w]
    <3>1. Len(L2[d][w]) \in Nat /\ Len(S[w]) \in Nat
      BY <1>4, <1>8, <2>1
    <3> QED
      BY <1>8, <2>1, <2>2, <3>1
  <2> QED
    BY <2>2, <2>3 DEF Ahead
<1>13. ASSUME NEW w \in User PROVE Settled(M, S, U, D, A, L2, w)
  <2>1. Settled(M, S, U, D, A, L, w)
    BY <1>1
  <2>2. \A d \in M : A[d][w] = d => Len(S[w]) <= Len(L2[d][w])
    <3>1. \A d \in M : A[d][w] = d => Len(S[w]) <= Len(L[d][w])
      BY <2>1 DEF Settled, Behind
    <3>2. \A d \in M : /\ Len(L[d][w]) \in Nat /\ Len(L2[d][w]) \in Nat
                       /\ Len(L[d][w]) <= Len(L2[d][w])
      BY <1>2, <1>4, <1>8
    <3> QED
      BY <1>4, <3>1, <3>2
  <2>3. \A d \in M : /\ Len(U[d]) \in Nat /\ Follows(U[d], U[d], w, User)
                     /\ Len(D[d]) \in Nat /\ Follows(D[d], D[d], w, {d})
    BY <1>2, <1>5, FollowsSame, LenProperties
  <2>4. Undisturbed(M, S, U, D, A, L, M, S, U, D, A, L2, w)
    BY <1>2, <1>12, <2>2, <2>3 DEF Undisturbed
  <2>5. Views(D, A, D, A, w)
    BY ViewsSame
  <2> QED
    BY <2>1, <2>4, <2>5, Kept
<1>14. \A d \in M, w \in User : Below(L[d][w], L2[d][w])
  BY <1>2, <1>8
<1> QED
  <2>1. Streams(M, S, U, D, A, L2)
    BY <1>9, <1>10, <1>11, <1>13, <1>1 DEF Streams, Authority
  <2>2. m.first <= Len(L[c][u]) => End(m) <= Len(L2[c][u])
    BY <1>3, <1>7 DEF x
  <2> QED
    BY <1>14, <2>1, <2>2 DEF u

\* send_input: the holder extends the stream and sends what it added.
ProduceMove(c, u, vs, U, L, U2, L2) ==
    /\ U2 = [U EXCEPT ![c] = @ \o Packets(u, L[c][u], vs)]
    /\ L2 = [L EXCEPT ![c][u] = @ \o vs]

LEMMA Produce ==
  ASSUME NEW M, NEW S, NEW U, NEW D, NEW A, NEW L, NEW U2, NEW L2,
         Streams(M, S, U, D, A, L), NEW c \in M, NEW u \in User, NEW vs \in Seq(Input),
         A[c][u] = c, ProduceMove(c, u, vs, U, L, U2, L2)
  PROVE  /\ Streams(M, S, U2, D, A, L2)
         /\ \A d \in M, w \in User : Below(L[d][w], L2[d][w])
<1> DEFINE x == L[c][u]
           ps == Packets(u, x, vs)
<1>1. /\ Types(M, S, U, D, A, L) /\ NoFalseQuit(M, D) /\ Honest(M, U)
      /\ Data(M, S, U, D, L) /\ Delivery(M, S, U, D, L)
      /\ \A w \in User : Settled(M, S, U, D, A, L, w)
  BY DEF Streams, Authority
<1>2. c \in User /\ \A d \in M : d \in User
  BY <1>1, Typed
<1>3. /\ \A w \in User : S[w] \in Seq(Input) /\ Len(S[w]) \in Nat
      /\ \A d \in User : \A w \in User : L[d][w] \in Seq(Input) /\ Len(L[d][w]) \in Nat
  BY <1>1, Typed
<1>4. /\ \A d \in User : /\ U[d] \in Seq(Packet) /\ Len(U[d]) \in Nat
                         /\ D[d] \in Seq(Packet) /\ Len(D[d]) \in Nat
      /\ \A d \in User : \A i \in 1..Len(U[d]) : U[d][i] \in Packet
  BY <1>1, Typed
<1>5. /\ U2[c] = U[c] \o ps /\ L2[c][u] = x \o vs
      /\ \A d \in User : d # c => U2[d] = U[d]
      /\ \A d, w \in User : ~(d = c /\ w = u) => L2[d][w] = L[d][w]
  BY <1>1, <1>2 DEF Types, ProduceMove
<1>6. /\ ps \in Seq(Packet) /\ Len(ps) = Len(vs)
      /\ \A i \in 1..Len(vs) : IsInput(ps[i], u) /\ Segment(ps[i], x \o vs)
  BY <1>2, <1>3, PacketsSegment
<1>7. /\ x \in Seq(Input) /\ x \o vs \in Seq(Input) /\ Len(x \o vs) = Len(x) + Len(vs)
      /\ Below(x, x \o vs) /\ Len(x) \in Nat /\ Len(vs) \in Nat
  BY <1>2, <1>3, BelowConcat, LenProperties
<1>8. Types(M, S, U2, D, A, L2)
  <2>1. U[c] \o ps \in Seq(Packet)
    BY <1>2, <1>4, <1>6, Joined
  <2>2. U2 \in [User -> Seq(Packet)]
    BY <1>1, <1>2, <2>1 DEF Types, ProduceMove
  <2>3. L2 \in [User -> [User -> Seq(Input)]]
    BY <1>1, <1>2, <1>7 DEF Types, ProduceMove
  <2> QED
    BY <1>1, <2>2, <2>3 DEF Types
<1> HIDE DEF x, ps
<1>9. /\ Len(U2[c]) \in Nat
      /\ \A i \in 1..Len(U[c]) : U2[c][i] = U[c][i] /\ i \in 1..Len(U2[c])
      /\ \A i \in 1..Len(U2[c]) :
           i \notin 1..Len(U[c]) => /\ i - Len(U[c]) \in 1..Len(vs)
                                    /\ U2[c][i] = ps[i - Len(U[c])]
  BY <1>2, <1>4, <1>5, <1>6, <1>7, Joined
<1>10. ASSUME NEW d \in User, NEW w \in User
       PROVE  /\ L2[d][w] \in Seq(Input) /\ Len(L2[d][w]) \in Nat
              /\ Below(L[d][w], L2[d][w]) /\ Len(L[d][w]) <= Len(L2[d][w])
  <2>1. CASE d = c /\ w = u
    <3>1. Len(L2[c][u]) = Len(x) + Len(vs) /\ L2[c][u] \in Seq(Input)
      BY <1>5, <1>7
    <3>2. Len(L2[c][u]) \in Nat /\ Len(x) <= Len(L2[c][u])
      BY <1>7, <3>1
    <3>3. Below(x, L2[c][u])
      BY <1>5, <1>7
    <3> QED
      BY <2>1, <3>1, <3>2, <3>3 DEF x
  <2>2. CASE ~(d = c /\ w = u)
    <3>1. L2[d][w] = L[d][w]
      BY <1>5, <2>2
    <3>2. Len(L[d][w]) \in Nat
      BY <1>3
    <3> QED
      BY <1>3, <3>1, <3>2 DEF Below
  <2> QED
    BY <2>1, <2>2
<1>11. /\ Len(S[u]) <= Len(L[c][u])
       /\ \A d \in M : Ahead(S, L, u, d) => d = c
       /\ \A d \in M : A[d][u] = d => d = c
       /\ \A d \in M : Up(M, U, u, d) = {} /\ Down(D, u, d) = {}
       /\ \A k \in 1..Len(D[c]) : ~IsInput(D[c][k], u)
  BY <1>1 DEF Settled, Behind, Unique
<1>12. Data(M, S, U2, D, L2)
  <2>1. ASSUME NEW d \in M, NEW w \in User
        PROVE  Below(L2[d][w], S[w]) \/ Below(S[w], L2[d][w])
    <3>1. Below(L[d][w], S[w]) \/ Below(S[w], L[d][w])
      BY <1>1 DEF Data
    <3>2. CASE d = c /\ w = u
      <4>1. Below(S[u], L[c][u])
        BY <1>2, <1>3, <1>11, <3>1, <3>2 DEF Below
      <4> QED
        BY <1>2, <1>3, <1>10, <3>2, <4>1, BelowTrans
    <3>3. CASE ~(d = c /\ w = u)
      BY <1>2, <1>5, <3>1, <3>3
    <3> QED
      BY <3>2, <3>3
  <2>2. ASSUME NEW d \in M, NEW i \in 1..Len(U2[d]), U2[d][i].type = "INPUT_DATA"
        PROVE  Segment(U2[d][i], L2[d][U2[d][i].user])
    <3> DEFINE p == U2[d][i]
    <3>1. ASSUME NEW j \in 1..Len(U[d]), p = U[d][j] PROVE Segment(p, L2[d][p.user])
      <4>1. p \in InputPacket /\ p.user \in User /\ d \in User
        BY <1>2, <1>4, <2>2, <3>1, InputEnd
      <4>2. Segment(p, L[d][p.user])
        BY <1>1, <2>2, <3>1 DEF Data
      <4> HIDE DEF p
      <4> QED
        BY <1>3, <1>10, <4>1, <4>2, SegmentBelow
    <3>2. CASE d = c /\ i \notin 1..Len(U[c])
      <4>1. i - Len(U[c]) \in 1..Len(vs) /\ p = ps[i - Len(U[c])]
        BY <1>9, <3>2
      <4> HIDE DEF p
      <4>2. p.user = u /\ Segment(p, x \o vs)
        BY <1>6, <4>1 DEF IsInput
      <4> QED
        BY <1>5, <3>2, <4>2 DEF p
    <3>3. CASE d # c \/ i \in 1..Len(U[c])
      <4>1. \E j \in 1..Len(U[d]) : p = U[d][j]
        BY <1>2, <1>5, <1>9, <3>3
      <4> QED
        BY <3>1, <4>1
    <3> QED
      BY <3>2, <3>3
  <2> QED
    BY <1>1, <2>1, <2>2 DEF Data
<1>13. Delivery(M, S, U2, D, L2)
  <2>1. ASSUME NEW d \in M, NEW w \in User
        PROVE  Conveys(D[d], w, Len(L2[d][w]), Len(S[w]))
    <3>1. Conveys(D[d], w, Len(L[d][w]), Len(S[w])) /\ d \in User
      BY <1>1, <1>2 DEF Delivery
    <3>2. D[d] \in Seq(Packet)
      BY <1>4, <3>1
    <3>3. Len(S[w]) \in Nat /\ Len(L[d][w]) \in Nat
      BY <1>3, <3>1
    <3>4. Len(L2[d][w]) \in Nat /\ Len(L[d][w]) <= Len(L2[d][w])
      BY <1>10, <3>1
    <3> QED
      BY <3>1, <3>2, <3>3, <3>4, ConveysMore
  <2>2. ASSUME NEW d \in M, NEW w \in M
        PROVE  Conveys(U2[d], w, Len(S[w]), Len(L2[d][w]))
    <3>1. Conveys(U[d], w, Len(S[w]), Len(L[d][w])) /\ d \in User /\ w \in User
      BY <1>1, <1>2 DEF Delivery
    <3>2. U[d] \in Seq(Packet) /\ Len(S[w]) \in Nat /\ Len(L[d][w]) \in Nat
      BY <1>3, <1>4, <3>1
    <3>3. CASE d # c
      BY <1>5, <3>1, <3>3
    <3>4. CASE d = c /\ w = u
      <4>1. Conveys(U[c], u, Len(S[u]), Len(x))
        BY <3>1, <3>4 DEF x
      <4>2. Conveys(U[c] \o Packets(u, x, vs), u, Len(S[u]), Len(x) + Len(vs))
        BY <1>7, <3>2, <3>4, <4>1, ConveysPackets
      <4> QED
        BY <1>5, <1>7, <3>4, <4>2 DEF ps
    <3>5. CASE d = c /\ w # u
      <4>1. \A i \in 1..Len(ps) : ~IsInput(ps[i], w)
        BY <1>6, <3>5 DEF IsInput
      <4>2. Conveys(U[c] \o ps, w, Len(S[w]), Len(L[c][w]))
        BY <1>6, <3>1, <3>2, <3>5, <4>1, ConveysConcat
      <4>3. L2[c][w] = L[c][w]
        BY <1>2, <1>5, <3>1, <3>5
      <4> QED
        BY <1>5, <3>5, <4>2, <4>3
    <3> QED
      BY <3>3, <3>4, <3>5
  <2> QED
    BY <2>1, <2>2 DEF Delivery
<1>14. \A i \in 1..Len(ps) : \A w : ~IsGift(ps[i], w)
  BY <1>6 DEF IsInput, IsGift
<1>15. ASSUME NEW d \in M, NEW w \in User PROVE Up(M, U2, w, d) = Up(M, U, w, d)
  <2>1. CASE d = c
    <3>1. U[c] \in Seq(Packet) /\ \A i \in 1..Len(ps) : ~IsGift(ps[i], w)
      BY <1>2, <1>4, <1>14
    <3>2. \A a : Delegates(U[c] \o ps, w, a) = Delegates(U[c], w, a)
      BY <1>6, <3>1, DelegatesConcat
    <3> QED
      BY <1>5, <2>1, <3>2 DEF Up
  <2>2. CASE d # c
    BY <1>2, <1>5, <2>2 DEF Up
  <2> QED
    BY <2>1, <2>2
<1>16. ASSUME NEW w \in User, w # u PROVE Settled(M, S, U2, D, A, L2, w)
  <2>1. \A i \in 1..Len(ps) : ~IsInput(ps[i], w) /\ ~IsGift(ps[i], w)
    BY <1>6, <1>14, <1>16 DEF IsInput
  <2>2. \A d \in M : /\ Len(U2[d]) \in Nat /\ Follows(U2[d], U[d], w, User)
                     /\ Len(D[d]) \in Nat /\ Follows(D[d], D[d], w, {d})
    BY <1>2, <1>4, <1>5, <1>6, <1>9, <2>1, FollowsSame, FollowsConcat
  <2>3. Settled(M, S, U, D, A, L, w)
    BY <1>1
  <2>4. \A d \in M : L2[d][w] = L[d][w]
    BY <1>2, <1>5, <1>16
  <2>5. \A d \in M : /\ A[d][w] = d => Len(S[w]) <= Len(L2[d][w])
                     /\ Ahead(S, L2, w, d) => Ahead(S, L, w, d)
    BY <2>3, <2>4 DEF Settled, Behind, Ahead
  <2>6. Undisturbed(M, S, U, D, A, L, M, S, U2, D, A, L2, w)
    BY <1>2, <1>4, <2>2, <2>5 DEF Undisturbed
  <2>7. Views(D, A, D, A, w)
    BY ViewsSame
  <2> QED
    BY <2>3, <2>6, <2>7, Kept
<1>17. Settled(M, S, U2, D, A, L2, u)
  <2>1. \A d \in M : Ahead(S, L2, u, d) => d = c
    BY <1>2, <1>5, <1>11 DEF Ahead
  <2>2. Len(S[u]) <= Len(L2[c][u])
    <3>1. Len(S[u]) \in Nat /\ Len(L[c][u]) \in Nat
      BY <1>2, <1>3
    <3>2. Len(L2[c][u]) \in Nat /\ Len(L[c][u]) <= Len(L2[c][u])
      BY <1>2, <1>10
    <3> QED
      BY <1>11, <3>1, <3>2
  <2>3. HeldBy(M, S, U2, D, A, L2, u, c)
    BY <1>11, <1>15, <2>1, <2>2 DEF HeldBy
  <2>4. u \in M => WillSee(D, A, u, c) /\ Final(D[u], A[u][u], u)
    BY <1>1 DEF Settled, Owner
  <2> QED
    BY <2>3, <2>4, OnlyHeld
<1>18. Honest(M, U2)
  <2>1. ASSUME NEW d \in M, NEW i \in 1..Len(U2[d]), U2[d][i].type = "DELEGATE_AUTHORITY"
        PROVE  i \in 1..Len(U[d]) /\ U2[d][i] = U[d][i]
    <3>1. CASE d = c
      <4>1. ASSUME i \notin 1..Len(U[c]) PROVE FALSE
        <5>1. i - Len(U[c]) \in 1..Len(vs) /\ U2[c][i] = ps[i - Len(U[c])]
          BY <1>9, <2>1, <3>1, <4>1
        <5> QED
          BY <1>6, <2>1, <3>1, <5>1 DEF IsInput
      <4> QED
        BY <1>9, <3>1, <4>1
    <3>2. CASE d # c
      BY <1>2, <1>5, <3>2
    <3> QED
      BY <3>1, <3>2
  <2> QED
    BY <1>1, <2>1 DEF Honest
<1> QED
  <2>1. \A w \in User : Settled(M, S, U2, D, A, L2, w)
    BY <1>16, <1>17
  <2>2. \A d \in M, w \in User : Below(L[d][w], L2[d][w])
    BY <1>2, <1>10
  <2> QED
    BY <1>1, <1>8, <1>12, <1>13, <1>18, <2>1, <2>2 DEF Streams, Authority

-----------------------------------------------------------------------------
(* The moves of the server.                                                 *)

\* write_input_from: the server adds what is new and relays it.
RelayMove(M, c, m, S, D, S2, D2) ==
    /\ S2 = [S EXCEPT ![m.user] = @ \o Fresh(m, @)]
    /\ D2 = [d \in User |->
               IF d \in M \ {c}
               THEN D[d] \o Packets(m.user, S[m.user], Fresh(m, S[m.user]))
               ELSE D[d]]

LEMMA Relay ==
  ASSUME NEW M, NEW S, NEW U, NEW D, NEW A, NEW L, NEW S2, NEW D2,
         Streams(M, S, U, D, A, L), NEW c \in M, NEW m \in InputPacket, m.user \in M,
         Segment(m, L[c][m.user]), RelayMove(M, c, m, S, D, S2, D2)
  PROVE  /\ Streams(M, S2, U, D2, A, L)
         /\ \A w \in User : Below(S[w], S2[w])
         /\ m.first <= Len(S[m.user]) => End(m) <= Len(S2[m.user])
<1> DEFINE u == m.user
           x == S[u]
           vs == Fresh(m, x)
           ps == Packets(u, x, vs)
<1>1. /\ Types(M, S, U, D, A, L) /\ NoFalseQuit(M, D) /\ Honest(M, U)
      /\ Data(M, S, U, D, L) /\ Delivery(M, S, U, D, L)
      /\ \A w \in User : Settled(M, S, U, D, A, L, w)
  BY DEF Streams, Authority
<1>2. c \in User /\ u \in User /\ u \in M /\ m.first \in Nat /\ \A d \in M : d \in User
  BY <1>1, Typed DEF InputPacket
<1>3. /\ \A w \in User : S[w] \in Seq(Input) /\ Len(S[w]) \in Nat
      /\ \A d \in User : \A w \in User : L[d][w] \in Seq(Input) /\ Len(L[d][w]) \in Nat
  BY <1>1, Typed
<1>4. /\ \A d \in User : /\ U[d] \in Seq(Packet) /\ Len(U[d]) \in Nat
                         /\ D[d] \in Seq(Packet) /\ Len(D[d]) \in Nat
      /\ \A d \in User : \A i \in 1..Len(D[d]) : D[d][i] \in Packet
  BY <1>1, Typed
<1>5. /\ S2[u] = x \o vs /\ \A w \in User : w # u => S2[w] = S[w]
      /\ \A d \in M : d # c => D2[d] = D[d] \o ps
      /\ D2[c] = D[c] /\ D2 = [d \in User |-> IF d \in M \ {c} THEN D[d] \o ps ELSE D[d]]
  BY <1>1, <1>2 DEF Types, RelayMove
<1>6. Below(x, L[c][u]) \/ Below(L[c][u], x)
  BY <1>1, <1>2 DEF Data
<1>7. /\ vs \in Seq(Input) /\ x \o vs \in Seq(Input) /\ Below(x, x \o vs)
      /\ Len(x) <= Len(x \o vs) /\ Len(x \o vs) \in Nat
      /\ m.first <= Len(x) => End(m) <= Len(x \o vs)
      /\ \/ vs = <<>> /\ x \o vs = x
         \/ /\ Below(x \o vs, L[c][u]) /\ Len(x \o vs) <= Len(L[c][u])
            /\ Len(x) < Len(L[c][u])
  <2>1. L[c][u] \in Seq(Input) /\ Len(L[c][u]) \in Nat /\ x \in Seq(Input) /\ Len(x) \in Nat
    BY <1>2, <1>3
  <2> DEFINE t == L[c][u]
  <2> HIDE DEF t
  <2>2. t \in Seq(Input) /\ Segment(m, t) /\ (Below(x, t) \/ Below(t, x)) /\ Len(t) \in Nat
    BY <1>6, <2>1 DEF t
  <2> HIDE DEF u, x
  <2>3. /\ vs \in Seq(Input) /\ x \o vs \in Seq(Input) /\ Below(x, x \o vs)
        /\ Len(x) <= Len(x \o vs)
        /\ m.first <= Len(x) => End(m) <= Len(x \o vs)
        /\ \/ vs = <<>> /\ x \o vs = x
           \/ /\ Below(x \o vs, t) /\ Len(x \o vs) = End(m)
              /\ Len(x) < End(m) /\ End(m) <= Len(t)
    BY <2>1, <2>2, FreshBelow
  <2> HIDE DEF vs
  <2>4. Len(x \o vs) \in Nat
    BY <2>3, LenProperties
  <2>5. \/ vs = <<>> /\ x \o vs = x
        \/ Below(x \o vs, t) /\ Len(x \o vs) <= Len(t) /\ Len(x) < Len(t)
    BY <2>1, <2>2, <2>3, <2>4
  <2> QED
    BY <2>3, <2>4, <2>5 DEF t
<1>8. /\ ps \in Seq(Packet) /\ Len(ps) = Len(vs) /\ Len(x \o vs) = Len(x) + Len(vs)
      /\ \A i \in 1..Len(vs) : IsInput(ps[i], u) /\ Segment(ps[i], x \o vs)
  BY <1>2, <1>3, <1>7, PacketsSegment, BelowConcat
<1>9. Types(M, S2, U, D2, A, L)
  <2>1. S2 \in [User -> Seq(Input)]
    BY <1>1, <1>2, <1>7 DEF Types, RelayMove
  <2>2. \A d \in User : D[d] \o ps \in Seq(Packet)
    BY <1>4, <1>8, Joined
  <2>3. D2 \in [User -> Seq(Packet)]
    BY <1>4, <1>5, <2>2
  <2> QED
    BY <1>1, <2>1, <2>3 DEF Types
<1> HIDE DEF u, x, vs, ps
<1>10. ASSUME NEW w \in User
       PROVE  /\ S2[w] \in Seq(Input) /\ Len(S2[w]) \in Nat
              /\ Below(S[w], S2[w]) /\ Len(S[w]) <= Len(S2[w])
  <2>1. CASE w = u
    BY <1>5, <1>7, <2>1 DEF x
  <2>2. CASE w # u
    <3>1. S2[w] = S[w] /\ Len(S[w]) \in Nat
      BY <1>3, <1>5, <2>2
    <3> QED
      BY <1>3, <3>1 DEF Below
  <2> QED
    BY <2>1, <2>2
<1>11. ASSUME vs = <<>> PROVE S2 = S /\ D2 = D
  <2>1. x \o vs = x /\ Len(ps) = 0
    BY <1>2, <1>3, <1>8, <1>11, ConcatEmptySeq DEF x
  <2>2. ps = <<>>
    BY <1>8, <2>1, EmptySeq
  <2>3. S2 = S
    <3>1. \A w \in User : S2[w] = S[w]
      BY <1>5, <2>1 DEF x
    <3> QED
      BY <1>1, <1>9, <3>1 DEF Types
  <2>4. \A d \in User : D[d] \o ps = D[d]
    BY <1>4, <2>2, ConcatEmptySeq
  <2>5. D2 = D
    <3>1. \A d \in User : D2[d] = D[d]
      BY <1>5, <2>4
    <3> QED
      BY <1>1, <1>9, <3>1 DEF Types
  <2> QED
    BY <2>3, <2>5
<1>12. SUFFICES ASSUME vs # <<>> PROVE Streams(M, S2, U, D2, A, L)
  <2>1. \A w \in User : Below(S[w], S2[w])
    BY <1>10
  <2>2. m.first <= Len(S[u]) => End(m) <= Len(S2[u])
    BY <1>5, <1>7 DEF x
  <2> QED
    BY <1>11, <2>1, <2>2 DEF u
<1>13. Below(x \o vs, L[c][u]) /\ Len(x \o vs) <= Len(L[c][u]) /\ Len(x) < Len(L[c][u])
  BY <1>7, <1>12
<1>14. /\ Ahead(S, L, u, c)
       /\ \A d \in M : Ahead(S, L, u, d) => d = c
       /\ \A d \in M : /\ A[d][u] = d => d = c
                       /\ Up(M, U, u, d) # {} => d = c
                       /\ Down(D, u, d) = {}
       /\ u # c => WillSee(D, A, u, c)
  <2>1. Ahead(S, L, u, c)
    BY <1>13 DEF Ahead, x
  <2>2. /\ Behind(M, S, U, D, A, L, u) /\ Owner(M, S, U, D, A, L, u)
    BY <1>1, <1>2 DEF Settled
  <2> QED
    BY <2>1, <2>2 DEF Behind, Owner
<1>15. ASSUME NEW d \in M, d # c PROVE Len(L[d][u]) <= Len(x) /\ Below(L[d][u], x)
  <2>1. ~(Len(x) < Len(L[d][u])) /\ (Below(L[d][u], x) \/ Below(x, L[d][u]))
    BY <1>1, <1>2, <1>14, <1>15 DEF Ahead, Data, x
  <2>2. Len(x) \in Nat /\ Len(L[d][u]) \in Nat
    BY <1>2, <1>3 DEF x
  <2>3. Len(L[d][u]) <= Len(x)
    BY <2>1, <2>2
  <2> QED
    BY <2>1, <2>2, <2>3 DEF Below
<1>16. ASSUME NEW d \in M, d # c
       PROVE  /\ Len(D2[d]) \in Nat
              /\ \A i \in 1..Len(D[d]) : D2[d][i] = D[d][i] /\ i \in 1..Len(D2[d])
              /\ \A i \in 1..Len(D2[d]) :
                    i \notin 1..Len(D[d]) => /\ i - Len(D[d]) \in 1..Len(vs)
                                             /\ D2[d][i] = ps[i - Len(D[d])]
  BY <1>2, <1>4, <1>5, <1>8, <1>16, Joined, LenProperties
<1>17. ASSUME NEW d \in M, NEW i \in 1..Len(D2[d])
       PROVE  \/ \E j \in 1..Len(D[d]) : D2[d][i] = D[d][j]
              \/ \E j \in 1..Len(vs) : D2[d][i] = ps[j]
  <2>1. CASE d = c
    BY <1>5, <2>1
  <2>2. CASE d # c /\ i \in 1..Len(D[d])
    BY <1>16, <2>2
  <2>3. CASE d # c /\ i \notin 1..Len(D[d])
    BY <1>16, <2>3
  <2> QED
    BY <2>1, <2>2, <2>3
<1>18. Data(M, S2, U, D2, L)
  <2>1. ASSUME NEW d \in M, NEW w \in User
        PROVE  Below(L[d][w], S2[w]) \/ Below(S2[w], L[d][w])
    <3>1. CASE w = u /\ d = c
      BY <1>5, <1>13, <3>1
    <3>2. CASE w = u /\ d # c
      <4>1. Below(L[d][u], x) /\ Below(x, x \o vs) /\ x \in Seq(Input) /\ L[d][u] \in Seq(Input)
        BY <1>2, <1>3, <1>7, <1>15, <3>2 DEF x
      <4> QED
        BY <1>5, <1>7, <3>2, <4>1, BelowTrans
    <3>3. CASE w # u
      BY <1>1, <1>5, <3>3 DEF Data
    <3> QED
      BY <3>1, <3>2, <3>3
  <2>2. ASSUME NEW d \in M, NEW i \in 1..Len(D2[d]), D2[d][i].type = "INPUT_DATA"
        PROVE  Segment(D2[d][i], S2[D2[d][i].user])
    <3> DEFINE p == D2[d][i]
    <3>1. ASSUME NEW j \in 1..Len(D[d]), p = D[d][j] PROVE Segment(p, S2[p.user])
      <4>1. p \in InputPacket /\ p.user \in User
        BY <1>2, <1>4, <2>2, <3>1, InputEnd
      <4>2. Segment(p, S[p.user])
        BY <1>1, <2>2, <3>1 DEF Data
      <4> HIDE DEF p
      <4> QED
        BY <1>3, <1>10, <4>1, <4>2, SegmentBelow
    <3>2. ASSUME NEW j \in 1..Len(vs), p = ps[j] PROVE Segment(p, S2[p.user])
      <4> HIDE DEF p
      <4>1. p.user = u /\ Segment(p, x \o vs)
        BY <1>8, <3>2 DEF IsInput
      <4> QED
        BY <1>5, <4>1
    <3> QED
      BY <1>17, <3>1, <3>2
  <2> QED
    BY <1>1, <2>1, <2>2 DEF Data
<1>19. Delivery(M, S2, U, D2, L)
  <2>1. ASSUME NEW d \in M, NEW w \in User
        PROVE  Conveys(D2[d], w, Len(L[d][w]), Len(S2[w]))
    <3>1. Conveys(D[d], w, Len(L[d][w]), Len(S[w])) /\ d \in User
      BY <1>1, <1>2 DEF Delivery
    <3>2. D[d] \in Seq(Packet) /\ Len(S[w]) \in Nat /\ Len(L[d][w]) \in Nat
      BY <1>3, <1>4, <3>1
    <3>3. CASE w # u /\ d = c
      BY <1>5, <3>1, <3>3
    <3>4. CASE w # u /\ d # c
      <4>1. \A i \in 1..Len(ps) : ~IsInput(ps[i], w)
        BY <1>8, <3>4 DEF IsInput
      <4>2. Conveys(D[d] \o ps, w, Len(L[d][w]), Len(S[w]))
        BY <1>8, <3>1, <3>2, <4>1, ConveysConcat
      <4> QED
        BY <1>5, <3>4, <4>2
    <3>5. CASE w = u /\ d # c
      <4>1. Conveys(D[d], u, Len(L[d][u]), Len(x))
        BY <3>1, <3>5 DEF x
      <4>2. x \in Seq(Input) /\ Len(L[d][u]) \in Nat
        BY <1>2, <1>3, <3>1 DEF x
      <4>3. Conveys(D[d] \o Packets(u, x, vs), u, Len(L[d][u]), Len(x) + Len(vs))
        BY <1>2, <1>7, <3>2, <4>1, <4>2, ConveysPackets
      <4> QED
        BY <1>5, <1>8, <3>5, <4>3 DEF ps
    <3>6. CASE w = u /\ d = c
      <4>1. Len(S2[u]) <= Len(L[c][u]) /\ Len(S2[u]) \in Nat
        BY <1>5, <1>7, <1>13
      <4>2. Len(L[c][u]) <= Len(L[c][u])
        BY <3>2, <3>6
      <4> QED
        BY <1>5, <3>1, <3>2, <3>6, <4>1, <4>2, ConveysMore
    <3> QED
      BY <3>3, <3>4, <3>5, <3>6
  <2>2. ASSUME NEW d \in M, NEW w \in M
        PROVE  Conveys(U[d], w, Len(S2[w]), Len(L[d][w]))
    <3>1. Conveys(U[d], w, Len(S[w]), Len(L[d][w])) /\ d \in User /\ w \in User
      BY <1>1, <1>2 DEF Delivery
    <3>2. U[d] \in Seq(Packet) /\ Len(S[w]) \in Nat /\ Len(L[d][w]) \in Nat
      BY <1>3, <1>4, <3>1
    <3>3. Len(S2[w]) \in Nat /\ Len(S[w]) <= Len(S2[w])
      BY <1>10, <3>1
    <3> QED
      BY <3>1, <3>2, <3>3, ConveysMore
  <2> QED
    BY <2>1, <2>2 DEF Delivery
<1>20. \A i \in 1..Len(ps) : \A w : ~IsGift(ps[i], w)
  BY <1>8 DEF IsInput, IsGift
<1>21. ASSUME NEW w \in User, w # u PROVE Settled(M, S2, U, D2, A, L, w)
  <2>1. \A i \in 1..Len(ps) : ~IsInput(ps[i], w) /\ ~IsGift(ps[i], w)
    BY <1>8, <1>20, <1>21 DEF IsInput
  <2>2. ASSUME NEW d \in M PROVE Len(D2[d]) \in Nat /\ Follows(D2[d], D[d], w, {d})
    <3>1. CASE d = c
      BY <1>2, <1>4, <1>5, <3>1, FollowsSame
    <3>2. CASE d # c
      BY <1>2, <1>4, <1>5, <1>8, <1>16, <2>1, <3>2, FollowsConcat
    <3> QED
      BY <3>1, <3>2
  <2>3. \A d \in M : Len(U[d]) \in Nat /\ Follows(U[d], U[d], w, User)
    BY <1>2, <1>4, FollowsSame
  <2>4. Settled(M, S, U, D, A, L, w)
    BY <1>1
  <2>5. \A d \in M : /\ A[d][w] = d => Len(S2[w]) <= Len(L[d][w])
                     /\ Ahead(S2, L, w, d) => Ahead(S, L, w, d)
    BY <1>5, <1>21, <2>4 DEF Settled, Behind, Ahead
  <2>6. Undisturbed(M, S, U, D, A, L, M, S2, U, D2, A, L, w)
    BY <1>2, <1>4, <2>2, <2>3, <2>5 DEF Undisturbed
  <2>7. Views(D, A, D2, A, w)
    <3>1. CASE D2[w] = D[w]
      BY <3>1, ViewsSame
    <3>2. CASE D2[w] = D[w] \o ps
      BY <1>4, <1>8, <2>1, <3>2, ViewsConcat
    <3> QED
      BY <1>5, <3>1, <3>2
  <2> QED
    BY <2>4, <2>6, <2>7, Kept
<1>22. ASSUME NEW d \in M, NEW w \in User PROVE Down(D2, w, d) = Down(D, w, d)
  <2>1. CASE d = c
    BY <1>5, <2>1 DEF Down
  <2>2. CASE d # c
    <3>1. D[d] \in Seq(Packet) /\ \A i \in 1..Len(ps) : ~IsGift(ps[i], w)
      BY <1>2, <1>4, <1>20
    <3>2. \A a : Delegates(D[d] \o ps, w, a) = Delegates(D[d], w, a)
      BY <1>8, <3>1, DelegatesConcat
    <3> QED
      BY <1>5, <2>2, <3>2 DEF Down
  <2> QED
    BY <2>1, <2>2
<1>23. Settled(M, S2, U, D2, A, L, u)
  <2>1. /\ Unique(M, U, D, A, u) /\ Behind(M, S, U, D, A, L, u) /\ Owner(M, S, U, D, A, L, u)
    BY <1>1, <1>2 DEF Settled
  <2>2. Unique(M, U, D2, A, u)
    BY <1>2, <1>22, <2>1 DEF Unique
  <2>3. ASSUME NEW d \in M, Ahead(S2, L, u, d) PROVE d = c
    <3>1. Ahead(S, L, u, d)
      <4>1. Len(S2[u]) < Len(L[d][u]) /\ Len(S[u]) <= Len(S2[u])
        BY <1>2, <1>10, <2>3 DEF Ahead
      <4>2. Len(S[u]) \in Nat /\ Len(S2[u]) \in Nat /\ Len(L[d][u]) \in Nat
        BY <1>2, <1>3, <1>10
      <4> QED
        BY <4>1, <4>2 DEF Ahead
    <3> QED
      BY <1>14, <3>1
  <2>4. Len(S2[u]) <= Len(L[c][u])
    BY <1>5, <1>13
  <2>5. Behind(M, S2, U, D2, A, L, u)
    <3>1. ASSUME NEW d \in M, A[d][u] = d
          PROVE  Len(S2[u]) <= Len(L[d][u]) /\ \A k \in 1..Len(D2[d]) : ~IsInput(D2[d][k], u)
      BY <1>5, <1>14, <2>1, <2>4, <3>1 DEF Behind
    <3>2. \A d \in M : \A i \in Up(M, U, u, d) :
             /\ d = c
             /\ \A k \in i..Len(U[d]) : ~IsInput(U[d][k], u)
      BY <1>14, <2>1 DEF Behind
    <3>3. \A d \in M : Down(D2, u, d) = {}
      BY <1>2, <1>14, <1>22
    <3> QED
      BY <1>14, <2>3, <3>1, <3>2, <3>3 DEF Behind
  <2>6. Owner(M, S2, U, D2, A, L, u)
    <3>1. CASE u = c
      <4>1. D2[u] = D[u]
        BY <1>5, <3>1
      <4>2. \A d \in M : Down(D2, u, d) = {}
        BY <1>2, <1>14, <1>22
      <4> QED
        BY <2>1, <2>3, <3>1, <4>1, <4>2 DEF Owner, WillSee
    <3>2. CASE u # c
      <4>1. D2[u] = D[u] \o ps /\ D[u] \in Seq(Packet)
        BY <1>2, <1>4, <1>5, <3>2
      <4>2. \A a : WillSee(D, A, u, a) => WillSee(D2, A, u, a)
        BY <1>8, <1>20, <4>1, ViewConcat DEF WillSee
      <4>3. ASSUME NEW i \in 1..Len(D[u]), D[u][i].type = "QUIT",
                   Sees(D[u], i - 1, A[u][u], u, D[u][i].user)
            PROVE  FALSE
        <5>1. Final(D[u], A[u][u], u) /\ WillSee(D, A, u, c)
          BY <1>14, <2>1, <3>2 DEF Owner
        <5>2. Sees(D[u], Len(D[u]), A[u][u], u, D[u][i].user)
          BY <4>1, <4>3, <5>1, FinalLast
        <5>3. Len(D[u]) \in Nat
          BY <1>2, <1>4
        <5>4. D[u][i].user = c
          BY <5>1, <5>2, <5>3, SeesUnique DEF WillSee
        <5> QED
          BY <1>1, <1>2, <4>3, <5>4 DEF NoFalseQuit
      <4>4. Final(D[u] \o ps, A[u][u], u)
        <5>1. \A i \in 1..Len(ps) : ps[i].type # "QUIT"
          BY <1>8 DEF IsInput
        <5>2. Final(D[u], A[u][u], u)
          BY <2>1 DEF Owner
        <5> QED
          BY <1>8, <4>1, <4>3, <5>1, <5>2, FinalConcat
      <4>5. \A d \in M : Down(D2, u, d) = {}
        BY <1>2, <1>14, <1>22
      <4>6. \A d \in M : Ahead(S2, L, u, d) => WillSee(D2, A, u, d)
        BY <1>14, <2>3, <3>2, <4>2
      <4>7. \A d \in M : A[d][u] = d => WillSee(D2, A, u, d)
        BY <2>1, <4>2 DEF Owner
      <4>8. \A d \in M : \A i \in Up(M, U, u, d) :
               WillSee(D2, A, u, IF d = u THEN U[d][i].authority ELSE d)
        BY <2>1, <4>2 DEF Owner
      <4> QED
        BY <4>1, <4>4, <4>5, <4>6, <4>7, <4>8 DEF Owner
    <3> QED
      BY <3>1, <3>2
  <2> QED
    BY <2>2, <2>5, <2>6 DEF Settled
<1>24. NoFalseQuit(M, D2)
  <2>1. \A i \in 1..Len(vs) : ps[i].type # "QUIT"
    BY <1>8 DEF IsInput
  <2> QED
    BY <1>1, <1>17, <2>1 DEF NoFalseQuit
<1> QED
  <2>1. \A w \in User : Settled(M, S2, U, D2, A, L, w)
    BY <1>21, <1>23
  <2> QED
    BY <1>1, <1>9, <1>18, <1>19, <1>24, <2>1 DEF Streams, Authority

\* The server is done with a packet.
DropMove(c, U, U2) == U[c] # <<>> /\ U2 = [U EXCEPT ![c] = Tail(@)]

LEMMA Drop ==
  ASSUME NEW M, NEW S, NEW U, NEW D, NEW A, NEW L, NEW U2,
         Streams(M, S, U, D, A, L), NEW c \in M, DropMove(c, U, U2),
         \A u \in M : IsInput(Head(U[c]), u) => End(Head(U[c])) <= Len(S[u])
  PROVE  Streams(M, S, U2, D, A, L)
<1> DEFINE r == Tail(U[c])
<1>1. /\ Types(M, S, U, D, A, L) /\ NoFalseQuit(M, D) /\ Honest(M, U)
      /\ Data(M, S, U, D, L) /\ Delivery(M, S, U, D, L)
      /\ \A u \in User : Settled(M, S, U, D, A, L, u)
  BY DEF Streams, Authority
<1>2. c \in User /\ U[c] # <<>> /\ \A d \in M : d \in User
  BY <1>1, Typed DEF DropMove
<1>3. /\ \A u \in User : Len(S[u]) \in Nat
      /\ \A d \in User : \A u \in User : Len(L[d][u]) \in Nat
  BY <1>1, Typed
<1>4. \A d \in User : /\ U[d] \in Seq(Packet) /\ Len(U[d]) \in Nat
                      /\ D[d] \in Seq(Packet) /\ Len(D[d]) \in Nat
  BY <1>1, Typed
<1>5. /\ r \in Seq(Packet) /\ Len(r) = Len(U[c]) - 1 /\ Len(r) \in Nat
      /\ \A i \in 1..Len(r) : r[i] = U[c][i + 1] /\ i + 1 \in 1..Len(U[c])
  BY <1>2, <1>4, Tailed, LenProperties
<1>6. U2[c] = r /\ \A d \in User : d # c => U2[d] = U[d]
  BY <1>1, <1>2 DEF Types, DropMove
<1>7. Types(M, S, U2, D, A, L)
  BY <1>1, <1>2, <1>5 DEF Types, DropMove
<1>8. Data(M, S, U2, D, L) /\ Delivery(M, S, U2, D, L)
  <2>1. Still(r, U[c], S, M)
    BY <1>2, <1>3, <1>4, StillTail
  <2>2. \A d \in M : Still(U2[d], U[d], S, M) /\ Still(D[d], D[d], L[d], User)
    BY <1>2, <1>6, <2>1, StillSame
  <2> QED
    BY <1>1, <1>2, <1>3, <2>2, Unmoved
<1>9. ASSUME NEW u \in User PROVE Settled(M, S, U2, D, A, L, u)
  <2>1. \A d \in M : /\ Len(U2[d]) \in Nat /\ Follows(U2[d], U[d], u, User)
                     /\ Len(D[d]) \in Nat /\ Follows(D[d], D[d], u, {d})
    BY <1>2, <1>4, <1>5, <1>6, FollowsSame, FollowsTail
  <2>2. Settled(M, S, U, D, A, L, u)
    BY <1>1
  <2>3. \A d \in M : A[d][u] = d => Len(S[u]) <= Len(L[d][u])
    BY <2>2 DEF Settled, Behind
  <2>4. Undisturbed(M, S, U, D, A, L, M, S, U2, D, A, L, u)
    BY <1>2, <1>4, <2>1, <2>3 DEF Undisturbed
  <2> QED
    BY <2>2, <2>4, ViewsSame, Kept
<1>10. Honest(M, U2)
  <2>1. ASSUME NEW d \in M, NEW i \in 1..Len(U2[d]) PROVE \E j \in 1..Len(U[d]) : U2[d][i] = U[d][j]
    <3>1. CASE d = c
      BY <1>5, <1>6, <3>1
    <3>2. CASE d # c
      BY <1>2, <1>6, <3>2
    <3> QED
      BY <3>1, <3>2
  <2> QED
    BY <1>1, <2>1 DEF Honest
<1> QED
  BY <1>1, <1>7, <1>8, <1>9, <1>10 DEF Streams, Authority

\* The server tells the members of to something that moves no authority.
TellMove(to, m, D, D2) == D2 = [d \in User |-> IF d \in to THEN Append(D[d], m) ELSE D[d]]

LEMMA Tell ==
  ASSUME NEW M, NEW S, NEW U, NEW D, NEW A, NEW L, NEW D2, NEW to,
         Streams(M, S, U, D, A, L), NEW m \in Packet,
         m.type = "REQUEST_AUTHORITY" \/ (m.type = "QUIT" /\ m.user \notin M),
         TellMove(to, m, D, D2)
  PROVE  Streams(M, S, U, D2, A, L)
<1>1. /\ Types(M, S, U, D, A, L) /\ NoFalseQuit(M, D) /\ Honest(M, U)
      /\ Data(M, S, U, D, L) /\ Delivery(M, S, U, D, L)
      /\ \A u \in User : Settled(M, S, U, D, A, L, u)
  BY DEF Streams, Authority
<1>2. \A d \in M : d \in User
  BY <1>1, Typed
<1>3. /\ \A u \in User : Len(S[u]) \in Nat
      /\ \A d \in User : \A u \in User : Len(L[d][u]) \in Nat
  BY <1>1, Typed
<1>4. \A d \in User : /\ U[d] \in Seq(Packet) /\ Len(U[d]) \in Nat
                      /\ D[d] \in Seq(Packet) /\ Len(D[d]) \in Nat
  BY <1>1, Typed
<1>5. \A d \in User : D2[d] = D[d] \/ D2[d] = Append(D[d], m)
  BY DEF TellMove
<1>6. \A d \in User :
        /\ Append(D[d], m) \in Seq(Packet) /\ Len(Append(D[d], m)) = Len(D[d]) + 1
        /\ Append(D[d], m)[Len(D[d]) + 1] = m
        /\ \A i \in 1..Len(D[d]) : Append(D[d], m)[i] = D[d][i]
  BY <1>4, Appended
<1>7. Types(M, S, U, D2, A, L)
  <2>1. D2 \in [User -> Seq(Packet)]
    BY <1>4, <1>6 DEF TellMove
  <2> QED
    BY <1>1, <2>1 DEF Types
<1>8. Data(M, S, U, D2, L) /\ Delivery(M, S, U, D2, L)
  <2>1. ASSUME NEW d \in M PROVE Still(U[d], U[d], S, M) /\ Still(D2[d], D[d], L[d], User)
    <3>1. Still(Append(D[d], m), D[d], L[d], User)
      BY <1>2, <1>3, <1>4, StillAppend
    <3> QED
      BY <1>2, <1>5, <3>1, StillSame
  <2> QED
    BY <1>1, <1>2, <1>3, <2>1, Unmoved
<1>9. ASSUME NEW u \in User PROVE Settled(M, S, U, D2, A, L, u)
  <2>1. ~IsInput(m, u) /\ ~IsGift(m, u)
    BY DEF IsInput, IsGift
  <2>2. ASSUME NEW d \in M PROVE Len(D2[d]) \in Nat /\ Follows(D2[d], D[d], u, {d})
    <3>1. CASE D2[d] = D[d]
      BY <1>2, <1>4, <3>1, FollowsSame
    <3>2. CASE D2[d] = Append(D[d], m)
      BY <1>2, <1>4, <1>6, <2>1, <3>2, FollowsAppend, LenProperties
    <3> QED
      BY <1>2, <1>5, <3>1, <3>2
  <2>3. \A d \in M : Len(U[d]) \in Nat /\ Follows(U[d], U[d], u, User)
    BY <1>2, <1>4, FollowsSame
  <2>4. Settled(M, S, U, D, A, L, u)
    BY <1>1
  <2>5. \A d \in M : A[d][u] = d => Len(S[u]) <= Len(L[d][u])
    BY <2>4 DEF Settled, Behind
  <2>6. Undisturbed(M, S, U, D, A, L, M, S, U, D2, A, L, u)
    BY <1>2, <1>4, <2>2, <2>3, <2>5 DEF Undisturbed
  <2>7. Views(D, A, D2, A, u)
    <3>1. CASE D2[u] = D[u]
      BY <3>1, ViewsSame
    <3>2. CASE D2[u] = Append(D[u], m)
      BY <1>4, <2>1, <3>2, ViewsAppend
    <3> QED
      BY <1>5, <3>1, <3>2
  <2> QED
    BY <2>4, <2>6, <2>7, Kept
<1>10. NoFalseQuit(M, D2)
  <2>1. ASSUME NEW d \in M, NEW i \in 1..Len(D2[d]), D2[d][i].type = "QUIT"
        PROVE  D2[d][i].user \notin M
    <3>1. CASE D2[d] = D[d]
      BY <1>1, <2>1, <3>1 DEF NoFalseQuit
    <3>2. CASE D2[d] = Append(D[d], m)
      <4>1. i \in 1..Len(D[d]) \/ i = Len(D[d]) + 1
        BY <1>2, <1>4, <1>6, <3>2
      <4>2. CASE i \in 1..Len(D[d])
        BY <1>1, <1>2, <1>6, <2>1, <3>2, <4>2 DEF NoFalseQuit
      <4>3. CASE i = Len(D[d]) + 1
        BY <1>2, <1>6, <2>1, <3>2, <4>3
      <4> QED
        BY <4>1, <4>2, <4>3
    <3> QED
      BY <1>2, <1>5, <3>1, <3>2
  <2> QED
    BY <2>1 DEF NoFalseQuit
<1> QED
  BY <1>1, <1>7, <1>8, <1>9, <1>10 DEF Streams, Authority

\* A member leaves, and nothing is known of it afterwards.
LeaveMove(c, M, U, D, A, L, M2, U2, D2, A2, L2) ==
    /\ M2 = M \ {c}
    /\ \A d \in M2 : U2[d] = U[d] /\ D2[d] = D[d] /\ A2[d] = A[d] /\ L2[d] = L[d]

LEMMA Leave ==
  ASSUME NEW M, NEW S, NEW U, NEW D, NEW A, NEW L,
         NEW M2, NEW U2, NEW D2, NEW A2, NEW L2, NEW c,
         Streams(M, S, U, D, A, L), LeaveMove(c, M, U, D, A, L, M2, U2, D2, A2, L2),
         Types(M2, S, U2, D2, A2, L2)
  PROVE  Streams(M2, S, U2, D2, A2, L2)
<1>1. /\ Types(M, S, U, D, A, L) /\ NoFalseQuit(M, D) /\ Honest(M, U)
      /\ Data(M, S, U, D, L) /\ Delivery(M, S, U, D, L)
      /\ \A u \in User : Settled(M, S, U, D, A, L, u)
  BY DEF Streams, Authority
<1>2. \A d \in M2 : /\ d \in M /\ d \in User
                    /\ U2[d] = U[d] /\ D2[d] = D[d] /\ A2[d] = A[d] /\ L2[d] = L[d]
  BY <1>1, Typed DEF LeaveMove
<1>3. /\ \A u \in User : Len(S[u]) \in Nat
      /\ \A d \in User : \A u \in User : Len(L[d][u]) \in Nat
  BY <1>1, Typed
<1>4. \A d \in User : /\ U[d] \in Seq(Packet) /\ Len(U[d]) \in Nat
                      /\ D[d] \in Seq(Packet) /\ Len(D[d]) \in Nat
  BY <1>1, Typed
<1>5. Data(M2, S, U2, D2, L2) /\ Delivery(M2, S, U2, D2, L2)
  <2>1. \A d \in M2 : /\ \A u \in User : Conveys(D[d], u, Len(L[d][u]), Len(S[u]))
                      /\ \A u \in M2 : Conveys(U[d], u, Len(S[u]), Len(L[d][u]))
    BY <1>1, <1>2 DEF Delivery
  <2>2. Delivery(M2, S, U2, D2, L2)
    BY <1>2, <2>1 DEF Delivery
  <2>3. Data(M2, S, U2, D2, L2)
    BY <1>1, <1>2 DEF Data
  <2> QED
    BY <2>2, <2>3
<1>6. ASSUME NEW u \in User PROVE Settled(M2, S, U2, D2, A2, L2, u)
  <2>1. \A d \in M2 : /\ Len(U2[d]) \in Nat /\ Follows(U2[d], U[d], u, User)
                      /\ Len(D2[d]) \in Nat /\ Follows(D2[d], D[d], u, {d})
    BY <1>2, <1>4, FollowsSame
  <2>2. Settled(M, S, U, D, A, L, u)
    BY <1>1
  <2>3. \A d \in M2 : /\ A2[d][u] = d => A[d][u] = d /\ Len(S[u]) <= Len(L2[d][u])
                      /\ Ahead(S, L2, u, d) => Ahead(S, L, u, d)
    BY <1>2, <2>2 DEF Settled, Behind, Ahead
  <2>4. Undisturbed(M, S, U, D, A, L, M2, S, U2, D2, A2, L2, u)
    BY <1>2, <1>4, <2>1, <2>3 DEF Undisturbed
  <2>5. u \in M2 => u \in M /\ Views(D, A, D2, A2, u)
    BY <1>2, ViewsSame
  <2> QED
    BY <2>2, <2>4, <2>5, Kept
<1>7. NoFalseQuit(M2, D2) /\ Honest(M2, U2)
  BY <1>1, <1>2 DEF NoFalseQuit, Honest
<1> QED
  BY <1>5, <1>6, <1>7 DEF Streams, Authority

\* The authority over u is at most in the last packet on its way to a, and
\* nobody has more of the stream than the server.
DueTo(M, S, U, D, A, L, u, a) ==
    /\ \A d \in M : /\ A[d][u] # d /\ Up(M, U, u, d) = {} /\ ~Ahead(S, L, u, d)
                    /\ d # a => Down(D, u, d) = {}
    /\ \A i \in Down(D, u, a) : i = Len(D[a])
    /\ Len(D[a]) \in Nat /\ ~IsInput(D[a][Len(D[a])], u)

LEMMA OnlyDue ==
  ASSUME NEW M, NEW S, NEW U, NEW D, NEW A, NEW L, NEW u, NEW a,
         DueTo(M, S, U, D, A, L, u, a),
         u \in M => WillSee(D, A, u, a) /\ Final(D[u], A[u][u], u)
  PROVE  Settled(M, S, U, D, A, L, u)
<1>1. Unique(M, U, D, A, u)
  BY DEF DueTo, Unique
<1>2. \A i \in Down(D, u, a) : \A k \in i..Len(D[a]) : k = Len(D[a])
  BY DEF DueTo
<1>3. Behind(M, S, U, D, A, L, u)
  BY <1>2 DEF DueTo, Behind
<1>4. u \in M => Owner(M, S, U, D, A, L, u)
  BY DEF DueTo, Owner
<1> QED
  BY <1>1, <1>3, <1>4 DEF Settled

\* The server relays a gift, or the word of a client that took its own
\* authority back.
PassMove(M, c, U, D, U2, D2) ==
    /\ U[c] # <<>>
    /\ U2 = [U EXCEPT ![c] = Tail(@)]
    /\ D2 = [d \in User |-> IF d \in M \ {c} THEN Append(D[d], Head(U[c])) ELSE D[d]]

LEMMA Pass ==
  ASSUME NEW M, NEW S, NEW U, NEW D, NEW A, NEW L, NEW U2, NEW D2,
         Streams(M, S, U, D, A, L), NEW c \in M, PassMove(M, c, U, D, U2, D2),
         Head(U[c]).type = "DELEGATE_AUTHORITY",
         Head(U[c]).user \in M, Head(U[c]).authority \in M
  PROVE  Streams(M, S, U2, D2, A, L)
<1> DEFINE m == Head(U[c])
           r == Tail(U[c])
           u == m.user
           a == m.authority
<1>1. /\ Types(M, S, U, D, A, L) /\ NoFalseQuit(M, D) /\ Honest(M, U)
      /\ Data(M, S, U, D, L) /\ Delivery(M, S, U, D, L)
      /\ \A w \in User : Settled(M, S, U, D, A, L, w)
  BY DEF Streams, Authority
<1>2. /\ c \in User /\ U[c] # <<>> /\ \A d \in M : d \in User
      /\ m.type = "DELEGATE_AUTHORITY" /\ u \in M /\ a \in M
  BY <1>1, Typed DEF PassMove
<1>3. /\ \A w \in User : Len(S[w]) \in Nat
      /\ \A d \in User : \A w \in User : Len(L[d][w]) \in Nat
  BY <1>1, Typed
<1>4. \A d \in User : /\ U[d] \in Seq(Packet) /\ Len(U[d]) \in Nat
                      /\ D[d] \in Seq(Packet) /\ Len(D[d]) \in Nat
  BY <1>1, Typed
<1>5. /\ m \in Packet /\ m = U[c][1] /\ r \in Seq(Packet) /\ Len(r) = Len(U[c]) - 1
      /\ Len(r) \in Nat /\ Len(U[c]) \in Nat \ {0}
      /\ \A i \in 1..Len(r) : r[i] = U[c][i + 1] /\ i + 1 \in 1..Len(U[c])
  BY <1>2, <1>4, Tailed, LenProperties
<1>6. U2[c] = r /\ \A d \in User : d # c => U2[d] = U[d]
  BY <1>1, <1>2 DEF Types, PassMove
<1>7. D2[c] = D[c] /\ \A d \in M : d # c => D2[d] = Append(D[d], m)
  BY <1>2 DEF PassMove
<1>8. Types(M, S, U2, D2, A, L)
  <2>1. \A d \in User : Append(D[d], m) \in Seq(Packet)
    BY <1>4, <1>5, Appended
  <2>2. D2 \in [User -> Seq(Packet)]
    BY <1>4, <2>1 DEF PassMove
  <2>3. U2 \in [User -> Seq(Packet)]
    BY <1>1, <1>5 DEF Types, PassMove
  <2> QED
    BY <1>1, <2>2, <2>3 DEF Types
<1> HIDE DEF m, r, u, a
<1>9. \A d \in User :
        /\ Append(D[d], m) \in Seq(Packet) /\ Len(Append(D[d], m)) = Len(D[d]) + 1
        /\ Append(D[d], m)[Len(D[d]) + 1] = m
        /\ \A i \in 1..Len(D[d]) : Append(D[d], m)[i] = D[d][i]
  BY <1>4, <1>5, Appended
<1>10. Data(M, S, U2, D2, L) /\ Delivery(M, S, U2, D2, L)
  <2>1. \A w \in M : Len(S[w]) \in Nat /\ ~IsInput(Head(U[c]), w)
    BY <1>2, <1>3 DEF IsInput, m
  <2>2. Still(r, U[c], S, M)
    BY <1>2, <1>4, <2>1, StillTail DEF r
  <2>3. ASSUME NEW d \in M PROVE Still(U2[d], U[d], S, M) /\ Still(D2[d], D[d], L[d], User)
    <3>1. Still(Append(D[d], m), D[d], L[d], User)
      BY <1>2, <1>3, <1>4, <1>5, StillAppend
    <3> QED
      BY <1>2, <1>6, <1>7, <2>2, <3>1, StillSame
  <2> QED
    BY <1>1, <1>2, <1>3, <2>3, Unmoved
<1>11. \A d \in M : Len(U2[d]) \in Nat /\ \A w : Follows(U2[d], U[d], w, User)
  BY <1>2, <1>4, <1>5, <1>6, FollowsSame, FollowsTail DEF r
<1>12. ASSUME NEW w \in User, w # u \/ a = c PROVE Settled(M, S, U2, D2, A, L, w)
  <2>1. ~IsInput(m, w) /\ (IsGift(m, w) => w = u /\ m.authority = c)
    BY <1>2, <1>12 DEF IsInput, IsGift, u, a
  <2>2. ASSUME NEW d \in M PROVE Len(D2[d]) \in Nat /\ Follows(D2[d], D[d], w, {d})
    <3>1. CASE d = c
      BY <1>2, <1>4, <1>7, <3>1, FollowsSame
    <3>2. CASE d # c
      <4>1. ~(IsGift(m, w) /\ m.authority \in {d})
        BY <2>1, <3>2
      <4>2. D[d] \in Seq(Packet) /\ D2[d] = Append(D[d], m) /\ Len(D[d]) \in Nat /\ d \in User
        BY <1>2, <1>4, <1>7, <3>2
      <4>3. Follows(Append(D[d], m), D[d], w, {d})
        BY <1>5, <2>1, <4>1, <4>2, FollowsAppend
      <4> QED
        BY <1>9, <4>2, <4>3
    <3> QED
      BY <3>1, <3>2
  <2>3. Settled(M, S, U, D, A, L, w)
    BY <1>1
  <2>4. \A d \in M : A[d][w] = d => Len(S[w]) <= Len(L[d][w])
    BY <2>3 DEF Settled, Behind
  <2>5. Undisturbed(M, S, U, D, A, L, M, S, U2, D2, A, L, w)
    BY <1>2, <1>4, <1>11, <2>2, <2>4 DEF Undisturbed
  <2>6. w \in M => Views(D, A, D2, A, w)
    <3>1. CASE D2[w] = D[w]
      BY <3>1, ViewsSame
    <3>2. CASE w # c /\ D2[w] = Append(D[w], m)
      <4>1. IsGift(m, w) => m.user = c
        <5>1. 1 \in 1..Len(U[c])
          BY <1>5
        <5> QED
          BY <1>1, <1>2, <1>5, <2>1, <5>1 DEF Honest, u
      <4>2. ~IsGift(m, w)
        BY <3>2, <4>1 DEF IsGift
      <4> QED
        BY <1>4, <1>5, <2>1, <3>2, <4>2, ViewsAppend
    <3> QED
      BY <1>7, <3>1, <3>2
  <2> QED
    BY <2>3, <2>5, <2>6, Kept
<1>13. ASSUME a # c PROVE Settled(M, S, U2, D2, A, L, u)
  <2>1. /\ Unique(M, U, D, A, u) /\ Behind(M, S, U, D, A, L, u) /\ Owner(M, S, U, D, A, L, u)
    BY <1>1, <1>2 DEF Settled
  <2>2. 1 \in Up(M, U, u, c)
    BY <1>2, <1>5, <1>13 DEF Up, Delegates, u, a
  <2>3. ASSUME NEW d \in M
        PROVE  /\ A[d][u] # d /\ Down(D, u, d) = {}
               /\ \A i \in Up(M, U, u, d) : d = c /\ i = 1
               /\ Ahead(S, L, u, d) => d = c
    BY <2>1, <2>2 DEF Unique, Behind
  <2>4. ASSUME NEW d \in M PROVE Up(M, U2, u, d) = {}
    <3>1. CASE d = c
      <4>1. \A i \in Up(M, U2, u, c) : i \in 1..Len(r) /\ i + 1 \in Up(M, U, u, c)
        BY <1>5, <1>6 DEF Up, Delegates
      <4>2. \A i \in 1..Len(r) : i + 1 # 1
        BY <1>5
      <4> QED
        BY <2>3, <3>1, <4>1, <4>2
    <3>2. CASE d # c
      BY <1>2, <1>6, <2>3, <3>2 DEF Up
    <3> QED
      BY <3>1, <3>2
  <2>5. \A d \in M : ~Ahead(S, L, u, d)
    <3>1. \A k \in 1..Len(U[c]) : ~IsInput(U[c][k], u)
      BY <2>1, <2>2 DEF Behind
    <3>2. Len(L[c][u]) <= Len(S[u])
      BY <1>1, <1>2, <3>1 DEF Delivery, Conveys, Reaches
    <3>3. Len(L[c][u]) \in Nat /\ Len(S[u]) \in Nat
      BY <1>2, <1>3
    <3> QED
      BY <2>3, <3>2, <3>3 DEF Ahead
  <2>6. ASSUME NEW d \in M, NEW i \in Down(D2, u, d) PROVE d = a /\ i = Len(D2[d])
    <3>1. CASE d = c
      BY <1>7, <2>3, <2>6, <3>1 DEF Down
    <3>2. CASE d # c
      <4>1. D[d] \in Seq(Packet) /\ D2[d] = Append(D[d], m)
        BY <1>2, <1>4, <1>7, <3>2
      <4>2. \/ i \in Delegates(D[d], u, {d})
            \/ i = Len(D[d]) + 1 /\ m.authority \in {d}
        <5>1. m \in Packet /\ i \in Delegates(Append(D[d], m), u, {d})
          BY <1>5, <2>6, <4>1 DEF Down
        <5>2. \A n : n \in Delegates(Append(D[d], m), u, {d})
                      <=> \/ n \in Delegates(D[d], u, {d})
                          \/ n = Len(D[d]) + 1 /\ IsGift(m, u) /\ m.authority \in {d}
          BY <4>1, <5>1, DelegatesAppend
        <5> QED
          BY <5>1, <5>2
      <4> QED
        BY <1>2, <1>9, <2>3, <4>1, <4>2 DEF Down, a
    <3> QED
      BY <3>1, <3>2
  <2>7. /\ D2[a] = Append(D[a], m) /\ Len(D2[a]) \in Nat
        /\ ~IsInput(D2[a][Len(D2[a])], u)
    BY <1>2, <1>4, <1>7, <1>9, <1>13 DEF IsInput
  <2>8. DueTo(M, S, U2, D2, A, L, u, a)
    <3>1. \A d \in M : d # a => Down(D2, u, d) = {}
      BY <2>6
    <3>2. \A i \in Down(D2, u, a) : i = Len(D2[a])
      BY <1>2, <2>6
    <3> QED
      BY <2>3, <2>4, <2>5, <2>7, <3>1, <3>2 DEF DueTo
  <2>9. WillSee(D2, A, u, a) /\ Final(D2[u], A[u][u], u)
    <3>1. WillSee(D, A, u, IF c = u THEN a ELSE c) /\ Final(D[u], A[u][u], u)
      BY <1>5, <2>1, <2>2 DEF Owner, a
    <3>2. CASE c = u
      BY <1>7, <3>1, <3>2 DEF WillSee
    <3>3. CASE c # u
      <4>1. D2[u] = Append(D[u], m) /\ D[u] \in Seq(Packet) /\ u \in User /\ Len(D[u]) \in Nat
        BY <1>2, <1>4, <1>7, <3>3
      <4>2. IsGift(m, u)
        BY <1>2 DEF IsGift, u
      <4>3. WillSee(D2, A, u, a)
        <5>1. m \in Packet
          BY <1>5
        <5>2. Sees(Append(D[u], m), Len(D[u]) + 1, A[u][u], u, m.authority)
          BY <4>1, <4>2, <5>1, SeesAppend
        <5>3. Len(Append(D[u], m)) = Len(D[u]) + 1
          BY <1>9, <4>1
        <5> QED
          BY <4>1, <5>2, <5>3 DEF WillSee, a
      <4>4. ASSUME NEW i \in 1..Len(D[u]), D[u][i].type = "QUIT",
                   Sees(D[u], i - 1, A[u][u], u, D[u][i].user)
            PROVE  FALSE
        <5>1. Sees(D[u], Len(D[u]), A[u][u], u, D[u][i].user)
          BY <3>1, <4>1, <4>4, FinalLast
        <5>2. D[u][i].user = c
          BY <3>1, <3>3, <4>1, <5>1, SeesUnique DEF WillSee
        <5> QED
          BY <1>1, <1>2, <4>4, <5>2 DEF NoFalseQuit
      <4>5. /\ D2[u] = D[u] \o <<m>> /\ <<m>> \in Seq(Packet)
            /\ \A i \in 1..Len(<<m>>) : <<m>>[i].type # "QUIT"
        <5>1. m \in Packet /\ m.type # "QUIT"
          BY <1>2, <1>5
        <5>2. Append(D[u], m) = D[u] \o <<m>> /\ <<m>> \in Seq(Packet)
          BY <4>1, <5>1, Appended
        <5>3. Len(<<m>>) = 1 /\ <<m>>[1] = m
          OBVIOUS
        <5> QED
          BY <4>1, <5>1, <5>2, <5>3
      <4>6. Final(D[u] \o <<m>>, A[u][u], u)
        BY <3>1, <4>1, <4>4, <4>5, FinalConcat
      <4> QED
        BY <4>3, <4>5, <4>6
    <3> QED
      BY <3>2, <3>3
  <2> QED
    BY <2>8, <2>9, OnlyDue
<1>14. Honest(M, U2) /\ NoFalseQuit(M, D2)
  <2>1. ASSUME NEW d \in M, NEW i \in 1..Len(U2[d]) PROVE \E j \in 1..Len(U[d]) : U2[d][i] = U[d][j]
    <3>1. CASE d = c
      BY <1>5, <1>6, <3>1
    <3>2. CASE d # c
      BY <1>2, <1>6, <3>2
    <3> QED
      BY <3>1, <3>2
  <2>2. ASSUME NEW d \in M, NEW i \in 1..Len(D2[d]), D2[d][i].type = "QUIT"
        PROVE  \E j \in 1..Len(D[d]) : D2[d][i] = D[d][j]
    <3>1. CASE d = c
      BY <1>7, <3>1
    <3>2. CASE d # c
      <4>1. i \in 1..Len(D[d]) \/ i = Len(D[d]) + 1
        BY <1>2, <1>4, <1>7, <1>9, <3>2
      <4>2. CASE i \in 1..Len(D[d])
        BY <1>2, <1>7, <1>9, <3>2, <4>2
      <4>3. CASE i = Len(D[d]) + 1
        BY <1>2, <1>7, <1>9, <2>2, <3>2, <4>3
      <4> QED
        BY <4>1, <4>2, <4>3
    <3> QED
      BY <3>1, <3>2
  <2>3. ASSUME NEW d \in M, NEW i \in 1..Len(U2[d]), U2[d][i].type = "DELEGATE_AUTHORITY",
               U2[d][i].user # d
        PROVE  U2[d][i].authority # d
    <3>1. PICK j \in 1..Len(U[d]) : U2[d][i] = U[d][j]
      BY <2>1
    <3> QED
      BY <1>1, <2>3, <3>1 DEF Honest
  <2>4. NoFalseQuit(M, D2)
    BY <1>1, <2>2 DEF NoFalseQuit
  <2> QED
    BY <2>3, <2>4 DEF Honest
<1> QED
  <2>1. \A w \in User : Settled(M, S, U2, D2, A, L, w)
    BY <1>12, <1>13
  <2> QED
    BY <1>1, <1>8, <1>10, <1>14, <2>1 DEF Streams, Authority

-----------------------------------------------------------------------------
(* Every handler is a sequence of moves. *)

\* The inductive invariant.
StreamsNow == Streams(members, srvLog, up, down, auth, log)
DatagramsNow == Datagram(members, srvLog, upUdp, downUdp, log)
StreamInv == TypeOK /\ QuitOrder /\ StreamsNow /\ DatagramsNow

-----------------------------------------------------------------------------
(* What a handler may do to the copies of the streams. *)

\* Nobody has more of u's stream than c.
HasAll(c, u) ==
    /\ Below(srvLog[u], log[c][u])
    /\ \A d \in members : Below(log[d][u], log[c][u])

ClientCopy(c, u, x) ==
    /\ log' = [log EXCEPT ![c][u] = x]
    /\ Below(log[c][u], x)
    /\ x = log[c][u] \/ Below(x, srvLog[u]) \/ HasAll(c, u)
    /\ UNCHANGED <<members, srvLog>>

ServerCopy(c, u, x) ==
    /\ srvLog' = [srvLog EXCEPT ![u] = x]
    /\ Below(srvLog[u], x)
    /\ x = srvLog[u] \/ Below(x, log[c][u])
    /\ UNCHANGED <<members, log>>

CopyStep ==
    \/ UNCHANGED <<members, srvLog, log>>
    \/ \E c \in members, u \in User, x \in Seq(Input) :
          ClientCopy(c, u, x) \/ ServerCopy(c, u, x)
    \/ \E c \in members : ServerQuit(c)

\* What every step is shown to do.
StreamStep == StreamsNow' /\ DatagramsNow' /\ CopyStep

\* A copy that is as long as it was or longer lets old datagrams be parts of it.
LEMMA DatagramsKept ==
  ASSUME TypeOK, TypeOK', DatagramsNow, members' \subseteq members,
         \A u \in User : Below(srvLog[u], srvLog'[u]),
         \A d \in members', u \in User : Below(log[d][u], log'[d][u]),
         \A d \in members' : \A m \in upUdp'[d] :
            m \in upUdp[d] \/ Segment(m, log'[d][m.user]),
         \A d \in members' : \A m \in downUdp'[d] :
            m \in downUdp[d] \/ Segment(m, srvLog'[m.user])
  PROVE  DatagramsNow'
<1> SUFFICES ASSUME NEW d \in members'
             PROVE  /\ \A m \in upUdp'[d] : Segment(m, log'[d][m.user])
                    /\ \A m \in downUdp'[d] : Segment(m, srvLog'[m.user])
  BY DEF DatagramsNow, Datagram
<1>1. /\ d \in members /\ d \in User
      /\ \A u \in User : /\ log[d][u] \in Seq(Input) /\ log'[d][u] \in Seq(Input)
                         /\ srvLog[u] \in Seq(Input) /\ srvLog'[u] \in Seq(Input)
      /\ upUdp[d] \subseteq InputPacket /\ downUdp[d] \subseteq InputPacket
  BY DEF TypeOK
<1>2. \A m \in InputPacket : m.user \in User
  BY DEF InputPacket
<1>3. /\ \A m \in upUdp[d] : Segment(m, log[d][m.user])
      /\ \A m \in downUdp[d] : Segment(m, srvLog[m.user])
  BY <1>1 DEF DatagramsNow, Datagram
<1>4. ASSUME NEW m \in upUdp[d] PROVE Segment(m, log'[d][m.user])
  BY <1>1, <1>2, <1>3, SegmentBelow
<1>5. ASSUME NEW m \in downUdp[d] PROVE Segment(m, srvLog'[m.user])
  BY <1>1, <1>2, <1>3, SegmentBelow
<1> QED
  BY <1>4, <1>5

LEMMA BelowSelf ==
  ASSUME NEW s \in Seq(Input)
  PROVE  Below(s, s)
BY LenProperties DEF Below

\* Who has authority over a stream misses nothing of it.
LEMMA HolderHasAll ==
  ASSUME NEW M, NEW S, NEW U, NEW D, NEW A, NEW L, Streams(M, S, U, D, A, L),
         NEW c \in M, NEW u \in User, A[c][u] = c
  PROVE  Below(S[u], L[c][u]) /\ \A d \in M : Below(L[d][u], L[c][u])
<1>1. Types(M, S, U, D, A, L) /\ Data(M, S, U, D, L) /\ Behind(M, S, U, D, A, L, u)
  BY DEF Streams, Authority, Settled
<1>2. /\ S[u] \in Seq(Input) /\ Len(S[u]) \in Nat
      /\ \A d \in M : d \in User /\ L[d][u] \in Seq(Input) /\ Len(L[d][u]) \in Nat
  BY <1>1, Typed
<1>3. /\ Len(S[u]) <= Len(L[c][u])
      /\ \A d \in M : Below(L[d][u], S[u]) \/ Below(S[u], L[d][u])
      /\ \A d \in M : d # c => Len(L[d][u]) <= Len(S[u])
  BY <1>1, <1>2 DEF Behind, Data, Ahead
<1>4. Below(S[u], L[c][u])
  BY <1>2, <1>3 DEF Below
<1>5. ASSUME NEW d \in M PROVE Below(L[d][u], L[c][u])
  <2>1. CASE d = c
    BY <1>2, <2>1, BelowSelf
  <2>2. CASE d # c
    <3>1. Below(L[d][u], S[u])
      BY <1>2, <1>3, <2>2 DEF Below
    <3> QED
      BY <1>2, <1>4, <3>1, BelowTrans
  <2> QED
    BY <2>1, <2>2
<1> QED
  BY <1>4, <1>5

\* client::change_input_authority gives the authority away, asks for it, or
\* does nothing.
LEMMA ChangeStreams ==
  ASSUME TypeOK, NEW M, NEW S, NEW D, NEW L, Streams(M, S, up, D, auth, L),
         NEW c \in M, NEW u \in User, NEW a \in User, ChangeAuthority(c, u, a)
  PROVE  Streams(M, S, up', D, auth', L)
<1>1. CASE auth[c][u] = a
  <2>1. up' = up /\ auth' = auth
    BY <1>1 DEF ChangeAuthority
  <2> QED
    BY <2>1
<1>2. CASE auth[c][u] # a /\ auth[c][u] = c
  <2>1. a # c /\ GiveMove(c, u, a, up, auth, up', auth')
    BY <1>2 DEF ChangeAuthority, GiveMove
  <2> QED
    BY <1>2, <2>1, GiveAway
<1>3. CASE auth[c][u] # a /\ auth[c][u] # c
  <2>1. auth' = auth /\ AskMove(c, Request(u, a), up, up')
    BY <1>3 DEF ChangeAuthority, AskMove
  <2>2. Request(u, a) \in Packet /\ Request(u, a).type = "REQUEST_AUTHORITY"
    BY DEF Request, Packet, AuthorityPacket
  <2> QED
    BY <2>1, <2>2, Ask
<1> QED
  BY <1>1, <1>2, <1>3

\* send_input, by who has authority, makes the stream longer.
LEMMA SendStreams ==
  ASSUME TypeOK, NEW U, NEW D, NEW A, Streams(members, srvLog, U, D, A, log),
         NEW c \in members, NEW u \in User, NEW before \in Seq(Packet),
         NEW vs \in Seq(Input), A[c][u] = c, SendInputs(c, u, before, vs),
         U = [up EXCEPT ![c] = @ \o before], UNCHANGED <<members, srvLog, downUdp>>,
         TypeOK', DatagramsNow
  PROVE  /\ Streams(members, srvLog, up', D, A, log')
         /\ DatagramsNow' /\ CopyStep
<1> DEFINE t == log[c][u] \o vs
<1>1. c \in User /\ log[c][u] \in Seq(Input) /\ up[c] \in Seq(Packet)
  BY DEF TypeOK
<1>2. ProduceMove(c, u, vs, U, log, up', log')
  <2>1. up \in [User -> Seq(Packet)]
    BY DEF TypeOK
  <2>2. log' = [log EXCEPT ![c][u] = @ \o vs]
    BY DEF SendInputs
  <2>3. up' = [U EXCEPT ![c] = @ \o Packets(u, log[c][u], vs)]
    BY <1>1, <2>1 DEF SendInputs
  <2> QED
    BY <2>2, <2>3 DEF ProduceMove
<1>3. /\ Streams(members, srvLog, up', D, A, log')
      /\ \A d \in members, w \in User : Below(log[d][w], log'[d][w])
  BY <1>2, Produce
<1>4. t \in Seq(Input) /\ Below(log[c][u], t) /\ log' = [log EXCEPT ![c][u] = t]
  BY <1>1, BelowConcat DEF SendInputs
<1>5. log'[c][u] = t
  BY <1>1, <1>4 DEF TypeOK
<1> HIDE DEF t
<1>6. ASSUME NEW d \in members, NEW m \in upUdp'[d]
      PROVE  m \in upUdp[d] \/ Segment(m, log'[d][m.user])
  <2>1. m \in upUdp[d] \/ (d = c /\ m \in Datagrams(u, log[c][u], vs))
    BY <1>1 DEF SendInputs, TypeOK
  <2>2. ASSUME d = c, m \in Datagrams(u, log[c][u], vs)
        PROVE  Segment(m, log'[d][m.user])
    <3>1. m.user = u /\ Segment(m, log[c][u] \o vs)
      BY <1>1, <2>2, DatagramsSegment
    <3>2. log'[d][m.user] = log[c][u] \o vs
      BY <1>5, <2>2, <3>1 DEF t
    <3> QED
      BY <3>1, <3>2
  <2> QED
    BY <2>1, <2>2
<1>7. DatagramsNow'
  <2>1. \A w \in User : Below(srvLog[w], srvLog'[w])
    BY BelowSelf DEF TypeOK
  <2> QED
    BY <1>3, <1>6, <2>1, DatagramsKept
<1>8. ClientCopy(c, u, t)
  <2>1. HasAll(c, u)
    BY HolderHasAll DEF HasAll
  <2> QED
    BY <1>4, <2>1 DEF ClientCopy
<1> QED
  BY <1>3, <1>4, <1>7, <1>8 DEF CopyStep

-----------------------------------------------------------------------------
(* What the client does without a packet from the server. *)

\* A step that leaves the copies and the datagrams alone.
LEMMA SameCopies ==
  ASSUME StreamInv, UNCHANGED <<members, srvLog, log, upUdp, downUdp>>
  PROVE  DatagramsNow' /\ CopyStep
BY DEF StreamInv, DatagramsNow, CopyStep

LEMMA EmulateStreams ==
  ASSUME StreamInv, TypeOK', NEW c \in User, Emulate(c)
  PROVE  StreamStep
<1> USE DEF serverVars, inputVars, controlVars
<1>1. /\ TypeOK /\ DatagramsNow
      /\ Streams(members, srvLog, up, down, auth, log)
  BY DEF StreamInv, StreamsNow
<1>2. CASE UNCHANGED <<members, srvLog, log, up, down, auth, upUdp, downUdp>>
  BY <1>1, <1>2, SameCopies DEF StreamStep, StreamsNow
<1>3. ASSUME NEW u \in User, SendInput(c, u) PROVE StreamStep
  <2>1. PICK v \in Input : SendInputs(c, u, <<>>, <<v>>)
    BY <1>3 DEF SendInput
  <2>2. /\ c \in members /\ auth[c][u] = c
        /\ UNCHANGED <<members, srvLog, down, downUdp, auth>>
    BY <1>3 DEF SendInput
  <2>3. <<v>> \in Seq(Input) /\ <<>> \in Seq(Packet)
    BY EmptySeq
  <2>4. up = [up EXCEPT ![c] = @ \o <<>>]
    <3>1. up \in [User -> Seq(Packet)]
      BY <1>1 DEF TypeOK
    <3>2. up[c] \o <<>> = up[c]
      BY <3>1, ConcatEmptySeq
    <3> QED
      BY <3>1, <3>2
  <2>5. /\ Streams(members, srvLog, up', down, auth, log')
        /\ DatagramsNow' /\ CopyStep
    BY <1>1, <2>1, <2>2, <2>3, <2>4, SendStreams
  <2> QED
    BY <2>2, <2>5 DEF StreamStep, StreamsNow
<1>4. CASE ChangeNext(c)
  <2>1. PICK call \in todo[c] : ChangeAuthority(c, call[1], call[2])
    BY <1>4 DEF ChangeNext
  <2>2. c \in members /\ UNCHANGED <<members, srvLog, log, down, upUdp, downUdp>>
    BY <1>4 DEF ChangeNext
  <2>3. call[1] \in User /\ call[2] \in User
    <3>1. call \in User \X User
      BY <1>1 DEF TypeOK
    <3> QED
      BY <3>1
  <2>4. Streams(members, srvLog, up', down, auth', log)
    BY <1>1, <2>1, <2>2, <2>3, ChangeStreams
  <2> QED
    BY <2>2, <2>4, SameCopies DEF StreamStep, StreamsNow
<1> QED
  BY <1>2, <1>3, <1>4
     DEF Emulate, ProcessInput, GolfSwing, FinishInput, TakeInput

LEMMA CommandStreams ==
  ASSUME StreamInv, TypeOK', NEW c \in User, Command(c)
  PROVE  StreamStep
<1> USE DEF serverVars, inputVars, controlVars
<1>1. TypeOK /\ Streams(members, srvLog, up, down, auth, log)
  BY DEF StreamInv, StreamsNow
<1>2. CASE GolfCommand(c)
  BY <1>1, <1>2, SameCopies DEF GolfCommand, StreamStep, StreamsNow
<1>3. ASSUME NEW u \in User, NEW a \in User, AuthCommand(c, u, a) PROVE StreamStep
  <2>1. /\ c \in members /\ ChangeAuthority(c, u, a)
        /\ UNCHANGED <<members, srvLog, log, down, upUdp, downUdp>>
    BY <1>3 DEF AuthCommand, ServiceIdle
  <2>2. Streams(members, srvLog, up', down, auth', log)
    BY <1>1, <2>1, ChangeStreams
  <2> QED
    BY <2>1, <2>2, SameCopies DEF StreamStep, StreamsNow
<1> QED
  BY <1>2, <1>3 DEF Command

-----------------------------------------------------------------------------
(* What the client does with a packet from the server. *)

\* add_input_history takes what the packet has and the client has not.
LEMMA AcceptStreams ==
  ASSUME StreamInv, TypeOK', NEW c \in members, NEW m \in InputPacket,
         Segment(m, srvLog[m.user]), AcceptInputs(c, m),
         UNCHANGED <<members, srvLog, upUdp, downUdp>>
  PROVE  /\ Streams(members, srvLog, up, down, auth, log')
         /\ m.first <= Len(log[c][m.user]) => End(m) <= Len(log'[c][m.user])
         /\ DatagramsNow' /\ CopyStep
<1> DEFINE t == log[c][m.user] \o Fresh(m, log[c][m.user])
<1>1. /\ TypeOK /\ DatagramsNow
      /\ Streams(members, srvLog, up, down, auth, log)
  BY DEF StreamInv, StreamsNow
<1>2. /\ m.user \in User /\ c \in User /\ log[c][m.user] \in Seq(Input)
      /\ srvLog[m.user] \in Seq(Input)
  BY <1>1 DEF InputPacket, TypeOK
<1>3. LearnMove(c, m, log, log') /\ log' = [log EXCEPT ![c][m.user] = t]
  BY DEF AcceptInputs, LearnMove
<1>4. /\ Streams(members, srvLog, up, down, auth, log')
      /\ \A d \in members, u \in User : Below(log[d][u], log'[d][u])
      /\ m.first <= Len(log[c][m.user]) => End(m) <= Len(log'[c][m.user])
  BY <1>1, <1>3, Learn
<1>5. Below(log[c][m.user], srvLog[m.user]) \/ Below(srvLog[m.user], log[c][m.user])
  BY <1>1, <1>2 DEF Streams, Data
<1>6. /\ t \in Seq(Input) /\ Below(log[c][m.user], t)
      /\ t = log[c][m.user] \/ Below(t, srvLog[m.user])
  BY <1>2, <1>5, FreshBelow
<1> HIDE DEF t
<1>7. ClientCopy(c, m.user, t)
  BY <1>3, <1>6 DEF ClientCopy
<1>8. DatagramsNow'
  <2>1. \A w \in User : Below(srvLog[w], srvLog'[w])
    BY <1>1, BelowSelf DEF TypeOK
  <2> QED
    BY <1>1, <1>4, <2>1, DatagramsKept
<1> QED
  BY <1>2, <1>4, <1>6, <1>7, <1>8 DEF CopyStep

\* In golf mode it may give the authority away then.
LEMMA AcceptChange ==
  ASSUME TypeOK, NEW M, NEW S, NEW D, NEW L, Streams(M, S, up, D, auth, L),
         NEW c \in M, c \in User, NEW m \in InputPacket, AcceptInputs(c, m)
  PROVE  Streams(M, S, up', D, auth', L)
<1>1. ChangeAuthority(c, c, m.user) \/ (auth' = auth /\ up' = up)
  BY DEF AcceptInputs
<1>2. m.user \in User
  BY DEF InputPacket
<1>3. CASE ChangeAuthority(c, c, m.user)
  BY <1>2, <1>3, ChangeStreams
<1>4. CASE auth' = auth /\ up' = up
  BY <1>4
<1> QED
  BY <1>1, <1>3, <1>4

LEMMA ReceiveInputStreams ==
  ASSUME StreamInv, TypeOK', NEW c \in User, ReceiveInput(c)
  PROVE  StreamStep
<1> USE DEF serverVars, inputVars, controlVars
<1> DEFINE m == Head(down[c])
<1>1. TypeOK /\ Streams(members, srvLog, up, down, auth, log)
  BY DEF StreamInv, StreamsNow
<1>2. /\ c \in members /\ down[c] # <<>> /\ m.type = "INPUT_DATA"
      /\ down' = [down EXCEPT ![c] = Tail(@)] /\ AcceptInputs(c, m)
      /\ UNCHANGED <<members, srvLog, upUdp, downUdp>>
  BY DEF ReceiveInput, Receives, ServiceIdle, Consume
<1>3. down[c] \in Seq(Packet) /\ \A u \in User : Len(srvLog[u]) \in Nat /\ Len(log[c][u]) \in Nat
  BY <1>1, Typed DEF Streams
<1>4. m \in Packet /\ m = down[c][1] /\ 1 \in 1..Len(down[c])
  BY <1>2, <1>3, Tailed
<1>5. m \in InputPacket /\ m.user \in User
  BY <1>2, <1>4, InputEnd
<1>6. Segment(m, srvLog[m.user])
  BY <1>1, <1>2, <1>4 DEF Streams, Data
<1>7. m.first <= Len(log[c][m.user])
  <2>1. Conveys(down[c], m.user, Len(log[c][m.user]), Len(srvLog[m.user]))
    BY <1>1, <1>2, <1>5 DEF Streams, Delivery
  <2>2. IsInput(m, m.user)
    BY <1>2 DEF IsInput
  <2> QED
    BY <1>2, <1>3, <1>5, <2>1, <2>2, ConveysTail
<1> HIDE DEF m
<1>8. /\ Streams(members, srvLog, up, down, auth, log')
      /\ End(m) <= Len(log'[c][m.user])
      /\ DatagramsNow' /\ CopyStep
  BY <1>2, <1>5, <1>6, <1>7, AcceptStreams
<1>9. Streams(members, srvLog, up, down', auth, log')
  <2>1. TakeMove(c, down, auth, down', auth)
    BY <1>2 DEF TakeMove, m
  <2>2. \A u \in User : IsInput(m, u) => End(m) <= Len(log'[c][u])
    BY <1>8 DEF IsInput
  <2> QED
    BY <1>2, <1>8, <2>1, <2>2, Take DEF m
<1>10. Streams(members, srvLog, up', down', auth', log')
  BY <1>1, <1>2, <1>5, <1>9, AcceptChange
<1> QED
  BY <1>2, <1>8, <1>10 DEF StreamStep, StreamsNow

LEMMA ReceiveUdpStreams ==
  ASSUME StreamInv, TypeOK', NEW c \in User,
         ReceiveDatagram(c) \/ ReceiveOrphanDatagram(c)
  PROVE  StreamStep
<1> USE DEF serverVars, inputVars, controlVars
<1>1. TypeOK /\ DatagramsNow /\ Streams(members, srvLog, up, down, auth, log)
  BY DEF StreamInv, StreamsNow
<1>2. CASE ReceiveOrphanDatagram(c)
  BY <1>1, <1>2, SameCopies DEF ReceiveOrphanDatagram, StreamStep, StreamsNow
<1>3. CASE ReceiveDatagram(c)
  <2>1. /\ c \in members
        /\ UNCHANGED <<members, srvLog, down, upUdp, downUdp>>
    BY <1>3 DEF ReceiveDatagram, ServiceIdle
  <2>2. PICK m \in downUdp[c] : AcceptInputs(c, m)
    BY <1>3 DEF ReceiveDatagram
  <2>3. m \in InputPacket
    BY <1>1 DEF TypeOK
  <2>4. Segment(m, srvLog[m.user])
    BY <1>1, <2>1 DEF DatagramsNow, Datagram
  <2>5. /\ Streams(members, srvLog, up, down, auth, log')
        /\ DatagramsNow' /\ CopyStep
    BY <2>1, <2>2, <2>3, <2>4, AcceptStreams
  <2>6. Streams(members, srvLog, up', down, auth', log')
    BY <1>1, <2>1, <2>2, <2>3, <2>5, AcceptChange
  <2> QED
    BY <2>1, <2>5, <2>6 DEF StreamStep, StreamsNow
<1> QED
  BY <1>2, <1>3

LEMMA ReceiveDelegateStreams ==
  ASSUME StreamInv, TypeOK', NEW c \in User, ReceiveDelegate(c)
  PROVE  StreamStep
<1> USE DEF serverVars, inputVars, controlVars
<1> DEFINE m == Head(down[c])
<1>1. /\ TypeOK /\ DatagramsNow /\ QuitOrder
      /\ Streams(members, srvLog, up, down, auth, log)
  BY DEF StreamInv, StreamsNow
<1>2. /\ c \in members /\ down[c] # <<>> /\ m.type = "DELEGATE_AUTHORITY"
      /\ down' = [down EXCEPT ![c] = Tail(@)]
      /\ UNCHANGED <<members, srvLog, downUdp>>
  BY DEF ReceiveDelegate, Receives, ServiceIdle, Consume
<1>3. down[c] \in Seq(Packet) /\ up \in [User -> Seq(Packet)]
      /\ auth \in [User -> [User -> User]]
  BY <1>1 DEF TypeOK
<1>4. m \in Packet
  BY <1>2, <1>3, QueueParts
<1>5. m.user \in User /\ m.authority \in User
  BY <1>2, <1>4, PacketParts
<1>6. {m.user, m.authority} \subseteq present[c]
  BY <1>1, <1>2, <1>3, SoundTail DEF QuitOrder, Names
<1>7. /\ auth' = [auth EXCEPT ![c][m.user] = m.authority]
      /\ \/ m.authority # c /\ UNCHANGED <<up, upUdp, log>>
         \/ /\ m.authority = c
            /\ \E v \in Input : SendInputs(c, m.user, <<>>, <<v, v>>)
  BY <1>6 DEF ReceiveDelegate
<1>8. Streams(members, srvLog, up, down', auth', log)
  <2>1. TakeMove(c, down, auth, down', auth')
    BY <1>2, <1>7 DEF TakeMove
  <2>2. \A u \in User : ~IsInput(m, u)
    BY <1>2 DEF IsInput
  <2> QED
    BY <1>1, <1>2, <2>1, <2>2, Take
<1>9. auth'[c][m.user] = m.authority
  BY <1>3, <1>5, <1>7
<1> HIDE DEF m
<1>10. CASE m.authority # c
  BY <1>2, <1>7, <1>8, <1>10, SameCopies DEF StreamStep, StreamsNow
<1>11. CASE m.authority = c
  <2>1. PICK v \in Input : SendInputs(c, m.user, <<>>, <<v, v>>)
    BY <1>7, <1>11
  <2>2. <<v, v>> \in Seq(Input) /\ <<>> \in Seq(Packet)
    BY EmptySeq
  <2>3. up = [up EXCEPT ![c] = @ \o <<>>]
    BY <1>3, ConcatEmptySeq
  <2>4. auth'[c][m.user] = c /\ TypeOK /\ DatagramsNow
    BY <1>1, <1>9, <1>11
  <2>5. c \in members /\ UNCHANGED <<members, srvLog, downUdp>>
    BY <1>2
  <2> DEFINE vs == <<v, v>>
             before == <<>>
  <2>6. /\ vs \in Seq(Input) /\ before \in Seq(Packet)
        /\ SendInputs(c, m.user, before, vs) /\ up = [up EXCEPT ![c] = @ \o before]
    BY <2>1, <2>2, <2>3
  <2> HIDE DEF vs, before
  <2>7. /\ Streams(members, srvLog, up', down', auth', log')
        /\ DatagramsNow' /\ CopyStep
    BY <1>5, <1>8, <2>4, <2>5, <2>6, SendStreams
  <2> QED
    BY <1>2, <2>7 DEF StreamStep, StreamsNow
<1> QED
  BY <1>10, <1>11

LEMMA ReceiveRequestStreams ==
  ASSUME StreamInv, TypeOK', NEW c \in User, ReceiveRequest(c)
  PROVE  StreamStep
<1> USE DEF serverVars, inputVars, controlVars
<1> DEFINE m == Head(down[c])
<1>1. TypeOK /\ Streams(members, srvLog, up, down, auth, log)
  BY DEF StreamInv, StreamsNow
<1>2. /\ c \in members /\ down[c] # <<>> /\ m.type = "REQUEST_AUTHORITY"
      /\ down' = [down EXCEPT ![c] = Tail(@)]
      /\ ChangeAuthority(c, m.user, m.authority) \/ (auth' = auth /\ up' = up)
      /\ UNCHANGED <<members, srvLog, log, upUdp, downUdp>>
  BY DEF ReceiveRequest, Receives, ServiceIdle, Consume
<1>3. down[c] \in Seq(Packet)
  BY <1>1 DEF TypeOK
<1>4. m \in Packet
  BY <1>2, <1>3, QueueParts
<1>5. m.user \in User /\ m.authority \in User
  BY <1>2, <1>4, PacketParts
<1>6. Streams(members, srvLog, up, down', auth, log)
  <2>1. TakeMove(c, down, auth, down', auth)
    BY <1>2 DEF TakeMove
  <2>2. \A u \in User : ~IsInput(m, u)
    BY <1>2 DEF IsInput
  <2> QED
    BY <1>1, <1>2, <2>1, <2>2, Take
<1> HIDE DEF m
<1>7. CASE ChangeAuthority(c, m.user, m.authority)
  <2>1. Streams(members, srvLog, up', down', auth', log)
    BY <1>1, <1>2, <1>5, <1>6, <1>7, ChangeStreams
  <2> QED
    BY <1>2, <2>1, SameCopies DEF StreamStep, StreamsNow
<1>8. CASE auth' = auth /\ up' = up
  BY <1>2, <1>6, <1>8, SameCopies DEF StreamStep, StreamsNow
<1> QED
  BY <1>2, <1>7, <1>8

LEMMA ReceiveQuitStreams ==
  ASSUME StreamInv, TypeOK', NEW c \in User, ReceiveQuit(c)
  PROVE  StreamStep
<1> USE DEF serverVars, inputVars, controlVars
<1> DEFINE m == Head(down[c])
<1>1. /\ TypeOK /\ DatagramsNow
      /\ Streams(members, srvLog, up, down, auth, log)
  BY DEF StreamInv, StreamsNow
<1>2. /\ c \in members /\ down[c] # <<>> /\ m.type = "QUIT"
      /\ down' = [down EXCEPT ![c] = Tail(@)]
      /\ UNCHANGED <<members, srvLog, downUdp>>
      /\ \/ /\ auth[c][c] = m.user /\ auth' = [auth EXCEPT ![c][c] = c]
            /\ \E v \in Input : SendInputs(c, c, <<Delegate(c, c)>>, <<v>>)
         \/ auth[c][c] # m.user /\ UNCHANGED <<auth, up, upUdp, log>>
  BY DEF ReceiveQuit, Receives, ServiceIdle, Consume
<1>3. up \in [User -> Seq(Packet)] /\ auth \in [User -> [User -> User]]
  BY <1>1 DEF TypeOK
<1>4. CASE auth[c][c] # m.user
  <2>1. TakeMove(c, down, auth, down', auth)
    BY <1>2 DEF TakeMove
  <2>2. \A u \in User : ~IsInput(m, u)
    BY <1>2 DEF IsInput
  <2>3. Streams(members, srvLog, up, down', auth, log)
    BY <1>1, <1>2, <2>1, <2>2, Take
  <2>4. UNCHANGED <<members, srvLog, up, auth, log, upUdp, downUdp>>
    BY <1>2, <1>4
  <2> QED
    BY <2>3, <2>4, SameCopies DEF StreamStep, StreamsNow
<1>5. CASE auth[c][c] = m.user
  <2>1. PICK v \in Input : SendInputs(c, c, <<Delegate(c, c)>>, <<v>>)
    BY <1>2, <1>5
  <2> DEFINE vs == <<v>>
             before == <<Delegate(c, c)>>
             U == [up EXCEPT ![c] = @ \o before]
  <2>2. Delegate(c, c) \in Packet
    BY DEF Delegate, Packet, AuthorityPacket
  <2>3. /\ vs \in Seq(Input) /\ before \in Seq(Packet)
        /\ SendInputs(c, c, before, vs) /\ U = [up EXCEPT ![c] = @ \o before]
    BY <2>1, <2>2
  <2>4. U = [up EXCEPT ![c] = Append(@, Delegate(c, c))]
    <3>1. up[c] \o <<Delegate(c, c)>> = Append(up[c], Delegate(c, c))
      BY <1>3, <2>2, AppendIsConcat
    <3> QED
      BY <3>1
  <2> HIDE DEF vs, before, U
  <2>5. TakeBackMove(c, up, down, auth, U, down', auth')
    BY <1>2, <1>5, <2>4 DEF TakeBackMove
  <2>6. Streams(members, srvLog, U, down', auth', log)
    BY <1>1, <1>2, <2>5, TakeBack
  <2>7. auth'[c][c] = c
    BY <1>2, <1>3, <1>5
  <2>8. c \in members /\ UNCHANGED <<members, srvLog, downUdp>>
    BY <1>2
  <2>9. /\ Streams(members, srvLog, up', down', auth', log')
        /\ DatagramsNow' /\ CopyStep
    BY <1>1, <2>3, <2>6, <2>7, <2>8, SendStreams
  <2> QED
    BY <1>2, <2>9 DEF StreamStep, StreamsNow
<1> QED
  BY <1>4, <1>5

-----------------------------------------------------------------------------
(* What the server does. *)

\* Inputs of a user who has left are dropped.
LEMMA RelayNothing ==
  ASSUME TypeOK, NEW c \in User, NEW m \in InputPacket, m.user \notin members,
         RelayInputs(c, m)
  PROVE  UNCHANGED <<srvLog, down, downUdp>>
<1> DEFINE none == <<>>
<1>1. /\ srvLog \in [User -> Seq(Input)] /\ down \in [User -> Seq(Packet)]
      /\ downUdp \in [User -> SUBSET InputPacket] /\ m.user \in User
  BY DEF TypeOK, InputPacket
<1>2. none \in Seq(Input) /\ Len(none) = 0
  BY EmptySeq
<1>3. \A s \in Seq(Input) : s \o none = s
  BY ConcatEmptySeq
<1>4. \A s \in Seq(Packet) : s \o Packets(m.user, srvLog[m.user], none) = s
  <2>1. Packets(m.user, srvLog[m.user], none) = <<>>
    <3>1. /\ Packets(m.user, srvLog[m.user], none) \in Seq(Packet)
          /\ Len(Packets(m.user, srvLog[m.user], none)) = 0
      <4>1. m.user \in User /\ srvLog[m.user] \in Seq(Input) /\ none \in Seq(Input)
        BY <1>1, <1>2
      <4> HIDE DEF none
      <4> QED
        BY <1>2, <4>1, PacketsType
    <3> QED
      BY <3>1, EmptySeq
  <2> QED
    BY <2>1, ConcatEmptySeq
<1>5. Datagrams(m.user, srvLog[m.user], none) = {}
  BY <1>2 DEF Datagrams
<1> HIDE DEF none
<1>6. /\ srvLog' = [srvLog EXCEPT ![m.user] = @ \o none]
      /\ SendAll(members \ {c}, Packets(m.user, srvLog[m.user], none))
      /\ downUdp' = [d \in User |->
                       IF d \in (members \cap UdpUser) \ {c}
                       THEN downUdp[d] \cup Datagrams(m.user, srvLog[m.user], none)
                       ELSE downUdp[d]]
  BY DEF RelayInputs, none
<1>7. srvLog' = srvLog
  BY <1>1, <1>3, <1>6
<1>8. down' = down
  BY <1>1, <1>4, <1>6 DEF SendAll
<1>9. downUdp' = downUdp
  BY <1>1, <1>5, <1>6
<1> QED
  BY <1>7, <1>8, <1>9

\* Inputs of a member are added to the server's copy and sent to the others.
LEMMA RelayStreams ==
  ASSUME StreamInv, TypeOK', NEW c \in members, NEW m \in InputPacket,
         Segment(m, log[c][m.user]), RelayInputs(c, m),
         UNCHANGED <<members, log, upUdp>>
  PROVE  /\ Streams(members, srvLog', up, down', auth, log)
         /\ m.user \in members /\ m.first <= Len(srvLog[m.user])
               => End(m) <= Len(srvLog'[m.user])
         /\ DatagramsNow' /\ CopyStep
<1> DEFINE u == m.user
           fresh == Fresh(m, srvLog[u])
           t == srvLog[u] \o fresh
<1>1. /\ TypeOK /\ DatagramsNow
      /\ Streams(members, srvLog, up, down, auth, log)
  BY DEF StreamInv, StreamsNow
<1>2. /\ u \in User /\ c \in User /\ log[c][u] \in Seq(Input)
      /\ srvLog[u] \in Seq(Input)
  BY <1>1 DEF InputPacket, TypeOK
<1>3. CASE u \notin members
  <2>1. UNCHANGED <<srvLog, down, downUdp>>
    BY <1>1, <1>2, <1>3, RelayNothing
  <2> QED
    BY <1>1, <1>3, <2>1, SameCopies
<1>4. CASE u \in members
  <2>1. RelayMove(members, c, m, srvLog, down, srvLog', down')
    BY <1>4 DEF RelayInputs, RelayMove, SendAll
  <2>2. /\ Streams(members, srvLog', up, down', auth, log)
        /\ \A w \in User : Below(srvLog[w], srvLog'[w])
        /\ m.first <= Len(srvLog[u]) => End(m) <= Len(srvLog'[u])
    BY <1>1, <1>4, <2>1, Relay
  <2>3. Below(srvLog[u], log[c][u]) \/ Below(log[c][u], srvLog[u])
    BY <1>1, <1>2 DEF Streams, Data
  <2>4. /\ fresh \in Seq(Input) /\ t \in Seq(Input) /\ Below(srvLog[u], t)
        /\ t = srvLog[u] \/ Below(t, log[c][u])
    BY <1>2, <2>3, FreshBelow
  <2>5. srvLog' = [srvLog EXCEPT ![u] = t]
    BY <1>4 DEF RelayInputs
  <2>6. srvLog'[u] = t
    BY <1>1, <1>2, <2>5 DEF TypeOK
  <2>7. ASSUME NEW d \in members, NEW n \in downUdp'[d]
        PROVE  n \in downUdp[d] \/ Segment(n, srvLog'[n.user])
    <3>1. n \in downUdp[d] \/ n \in Datagrams(u, srvLog[u], fresh)
      BY <1>1, <1>4 DEF RelayInputs, TypeOK
    <3>2. ASSUME n \in Datagrams(u, srvLog[u], fresh) PROVE Segment(n, srvLog'[n.user])
      <4>1. n.user = u /\ Segment(n, srvLog[u] \o fresh)
        BY <1>2, <2>4, <3>2, DatagramsSegment
      <4> QED
        BY <2>6, <4>1
    <3> QED
      BY <3>1, <3>2
  <2>8. DatagramsNow'
    <3>1. \A d \in members, w \in User : Below(log[d][w], log'[d][w])
      BY <1>1, BelowSelf DEF TypeOK
    <3> QED
      BY <1>1, <2>2, <2>7, <3>1, DatagramsKept
  <2>9. ServerCopy(c, u, t)
    <3> HIDE DEF t
    <3> QED
      BY <2>4, <2>5 DEF ServerCopy
  <2> QED
    BY <1>2, <2>2, <2>4, <2>8, <2>9 DEF CopyStep
<1> QED
  BY <1>3, <1>4

LEMMA ServerInputStreams ==
  ASSUME StreamInv, TypeOK', NEW c \in User, ServerInput(c)
  PROVE  StreamStep
<1> USE DEF serverVars, inputVars, controlVars
<1> DEFINE m == Head(up[c])
<1>1. TypeOK /\ Streams(members, srvLog, up, down, auth, log)
  BY DEF StreamInv, StreamsNow
<1>2. /\ c \in members /\ up[c] # <<>> /\ m.type = "INPUT_DATA"
      /\ up' = [up EXCEPT ![c] = Tail(@)] /\ RelayInputs(c, m)
      /\ UNCHANGED <<members, log, upUdp, auth>>
  BY DEF ServerInput, Handles
<1>3. up[c] \in Seq(Packet) /\ \A u \in User : Len(srvLog[u]) \in Nat /\ Len(log[c][u]) \in Nat
  BY <1>1, Typed DEF Streams
<1>4. m \in Packet /\ m = up[c][1] /\ 1 \in 1..Len(up[c])
  BY <1>2, <1>3, Tailed
<1>5. m \in InputPacket /\ m.user \in User
  BY <1>2, <1>4, InputEnd
<1>6. Segment(m, log[c][m.user])
  BY <1>1, <1>2, <1>4 DEF Streams, Data
<1>7. m.user \in members => m.first <= Len(srvLog[m.user])
  <2>1. m.user \in members =>
           Conveys(up[c], m.user, Len(srvLog[m.user]), Len(log[c][m.user]))
    BY <1>1, <1>2 DEF Streams, Delivery
  <2>2. IsInput(m, m.user)
    BY <1>2 DEF IsInput
  <2> QED
    BY <1>2, <1>3, <1>5, <2>1, <2>2, ConveysTail
<1> HIDE DEF m
<1>8. /\ Streams(members, srvLog', up, down', auth, log)
      /\ m.user \in members => End(m) <= Len(srvLog'[m.user])
      /\ DatagramsNow' /\ CopyStep
  BY <1>2, <1>5, <1>6, <1>7, RelayStreams
<1>9. Streams(members, srvLog', up', down', auth, log)
  <2>1. DropMove(c, up, up')
    BY <1>2 DEF DropMove
  <2>2. \A u \in members : IsInput(m, u) => End(m) <= Len(srvLog'[u])
    BY <1>8 DEF IsInput
  <2> QED
    BY <1>2, <1>8, <2>1, <2>2, Drop DEF m
<1> QED
  BY <1>2, <1>8, <1>9 DEF StreamStep, StreamsNow

LEMMA ServerDatagramStreams ==
  ASSUME StreamInv, TypeOK', NEW c \in User, ServerDatagram(c)
  PROVE  StreamStep
<1> USE DEF serverVars, inputVars, controlVars
<1>1. TypeOK /\ DatagramsNow
  BY DEF StreamInv
<1>2. c \in members /\ UNCHANGED <<members, up, auth, log, upUdp>>
  BY DEF ServerDatagram
<1>3. PICK m \in upUdp[c] : RelayInputs(c, m)
  BY DEF ServerDatagram
<1>4. m \in InputPacket /\ Segment(m, log[c][m.user])
  BY <1>1, <1>2 DEF TypeOK, DatagramsNow, Datagram
<1>5. /\ Streams(members, srvLog', up, down', auth, log)
      /\ DatagramsNow' /\ CopyStep
  BY <1>2, <1>3, <1>4, RelayStreams
<1> QED
  BY <1>2, <1>5 DEF StreamStep, StreamsNow

\* One packet to each of several members.
LEMMA SendOne ==
  ASSUME TypeOK, NEW to, NEW m \in Packet, SendAll(to, <<m>>)
  PROVE  down' = [d \in User |-> IF d \in to THEN Append(down[d], m) ELSE down[d]]
<1>1. \A d \in User : down[d] \o <<m>> = Append(down[d], m)
  BY AppendIsConcat DEF TypeOK
<1> QED
  BY <1>1 DEF SendAll

LEMMA ServerAuthorityStreams ==
  ASSUME StreamInv, TypeOK', NEW c \in User, ServerDelegate(c) \/ ServerRequest(c)
  PROVE  StreamStep
<1> USE DEF serverVars, inputVars, controlVars
<1> DEFINE m == Head(up[c])
<1>1. TypeOK /\ Streams(members, srvLog, up, down, auth, log)
  BY DEF StreamInv, StreamsNow
<1>2. /\ c \in members /\ up[c] # <<>>
      /\ m.type \in {"DELEGATE_AUTHORITY", "REQUEST_AUTHORITY"}
      /\ up' = [up EXCEPT ![c] = Tail(@)]
      /\ \/ m.user \in members /\ m.authority \in members /\ SendAll(members \ {c}, <<m>>)
         \/ down' = down
      /\ UNCHANGED <<members, srvLog, log, auth, upUdp, downUdp>>
  BY DEF ServerDelegate, ServerRequest, Handles
<1>3. up[c] \in Seq(Packet)
  BY <1>1 DEF TypeOK
<1>4. m \in Packet /\ \A u \in members : ~IsInput(m, u)
  BY <1>2, <1>3, QueueParts DEF IsInput
<1>5. DropMove(c, up, up')
  BY <1>2 DEF DropMove
<1>6. Streams(members, srvLog, up', down, auth, log)
  BY <1>1, <1>2, <1>4, <1>5, Drop
<1>7. CASE down' = down
  BY <1>2, <1>6, <1>7, SameCopies DEF StreamStep, StreamsNow
<1>8. CASE /\ m.user \in members /\ m.authority \in members
           /\ SendAll(members \ {c}, <<m>>)
  <2>1. down' = [d \in User |-> IF d \in members \ {c} THEN Append(down[d], m) ELSE down[d]]
    BY <1>1, <1>4, <1>8, SendOne
  <2>2. CASE m.type = "DELEGATE_AUTHORITY"
    <3>1. PassMove(members, c, up, down, up', down')
      BY <1>2, <2>1 DEF PassMove
    <3>2. Streams(members, srvLog, up', down', auth, log)
      BY <1>1, <1>2, <1>8, <2>2, <3>1, Pass
    <3> QED
      BY <1>2, <3>2, SameCopies DEF StreamStep, StreamsNow
  <2>3. CASE m.type = "REQUEST_AUTHORITY"
    <3>1. TellMove(members \ {c}, m, down, down')
      BY <2>1 DEF TellMove
    <3>2. Streams(members, srvLog, up', down', auth, log)
      BY <1>4, <1>6, <2>3, <3>1, Tell
    <3> QED
      BY <1>2, <3>2, SameCopies DEF StreamStep, StreamsNow
  <2> QED
    BY <1>2, <2>2, <2>3
<1> QED
  BY <1>2, <1>7, <1>8

LEMMA ServerQuitStreams ==
  ASSUME StreamInv, TypeOK', NEW c \in User, ServerQuit(c)
  PROVE  StreamStep
<1> DEFINE D == [down EXCEPT ![c] = <<>>]
<1>1. /\ TypeOK /\ DatagramsNow
      /\ Streams(members, srvLog, up, down, auth, log)
  BY DEF StreamInv, StreamsNow
<1>2. /\ up \in [User -> Seq(Packet)] /\ down \in [User -> Seq(Packet)]
      /\ auth \in [User -> [User -> User]] /\ log \in [User -> [User -> Seq(Input)]]
      /\ upUdp \in [User -> SUBSET InputPacket] /\ downUdp \in [User -> SUBSET InputPacket]
      /\ srvLog \in [User -> Seq(Input)] /\ members \in SUBSET User
      /\ <<>> \in Seq(Packet)
  BY <1>1, EmptySeq DEF TypeOK
<1>3. /\ members' = members \ {c} /\ srvLog' = srvLog /\ c \in members
      /\ down' = [d \in User |->
                    IF d \in members' THEN Append(D[d], Quit(c)) ELSE D[d]]
  BY <1>2 DEF ServerQuit
<1>4. \A d \in members' :
         /\ up'[d] = up[d] /\ D[d] = down[d] /\ auth'[d] = auth[d] /\ log'[d] = log[d]
         /\ upUdp'[d] = upUdp[d] /\ downUdp'[d] = downUdp[d]
  BY <1>2 DEF ServerQuit
<1>5. /\ D \in [User -> Seq(Packet)] /\ members' \in SUBSET User /\ members' \subseteq members
  BY <1>2, <1>3
<1> HIDE DEF D
<1>6. LeaveMove(c, members, up, down, auth, log, members', up', D, auth', log')
  BY <1>3, <1>4 DEF LeaveMove
<1>7. Types(members', srvLog, up', D, auth', log')
  BY <1>2, <1>5 DEF Types, TypeOK
<1>8. Streams(members', srvLog, up', D, auth', log')
  BY <1>1, <1>6, <1>7, Leave
<1>9. Streams(members', srvLog, up', down', auth', log')
  <2>1. TellMove(members', Quit(c), D, down')
    BY <1>3 DEF TellMove
  <2>2. /\ Quit(c) \in Packet /\ Quit(c).type = "QUIT" /\ Quit(c).user = c
        /\ c \notin members'
    BY <1>3 DEF Quit, Packet, QuitPacket
  <2> QED
    BY <1>8, <2>1, <2>2, Tell
<1>10. DatagramsNow'
  <2>1. /\ \A u \in User : Below(srvLog[u], srvLog'[u])
        /\ \A d \in members', u \in User : Below(log[d][u], log'[d][u])
    BY <1>2, <1>3, <1>4, <1>5, BelowSelf
  <2> QED
    BY <1>1, <1>4, <1>5, <2>1, DatagramsKept
<1> QED
  BY <1>3, <1>9, <1>10 DEF StreamStep, StreamsNow, CopyStep

-----------------------------------------------------------------------------
(* The invariant holds always, and every step is one of CopyStep. *)

LEMMA StreamNext ==
  ASSUME StreamInv, [Next]_vars
  PROVE  StreamInv' /\ CopyStep
<1>1. TypeOK' /\ QuitOrder'
  BY NextType, QuitOrderStep DEF StreamInv
<1>2. CASE UNCHANGED vars
  <2>1. UNCHANGED <<members, srvLog, up, down, auth, log, upUdp, downUdp>>
    BY <1>2 DEF vars, serverVars, inputVars, controlVars
  <2>2. StreamsNow'
    BY <2>1 DEF StreamInv, StreamsNow
  <2> QED
    BY <1>1, <2>1, <2>2, SameCopies DEF StreamInv
<1>3. ASSUME NEW c \in User,
             Emulate(c) \/ Receive(c) \/ Serve(c) \/ ReceiveUdp(c) \/ Command(c)
               \/ ServerQuit(c)
      PROVE  StreamStep
  BY <1>1, <1>3, EmulateStreams, CommandStreams, ReceiveInputStreams,
     ReceiveDelegateStreams, ReceiveRequestStreams, ReceiveQuitStreams, ReceiveUdpStreams,
     ServerInputStreams, ServerDatagramStreams, ServerAuthorityStreams, ServerQuitStreams
     DEF Receive, Serve, ReceiveUdp
<1> QED
  BY <1>1, <1>2, <1>3 DEF Next, Finished, StreamStep, StreamInv

LEMMA StreamInit == Init => StreamInv
<1> SUFFICES ASSUME Init PROVE StreamInv
  OBVIOUS
<1>1. TypeOK
  BY InitType
<1>2. /\ members = User /\ \A u \in User : srvLog[u] = <<>>
      /\ \A d \in User : /\ up[d] = <<>> /\ down[d] = <<>> /\ upUdp[d] = {} /\ downUdp[d] = {}
                         /\ present[d] = User
      /\ \A d, u \in User : log[d][u] = <<>> /\ auth[d][u] = u
  BY DEF Init, NoInputs
<1>3. Len(<<>>) = 0
  BY EmptySeq
<1>4. QuitOrder
  BY <1>2, <1>3 DEF QuitOrder, Sound
<1>5. Types(members, srvLog, up, down, auth, log)
  BY <1>1 DEF TypeOK, Types
<1>6. NoFalseQuit(members, down) /\ Honest(members, up)
  BY <1>2, <1>3 DEF NoFalseQuit, Honest
<1>7. Data(members, srvLog, up, down, log)
  BY <1>2, <1>3 DEF Data, Below
<1>8. Delivery(members, srvLog, up, down, log)
  BY <1>2, <1>3 DEF Delivery, Conveys, Gapless, Reaches
<1>9. ASSUME NEW u \in User PROVE Settled(members, srvLog, up, down, auth, log, u)
  <2>1. \A c \in User : Up(members, up, u, c) = {} /\ Down(down, u, c) = {}
    BY <1>2, <1>3 DEF Up, Down, Delegates
  <2>2. Unique(members, up, down, auth, u)
    BY <1>2, <2>1 DEF Unique
  <2>3. Behind(members, srvLog, up, down, auth, log, u)
    BY <1>2, <1>3, <2>1 DEF Behind, Ahead
  <2>4. \A a : auth[u][u] = a => WillSee(down, auth, u, a)
    BY <1>2, <1>3 DEF WillSee, Sees
  <2>5. Owner(members, srvLog, up, down, auth, log, u)
    BY <1>2, <1>3, <2>1, <2>4 DEF Owner, Ahead, Final
  <2> QED
    BY <2>2, <2>3, <2>5 DEF Settled
<1>10. StreamsNow
  BY <1>5, <1>6, <1>7, <1>8, <1>9 DEF StreamsNow, Streams, Authority
<1>11. DatagramsNow
  BY <1>2 DEF DatagramsNow, Datagram
<1> QED
  BY <1>1, <1>4, <1>10, <1>11 DEF StreamInv

LEMMA StreamInvAlways == Spec => []StreamInv
<1>1. StreamInv /\ [Next]_vars => StreamInv'
  BY StreamNext
<1> QED
  BY <1>1, StreamInit, PTL DEF Spec

-----------------------------------------------------------------------------
(* No desynchronisation. *)

LEMMA BelowPrefix ==
  ASSUME NEW s \in Seq(Input), NEW t \in Seq(Input), Below(s, t)
  PROVE  Prefix(s, t)
<1> DEFINE r == SubSeq(t, 1, Len(s))
<1>1. Len(s) \in Nat /\ Len(t) \in Nat /\ Len(s) <= Len(t)
  BY LenProperties DEF Below
<1>2. r \in Seq(Input) /\ Len(r) = Len(s) /\ \A i \in 1..Len(s) : r[i] = t[i]
  BY <1>1, SubSeqProperties
<1> HIDE DEF r
<1>3. r = s
  BY <1>1, <1>2, SeqEqual DEF Below
<1> QED
  BY <1>1, <1>3 DEF Prefix, r

\* Two copies of which at most one is longer than the server's.
LEMMA CopiesAgree ==
  ASSUME NEW s \in Seq(Input), NEW x \in Seq(Input), NEW y \in Seq(Input),
         Below(x, s) \/ Below(s, x), Below(y, s) \/ Below(s, y),
         Len(x) <= Len(s) \/ Len(y) <= Len(s)
  PROVE  Below(x, y) \/ Below(y, x)
<1>1. Len(s) \in Nat /\ Len(x) \in Nat /\ Len(y) \in Nat
  BY LenProperties
<1>2. /\ Len(x) <= Len(s) => Below(x, s)
      /\ Len(y) <= Len(s) => Below(y, s)
  BY <1>1 DEF Below
<1>3. CASE Below(x, s) /\ Below(y, s)
  BY <1>1, <1>3 DEF Below
<1>4. CASE Below(x, s) /\ Below(s, y)
  BY <1>4, BelowTrans
<1>5. CASE Below(s, x) /\ Below(y, s)
  BY <1>5, BelowTrans
<1> QED
  BY <1>2, <1>3, <1>4, <1>5

(* The streams of inputs never disagree: what the server and any two of the *)
(* members' clients hold of a user's stream are the same up to where the    *)
(* shorter one ends, for any number of users and any lags, with golf mode,  *)
(* UDP, authority given away, asked for and taken back, and users leaving   *)
(* at any moment.  It rests on the authority being in one place only: two   *)
(* clients adding inputs to one stream at a time would make it two.         *)
THEOREM LogsAgreeAlways == Spec => []LogsAgree
<1>1. StreamInv => LogsAgree
  <2> SUFFICES ASSUME StreamInv, NEW u \in User
               PROVE  /\ \A c \in members : Agree(log[c][u], srvLog[u])
                      /\ \A c, d \in members : Agree(log[c][u], log[d][u])
    BY DEF LogsAgree
  <2>1. /\ TypeOK /\ Data(members, srvLog, up, down, log)
        /\ Behind(members, srvLog, up, down, auth, log, u)
    BY DEF StreamInv, StreamsNow, Streams, Authority, Settled
  <2>2. /\ srvLog[u] \in Seq(Input) /\ Len(srvLog[u]) \in Nat
        /\ \A c \in members : log[c][u] \in Seq(Input) /\ Len(log[c][u]) \in Nat
    BY <2>1, LenProperties DEF TypeOK
  <2>3. \A c \in members :
           Below(log[c][u], srvLog[u]) \/ Below(srvLog[u], log[c][u])
    BY <2>1 DEF Data
  <2>4. ASSUME NEW c \in members PROVE Agree(log[c][u], srvLog[u])
    BY <2>2, <2>3, BelowPrefix DEF Agree
  <2>5. ASSUME NEW c \in members, NEW d \in members
        PROVE  Agree(log[c][u], log[d][u])
    <3>1. c = d \/ Len(log[c][u]) <= Len(srvLog[u]) \/ Len(log[d][u]) <= Len(srvLog[u])
      BY <2>1, <2>2 DEF Behind, Ahead
    <3>2. Below(log[c][u], log[d][u]) \/ Below(log[d][u], log[c][u])
      BY <2>2, <2>3, <3>1, BelowSelf, CopiesAgree
    <3> QED
      BY <2>2, <3>2, BelowPrefix DEF Agree
  <2> QED
    BY <2>4, <2>5
<1> QED
  BY <1>1, StreamInvAlways, PTL

(* Nobody's input ever has two producers: counting the clients that believe *)
(* they have authority over a user's input and the DELEGATE_AUTHORITY       *)
(* packets that will make one believe it, there is at most one, whichever   *)
(* requests, golf swings, delegations and take-backs after a QUIT cross.    *)
THEOREM SingleProducerAlways == Spec => []SingleProducer
<1>1. StreamInv => SingleProducer
  <2> SUFFICES ASSUME StreamInv, NEW u \in members
               PROVE  Cardinality(Tokens(u)) <= 1
    BY DEF SingleProducer
  <2>1. u \in User /\ Unique(members, up, down, auth, u)
    BY DEF StreamInv, TypeOK, StreamsNow, Streams, Authority, Settled
  <2>2. ASSUME NEW x \in Tokens(u)
        PROVE  \/ \E c \in members : x = <<"hold", c, 0>> /\ auth[c][u] = c
               \/ \E c \in members : \E i \in Up(members, up, u, c) : x = <<"up", c, i>>
               \/ \E c \in members : \E i \in Down(down, u, c) : x = <<"down", c, i>>
    <3> DEFINE hold == {<<"hold", c, 0>> : c \in Holders(u)}
               ups == UNION {{<<"up", c, i>> : i \in Delegates(up[c], u, members \ {c})} :
                                c \in members}
               downs == UNION {{<<"down", c, i>> : i \in Delegates(down[c], u, {c})} :
                                c \in members}
    <3>1. Tokens(u) = hold \cup ups \cup downs
      BY DEF Tokens
    <3>2. x \in hold => \E c \in members : x = <<"hold", c, 0>> /\ auth[c][u] = c
      BY DEF Holders
    <3>3. x \in ups => \E c \in members : \E i \in Up(members, up, u, c) : x = <<"up", c, i>>
      BY DEF Up
    <3>4. x \in downs => \E c \in members : \E i \in Down(down, u, c) : x = <<"down", c, i>>
      BY DEF Down
    <3> HIDE DEF hold, ups, downs
    <3> QED
      BY <3>1, <3>2, <3>3, <3>4
  <2>3. ASSUME NEW x \in Tokens(u), NEW y \in Tokens(u) PROVE x = y
    BY <2>1, <2>2 DEF Unique
  <2>4. CASE Tokens(u) = {}
    BY <2>4, FS_EmptySet
  <2>5. CASE Tokens(u) # {}
    <3>1. PICK x \in Tokens(u) : TRUE
      BY <2>5
    <3>2. Tokens(u) = {x}
      BY <2>3, <3>1
    <3>3. Cardinality({x}) = 1
      BY FS_Singleton
    <3> QED
      BY <3>2, <3>3
  <2> QED
    BY <2>4, <2>5
<1> QED
  BY <1>1, StreamInvAlways, PTL

-----------------------------------------------------------------------------
(* Lockstep implements SharedLog. *)

Processes == User \cup {Server}
Copies == [p \in Processes |-> IF p = Server THEN srvLog ELSE log[p]]

\* A copy that grows at p only, to x.
Grows(p, u, x) ==
    /\ Copies' = [Copies EXCEPT ![p][u] = x]
    /\ members' = members

LEMMA ClientGrows ==
  ASSUME TypeOK, NEW c \in members, NEW u \in User, NEW x \in Seq(Input),
         log' = [log EXCEPT ![c][u] = x], srvLog' = srvLog, members' = members
  PROVE  Grows(c, u, x)
<1>1. c \in User /\ c # Server
  BY ServerAssumption DEF TypeOK
<1>2. log'[c] = [log[c] EXCEPT ![u] = x] /\ \A d \in User : d # c => log'[d] = log[d]
  BY <1>1 DEF TypeOK
<1>3. [Copies EXCEPT ![c][u] = x]
        = [p \in Processes |-> IF p = c THEN [Copies[c] EXCEPT ![u] = x] ELSE Copies[p]]
  BY <1>1 DEF Copies, Processes
<1>4. Copies[c] = log[c]
  BY <1>1 DEF Copies, Processes
<1>5. ASSUME NEW p \in Processes
      PROVE  Copies'[p] = IF p = c THEN [Copies[c] EXCEPT ![u] = x] ELSE Copies[p]
  BY <1>1, <1>2, <1>4 DEF Copies, Processes
<1>6. Copies' = [p \in Processes |-> Copies'[p]]
  BY DEF Copies
<1> QED
  BY <1>3, <1>5, <1>6 DEF Grows

LEMMA ServerGrows ==
  ASSUME TypeOK, NEW u \in User, NEW x \in Seq(Input),
         srvLog' = [srvLog EXCEPT ![u] = x], log' = log, members' = members
  PROVE  Grows(Server, u, x)
<1>1. \A d \in User : d # Server
  BY ServerAssumption
<1>2. [Copies EXCEPT ![Server][u] = x]
        = [p \in Processes |->
             IF p = Server THEN [Copies[Server] EXCEPT ![u] = x] ELSE Copies[p]]
  BY DEF Copies, Processes
<1>3. Copies[Server] = srvLog
  BY DEF Copies, Processes
<1>4. ASSUME NEW p \in Processes
      PROVE  Copies'[p] =
               IF p = Server THEN [Copies[Server] EXCEPT ![u] = x] ELSE Copies[p]
  BY <1>1, <1>3 DEF Copies, Processes
<1>5. Copies' = [p \in Processes |-> Copies'[p]]
  BY DEF Copies
<1> QED
  BY <1>2, <1>4, <1>5 DEF Grows

LEMMA BelowShared ==
  ASSUME NEW s \in Seq(Input), NEW t \in Seq(Input), Below(s, t)
  PROVE  Shared!Prefix(s, t)
BY BelowPrefix DEF Prefix, Shared!Prefix

LEMMA GrowsTo ==
  ASSUME TypeOK, NEW p \in Processes, NEW u \in User, NEW x, Grows(p, u, x)
  PROVE  Copies'[p][u] = x
<1>1. Copies[p] \in [User -> Seq(Input)]
  BY DEF Copies, Processes, TypeOK
<1>2. p \in DOMAIN Copies
  BY DEF Copies
<1> HIDE DEF Copies
<1> QED
  BY <1>1, <1>2 DEF Grows

\* p learns a part of what q has.
LEMMA GrowsLearn ==
  ASSUME TypeOK, NEW p \in members \cup {Server}, NEW q \in members \cup {Server},
         NEW u \in User, NEW x \in Seq(Input), Grows(p, u, x),
         Below(Copies[p][u], x), Below(x, Copies[q][u])
  PROVE  Shared!Learn(p, u)
<1>1. p \in Processes /\ q \in Processes
  BY DEF Processes, TypeOK
<1>2. Copies'[p][u] = x
  BY <1>1, GrowsTo
<1>3. Copies[p][u] \in Seq(Input) /\ Copies[q][u] \in Seq(Input)
  BY <1>1 DEF Copies, Processes, TypeOK
<1>4. Shared!Prefix(Copies[p][u], x) /\ Shared!Prefix(x, Copies[q][u])
  BY <1>3, BelowShared
<1>5. /\ \E r \in members \cup {Server} : Shared!Prefix(Copies'[p][u], Copies[r][u])
      /\ Copies'[p][u] \in Seq(Input) /\ Shared!Prefix(Copies[p][u], Copies'[p][u])
      /\ Copies' = [Copies EXCEPT ![p][u] = Copies'[p][u]]
      /\ (members \cup {Server})' = members \cup {Server}
  BY <1>2, <1>4 DEF Grows
<1> QED
  BY <1>5 DEF Shared!Learn, Shared!Extend, Copies, Processes

\* p has all there is of the stream of u and appends to it.
LEMMA GrowsProduce ==
  ASSUME TypeOK, NEW p \in members \cup {Server}, NEW u \in User, NEW x \in Seq(Input),
         Grows(p, u, x), Below(Copies[p][u], x),
         \A q \in members \cup {Server} : Below(Copies[q][u], Copies[p][u])
  PROVE  Shared!Produce(p, u)
<1>1. \A q \in members \cup {Server} : q \in Processes
  BY DEF Processes, TypeOK
<1>2. Copies'[p][u] = x
  BY <1>1, GrowsTo
<1>3. \A q \in members \cup {Server} : Copies[q][u] \in Seq(Input)
  BY <1>1 DEF Copies, Processes, TypeOK
<1>4. /\ Shared!Prefix(Copies[p][u], x)
      /\ \A q \in members \cup {Server} : Shared!Prefix(Copies[q][u], Copies[p][u])
  BY <1>3, BelowShared
<1>5. /\ \A q \in members \cup {Server} : Shared!Prefix(Copies[q][u], Copies[p][u])
      /\ Copies'[p][u] \in Seq(Input) /\ Shared!Prefix(Copies[p][u], Copies'[p][u])
      /\ Copies' = [Copies EXCEPT ![p][u] = Copies'[p][u]]
      /\ (members \cup {Server})' = members \cup {Server}
  BY <1>2, <1>4 DEF Grows
<1> QED
  BY <1>5 DEF Shared!Produce, Shared!Extend, Copies, Processes

\* The copy of the client that leaves is forgotten.
LEMMA QuitLeaves ==
  ASSUME TypeOK, TypeOK', NEW c \in members, ServerQuit(c)
  PROVE  Shared!Leave(c)
<1>1. c \in User /\ c # Server /\ \A d \in User : d # Server
  BY ServerAssumption DEF TypeOK
<1>2. /\ members' = members \ {c} /\ srvLog' = srvLog
      /\ \A d \in User : d # c => log'[d] = log[d]
  BY <1>1 DEF ServerQuit, TypeOK
<1>3. (members \cup {Server})' = (members \cup {Server}) \ {c}
  BY <1>1, <1>2
<1>4. \A q \in Processes : q # c => Copies'[q] = Copies[q]
  BY <1>1, <1>2 DEF Copies, Processes
<1>5. Copies'[c] \in [User -> Seq(Input)]
  BY <1>1 DEF Copies, Processes, TypeOK
<1>6. Copies' = [Copies EXCEPT ![c] = Copies'[c]]
  <2>1. /\ Copies' = [q \in Processes |-> Copies'[q]]
        /\ [Copies EXCEPT ![c] = Copies'[c]]
             = [q \in Processes |-> IF q = c THEN Copies'[c] ELSE Copies[q]]
    BY DEF Copies
  <2> QED
    BY <1>4, <2>1
<1>7. \A q \in (members \cup {Server}) \ {c} : Copies'[q] = Copies[q]
  BY <1>4 DEF Processes, TypeOK
<1> QED
  BY <1>3, <1>5, <1>6, <1>7 DEF Shared!Leave, Copies, Processes

LEMMA SharedStep ==
  ASSUME TypeOK, TypeOK', CopyStep
  PROVE  [Shared!Next]_Shared!vars
<1> DEFINE live == members \cup {Server}
<1>1. CASE UNCHANGED <<members, srvLog, log>>
  BY <1>1 DEF Shared!vars
<1>2. /\ Copies[Server] = srvLog
      /\ \A c \in members : /\ Copies[c] = log[c] /\ c \in live
                            /\ \A u \in User : log[c][u] \in Seq(Input)
      /\ \A u \in User : srvLog[u] \in Seq(Input)
      /\ Server \in live
  BY ServerAssumption DEF Copies, Processes, TypeOK
<1>3. \A p \in live, u \in User : Shared!Learn(p, u) \/ Shared!Produce(p, u) => Shared!Next
  BY DEF Shared!Next
<1>4. ASSUME NEW c \in members, NEW u \in User, NEW x \in Seq(Input), ClientCopy(c, u, x)
      PROVE  Shared!Next
  <2>1. Grows(c, u, x) /\ Below(Copies[c][u], x)
    BY <1>2, <1>4, ClientGrows DEF ClientCopy
  <2>2. CASE x = log[c][u]
    <3>1. Shared!Learn(c, u)
      BY <1>2, <2>1, <2>2, BelowSelf, GrowsLearn
    <3> QED
      BY <1>2, <1>3, <3>1
  <2>3. CASE Below(x, srvLog[u])
    <3>1. Shared!Learn(c, u)
      BY <1>2, <2>1, <2>3, GrowsLearn
    <3> QED
      BY <1>2, <1>3, <3>1
  <2>4. CASE HasAll(c, u)
    <3>1. \A q \in live : Below(Copies[q][u], Copies[c][u])
      BY <1>2, <2>4 DEF HasAll
    <3>2. Shared!Produce(c, u)
      BY <1>2, <2>1, <3>1, GrowsProduce
    <3> QED
      BY <1>2, <1>3, <3>2
  <2> QED
    BY <1>4, <2>2, <2>3, <2>4 DEF ClientCopy
<1>5. ASSUME NEW c \in members, NEW u \in User, NEW x \in Seq(Input), ServerCopy(c, u, x)
      PROVE  Shared!Next
  <2>1. Grows(Server, u, x) /\ Below(Copies[Server][u], x)
    BY <1>2, <1>5, ServerGrows DEF ServerCopy
  <2>2. CASE x = srvLog[u]
    <3>1. Shared!Learn(Server, u)
      BY <1>2, <2>1, <2>2, BelowSelf, GrowsLearn
    <3> QED
      BY <1>2, <1>3, <3>1
  <2>3. CASE Below(x, log[c][u])
    <3>1. Shared!Learn(Server, u)
      BY <1>2, <2>1, <2>3, GrowsLearn
    <3> QED
      BY <1>2, <1>3, <3>1
  <2> QED
    BY <1>5, <2>2, <2>3 DEF ServerCopy
<1>6. ASSUME NEW c \in members, ServerQuit(c) PROVE Shared!Next
  BY <1>6, QuitLeaves DEF Shared!Next
<1> QED
  BY <1>1, <1>4, <1>5, <1>6 DEF CopyStep

(* The server and the clients implement SharedLog, the shared append-only   *)
(* streams: an input is only ever added to a user's stream by a client that *)
(* has all of the stream that the server or any other member has, and what  *)
(* else changes is a part of the stream passed on, or a client leaving.     *)
THEOREM SharedSpecImplemented == Spec => SharedSpec
<1>1. Init => Shared!Init
  <2> SUFFICES ASSUME Init
               PROVE  /\ members \cup {Server} = User \cup {Server}
                      /\ [p \in User \cup {Server} |-> IF p = Server THEN srvLog ELSE log[p]]
                           = [p \in User \cup {Server} |-> [u \in User |-> <<>>]]
    BY DEF Shared!Init
  <2> QED
    BY DEF Init, NoInputs
<1>2. StreamInv /\ StreamInv' /\ [Next]_vars => [Shared!Next]_Shared!vars
  BY StreamNext, SharedStep DEF StreamInv
<1> QED
  BY <1>1, <1>2, StreamInvAlways, PTL DEF Spec, SharedSpec, Shared!Spec

-----------------------------------------------------------------------------
(* Without commands and golf mode everyone sends their own input. *)

\* No packet about authority.
Silent(s) ==
    \A i \in 1..Len(s) : s[i].type \notin {"DELEGATE_AUTHORITY", "REQUEST_AUTHORITY"}

OwnInputs ==
    \A c \in members : /\ todo[c] = {} /\ \A u \in User : auth[c][u] = u
                       /\ Silent(up[c]) /\ Silent(down[c])

\* Nobody sends inputs further ahead than the lag.
InLag == \A d \in members : \E lag \in Lags : Len(log[d][d]) <= frame[d] + lag + 1

LEMMA SilentTail ==
  ASSUME NEW s \in Seq(Packet), s # <<>>, Silent(s)
  PROVE  /\ Silent(Tail(s))
         /\ Head(s).type \notin {"DELEGATE_AUTHORITY", "REQUEST_AUTHORITY"}
BY Tailed DEF Silent

LEMMA SilentConcat ==
  ASSUME NEW s \in Seq(Packet), NEW r \in Seq(Packet), Silent(s), Silent(r)
  PROVE  Silent(s \o r)
<1>1. \A i \in 1..Len(s \o r) :
         (s \o r)[i].type \notin {"DELEGATE_AUTHORITY", "REQUEST_AUTHORITY"}
  BY Joined DEF Silent
<1> QED
  BY <1>1 DEF Silent

LEMMA SilentPackets ==
  ASSUME NEW u \in User, NEW s \in Seq(Input), NEW vs \in Seq(Input)
  PROVE  Packets(u, s, vs) \in Seq(Packet) /\ Silent(Packets(u, s, vs))
BY PacketsType DEF Silent

LEMMA OnInputFrame ==
  ASSUME TypeOK, NEW c \in User, NEW pres, NEW q, OnInput(c, pres, q)
  PROVE  \A d \in User : frame[d] <= frame'[d]
BY DEF OnInput, TypeOK

\* What is left of a step when the packets and the authority are as before.
LEMMA OwnKept ==
  ASSUME TypeOK, TypeOK', OwnInputs, InLag, UNCHANGED <<members, auth, todo>>,
         \A d \in members : Silent(up'[d]) /\ Silent(down'[d]),
         \A d \in members : log'[d][d] = log[d][d] /\ frame[d] <= frame'[d]
  PROVE  OwnInputs' /\ InLag'
<1>1. OwnInputs'
  BY DEF OwnInputs
<1>2. ASSUME NEW d \in members
      PROVE  \E lag \in Lags : Len(log'[d][d]) <= frame'[d] + lag + 1
  <2>1. PICK lag \in Lags : Len(log[d][d]) <= frame[d] + lag + 1
    BY DEF InLag
  <2>2. /\ Len(log[d][d]) \in Nat /\ frame[d] \in Nat /\ frame'[d] \in Nat /\ lag \in Nat
        /\ frame[d] <= frame'[d] /\ log'[d][d] = log[d][d]
    BY LagAssumption, LenProperties DEF TypeOK
  <2> QED
    BY <2>1, <2>2
<1> QED
  BY <1>1, <1>2 DEF InLag

\* The server has nothing of c's stream that c has not.
LEMMA AcceptOwn ==
  ASSUME StreamInv, OwnInputs, TRUE \notin GolfModes, NEW c \in members,
         NEW m \in InputPacket, Segment(m, srvLog[m.user]), AcceptInputs(c, m)
  PROVE  /\ auth' = auth /\ up' = up
         /\ \A d \in members : log'[d][d] = log[d][d] /\ frame[d] <= frame'[d]
<1>1. /\ TypeOK /\ Streams(members, srvLog, up, down, auth, log)
      /\ auth[c][c] = c /\ c \in User /\ m.user \in User
  BY DEF StreamInv, StreamsNow, OwnInputs, TypeOK, InputPacket
<1>2. auth' = auth /\ up' = up
  BY GolfAssumption DEF AcceptInputs
<1>3. \A d \in members : frame[d] <= frame'[d]
  <2>1. \A d \in User : frame[d] <= frame'[d]
    BY <1>1, OnInputFrame DEF AcceptInputs
  <2> QED
    BY <1>1, <2>1 DEF TypeOK
<1>4. log' = [log EXCEPT ![c][m.user] = @ \o Fresh(m, @)]
  BY DEF AcceptInputs
<1>5. /\ \A u \in User : u # m.user => log'[c][u] = log[c][u]
      /\ \A d \in User : d # c => log'[d] = log[d]
      /\ log'[c][m.user] = log[c][m.user] \o Fresh(m, log[c][m.user])
  BY <1>1, <1>4 DEF TypeOK
<1>6. m.user = c => log'[c][c] = log[c][c]
  <2> SUFFICES ASSUME m.user = c PROVE log'[c][c] = log[c][c]
    OBVIOUS
  <2>1. Below(srvLog[c], log[c][c])
    BY <1>1, HolderHasAll
  <2>2. /\ log[c][c] \in Seq(Input) /\ Len(log[c][c]) \in Nat /\ Len(srvLog[c]) \in Nat
        /\ m.first \in Nat /\ Len(m.inputs) \in Nat
    BY <1>1, LenProperties DEF TypeOK, InputPacket
  <2>3. m.first + Len(m.inputs) <= Len(log[c][c])
    BY <2>1, <2>2 DEF Below, Segment, End
  <2>4. Fresh(m, log[c][c]) = <<>>
    BY <2>2, <2>3 DEF Fresh
  <2> QED
    BY <1>5, <2>2, <2>4, ConcatEmptySeq
<1> QED
  BY <1>1, <1>2, <1>3, <1>5, <1>6 DEF TypeOK

LEMMA OwnEmulate ==
  ASSUME StreamInv, TypeOK', OwnInputs, InLag, TRUE \notin GolfModes,
         NEW c \in User, Emulate(c)
  PROVE  OwnInputs' /\ InLag'
<1> USE DEF serverVars, inputVars, controlVars
<1>1. /\ TypeOK /\ up \in [User -> Seq(Packet)] /\ log \in [User -> [User -> Seq(Input)]]
      /\ frame \in [User -> Nat] /\ members \in SUBSET User
      /\ \A d \in members : todo[d] = {} /\ Silent(up[d]) /\ Silent(down[d])
  BY DEF StreamInv, TypeOK, OwnInputs
<1>2. CASE UNCHANGED <<members, up, down, auth, log, todo, frame>>
  BY <1>1, <1>2, OwnKept
<1>3. CASE FinishInput(c)
  <2>1. UNCHANGED <<members, up, down, auth, log, todo>> /\ OnInput(c, present[c], queue[c])
    BY <1>3 DEF FinishInput
  <2>2. \A d \in members : frame[d] <= frame'[d]
    BY <1>1, <2>1, OnInputFrame
  <2> QED
    BY <1>1, <2>1, <2>2, OwnKept
<1>4. ASSUME NEW u \in User, SendInput(c, u) PROVE OwnInputs' /\ InLag'
  <2>1. PICK v \in Input : SendInputs(c, u, <<>>, <<v>>)
    BY <1>4 DEF SendInput
  <2>2. /\ c \in members /\ u = c /\ UNCHANGED <<members, down, auth, todo, frame>>
        /\ \E lag \in Lags : Len(log[c][c]) <= frame[c] + lag
    BY <1>4 DEF SendInput, OwnInputs
  <2>3. /\ <<v>> \in Seq(Input) /\ log[c][c] \in Seq(Input) /\ up[c] \in Seq(Packet)
    BY <1>1
  <2> DEFINE ps == Packets(c, log[c][c], <<v>>)
             t == log[c][c] \o <<v>>
  <2>4. ps \in Seq(Packet) /\ Silent(ps)
    BY <2>3, SilentPackets
  <2>5. Len(t) = Len(log[c][c]) + 1
    BY <2>3, BelowConcat
  <2>6. up' = [up EXCEPT ![c] = @ \o <<>> \o ps] /\ log' = [log EXCEPT ![c][c] = t]
    BY <2>1, <2>2 DEF SendInputs
  <2> HIDE DEF ps, t
  <2>7. up[c] \o <<>> = up[c]
    BY <2>3, ConcatEmptySeq
  <2>8. /\ up'[c] = up[c] \o ps /\ \A d \in User : d # c => up'[d] = up[d]
        /\ log'[c][c] = t /\ \A d \in User : d # c => log'[d][d] = log[d][d]
    BY <1>1, <2>6, <2>7
  <2>9. Silent(up[c] \o ps)
    BY <1>1, <2>2, <2>3, <2>4, SilentConcat
  <2>10. OwnInputs'
    BY <1>1, <2>2, <2>8, <2>9 DEF OwnInputs
  <2>11. ASSUME NEW d \in members
         PROVE  \E lag \in Lags : Len(log'[d][d]) <= frame[d] + lag + 1
    <3>1. CASE d = c
      <4>1. PICK lag \in Lags : Len(log[c][c]) <= frame[c] + lag
        BY <2>2
      <4>2. lag \in Nat /\ frame[c] \in Nat /\ Len(log[c][c]) \in Nat
        BY <1>1, <2>3, LagAssumption, LenProperties
      <4> QED
        BY <2>5, <2>8, <3>1, <4>1, <4>2
    <3>2. CASE d # c
      BY <1>1, <2>8, <3>2 DEF InLag
    <3> QED
      BY <3>1, <3>2
  <2> QED
    BY <2>2, <2>10, <2>11 DEF InLag
<1>5. ~GolfSwing(c) /\ ~ChangeNext(c)
  BY <1>1 DEF GolfSwing, ChangeNext
<1> QED
  BY <1>2, <1>3, <1>4, <1>5 DEF Emulate, ProcessInput, TakeInput

LEMMA OwnReceive ==
  ASSUME StreamInv, TypeOK', OwnInputs, InLag, TRUE \notin GolfModes,
         NEW c \in User, Receive(c)
  PROVE  OwnInputs' /\ InLag'
<1> USE DEF serverVars, inputVars, controlVars
<1> DEFINE m == Head(down[c])
<1>1. /\ TypeOK /\ Streams(members, srvLog, up, down, auth, log)
      /\ down \in [User -> Seq(Packet)] /\ members \in SUBSET User
      /\ \A d \in members : todo[d] = {} /\ Silent(up[d]) /\ Silent(down[d])
  BY DEF StreamInv, StreamsNow, TypeOK, OwnInputs
<1>2. /\ c \in members /\ down[c] # <<>> /\ down' = [down EXCEPT ![c] = Tail(@)]
      /\ UNCHANGED <<members, todo>>
  BY DEF Receive, ReceiveInput, ReceiveDelegate, ReceiveRequest, ReceiveQuit, Receives,
         ServiceIdle, Consume
<1>3. Silent(Tail(down[c])) /\ m.type \notin {"DELEGATE_AUTHORITY", "REQUEST_AUTHORITY"}
  BY <1>1, <1>2, SilentTail
<1>4. m \in Packet /\ m = down[c][1] /\ 1 \in 1..Len(down[c])
  BY <1>1, <1>2, Tailed
<1>5. \A d \in members : Silent(down'[d])
  BY <1>1, <1>2, <1>3
<1> HIDE DEF m
<1>6. CASE ReceiveInput(c)
  <2>1. m.type = "INPUT_DATA" /\ AcceptInputs(c, m)
    BY <1>6 DEF ReceiveInput, Receives, m
  <2>2. m \in InputPacket /\ Segment(m, srvLog[m.user])
    BY <1>1, <1>2, <1>4, <2>1, InputEnd DEF Streams, Data
  <2>3. /\ auth' = auth /\ up' = up
        /\ \A d \in members : log'[d][d] = log[d][d] /\ frame[d] <= frame'[d]
    BY <1>2, <2>1, <2>2, AcceptOwn
  <2> QED
    BY <1>1, <1>2, <1>5, <2>3, OwnKept
<1>7. CASE ReceiveQuit(c)
  <2>1. m.type = "QUIT" /\ auth[c][c] = c
    BY <1>2, <1>7 DEF ReceiveQuit, Receives, OwnInputs, m, TypeOK
  <2>2. m.user \notin members
    BY <1>1, <1>2, <1>4, <2>1 DEF Streams, NoFalseQuit
  <2>3. auth[c][c] # m.user
    BY <1>2, <2>1, <2>2
  <2>4. /\ UNCHANGED <<auth, up, log>>
        /\ \E pres, q : OnInput(c, pres, q)
    BY <1>7, <2>3 DEF ReceiveQuit, m
  <2>5. \A d \in members : frame[d] <= frame'[d]
    BY <1>1, <2>4, OnInputFrame
  <2> QED
    BY <1>1, <1>2, <1>5, <2>4, <2>5, OwnKept
<1>8. ~ReceiveDelegate(c) /\ ~ReceiveRequest(c)
  BY <1>3 DEF ReceiveDelegate, ReceiveRequest, Receives, m
<1> QED
  BY <1>6, <1>7, <1>8 DEF Receive

LEMMA OwnRelay ==
  ASSUME TypeOK, NEW c \in User, NEW m \in InputPacket, RelayInputs(c, m),
         \A d \in members : Silent(down[d])
  PROVE  \A d \in members : Silent(down'[d])
<1> DEFINE fresh == IF m.user \in members THEN Fresh(m, srvLog[m.user]) ELSE <<>>
           ps == Packets(m.user, srvLog[m.user], fresh)
<1>1. m.user \in User /\ srvLog[m.user] \in Seq(Input) /\ down \in [User -> Seq(Packet)]
      /\ members \in SUBSET User
  BY DEF TypeOK, InputPacket
<1>2. fresh \in Seq(Input)
  BY <1>1, FreshType, EmptySeq
<1>3. SendAll(members \ {c}, ps)
  BY DEF RelayInputs
<1> HIDE DEF fresh
<1>4. ps \in Seq(Packet) /\ Silent(ps)
  BY <1>1, <1>2, SilentPackets
<1> HIDE DEF ps
<1>5. \A d \in members : down'[d] = down[d] \o ps \/ down'[d] = down[d]
  BY <1>1, <1>3 DEF SendAll
<1> QED
  BY <1>1, <1>4, <1>5, SilentConcat

LEMMA OwnServe ==
  ASSUME StreamInv, TypeOK', OwnInputs, InLag,
         NEW c \in User, Serve(c) \/ ServerDatagram(c)
  PROVE  OwnInputs' /\ InLag'
<1> USE DEF serverVars, inputVars, controlVars
<1> DEFINE m == Head(up[c])
<1>1. /\ TypeOK /\ up \in [User -> Seq(Packet)] /\ members \in SUBSET User
      /\ upUdp \in [User -> SUBSET InputPacket] /\ frame \in [User -> Nat]
      /\ \A d \in members : todo[d] = {} /\ Silent(up[d]) /\ Silent(down[d])
  BY DEF StreamInv, TypeOK, OwnInputs
<1>2. CASE Serve(c)
  <2>1. c \in members /\ up[c] # <<>>
    BY <1>2 DEF Serve, ServerInput, ServerDelegate, ServerRequest, Handles
  <2>2. /\ Silent(Tail(up[c])) /\ m.type \notin {"DELEGATE_AUTHORITY", "REQUEST_AUTHORITY"}
        /\ m \in Packet
    BY <1>1, <2>1, SilentTail, QueueParts
  <2>3. /\ ServerInput(c) /\ m.type = "INPUT_DATA" /\ RelayInputs(c, m)
        /\ up' = [up EXCEPT ![c] = Tail(@)]
        /\ UNCHANGED <<members, auth, todo, log, frame>>
    BY <1>2, <2>2 DEF Serve, ServerInput, ServerDelegate, ServerRequest, Handles
  <2>4. m \in InputPacket
    BY <2>2, <2>3, PacketParts
  <2> HIDE DEF m
  <2>5. \A d \in members : Silent(down'[d])
    BY <1>1, <2>3, <2>4, OwnRelay
  <2>6. \A d \in members : Silent(up'[d]) /\ frame[d] <= frame'[d]
    BY <1>1, <2>2, <2>3
  <2> QED
    BY <1>1, <2>3, <2>5, <2>6, OwnKept
<1>3. CASE ServerDatagram(c)
  <2> PICK n \in upUdp[c] : RelayInputs(c, n)
    BY <1>3 DEF ServerDatagram
  <2>1. n \in InputPacket /\ UNCHANGED <<members, auth, todo, log, frame, up>>
    BY <1>1, <1>3 DEF ServerDatagram
  <2>2. \A d \in members : Silent(down'[d])
    BY <1>1, <2>1, OwnRelay
  <2>3. \A d \in members : Silent(up'[d]) /\ frame[d] <= frame'[d]
    BY <1>1, <2>1
  <2> QED
    BY <1>1, <2>1, <2>2, <2>3, OwnKept
<1> QED
  BY <1>2, <1>3

LEMMA OwnQuit ==
  ASSUME TypeOK, TypeOK', OwnInputs, InLag, NEW c \in User, ServerQuit(c)
  PROVE  OwnInputs' /\ InLag'
<1>1. /\ members' \subseteq members /\ members' \subseteq User
      /\ \A d \in members' :
            /\ down'[d] = Append(down[d], Quit(c))
            /\ up'[d] = up[d] /\ auth'[d] = auth[d] /\ log'[d] = log[d]
            /\ todo'[d] = todo[d] /\ frame'[d] = frame[d]
  BY DEF ServerQuit, TypeOK
<1>2. ASSUME NEW d \in members' PROVE Silent(down'[d])
  <2>1. /\ Quit(c) \in Packet /\ Quit(c).type = "QUIT"
        /\ down[d] \in Seq(Packet) /\ Silent(down[d])
    BY <1>1 DEF Quit, Packet, QuitPacket, TypeOK, OwnInputs
  <2> QED
    BY <1>1, <2>1, Appended DEF Silent
<1>3. OwnInputs'
  BY <1>1, <1>2 DEF OwnInputs
<1> QED
  BY <1>1, <1>3 DEF InLag

(* While nobody changes authority, no client's game runs ahead of another's *)
(* by more than the lag plus the frame being merged: a client cannot merge  *)
(* a frame before it has everyone's input of it, and nobody sends inputs    *)
(* for frames further ahead of its own than its lag.  Users may leave, UDP  *)
(* may lose or repeat, and the lag may change between any allowed values.   *)
THEOREM BoundedSkewAlways ==
  ASSUME MaxCommands = 0, TRUE \notin GolfModes
  PROVE  Spec => []BoundedSkew
<1>1. Init => OwnInputs /\ InLag
  <2> SUFFICES ASSUME Init PROVE OwnInputs /\ InLag
    OBVIOUS
  <2>1. Len(<<>>) = 0
    BY EmptySeq
  <2>2. OwnInputs
    BY <2>1 DEF Init, OwnInputs, Silent
  <2>3. ASSUME NEW d \in members PROVE \E lag \in Lags : Len(log[d][d]) <= frame[d] + lag + 1
    <3>1. d \in User /\ log[d][d] = <<>> /\ frame[d] = 0
      BY DEF Init, NoInputs
    <3>2. PICK lag \in Lags : lag \in Nat
      BY LagAssumption
    <3> QED
      BY <2>1, <3>1, <3>2
  <2> QED
    BY <2>2, <2>3 DEF InLag
<1>2. StreamInv /\ StreamInv' /\ OwnInputs /\ InLag /\ [Next]_vars => OwnInputs' /\ InLag'
  <2> USE DEF serverVars, inputVars, controlVars
  <2> SUFFICES ASSUME StreamInv, StreamInv', OwnInputs, InLag, [Next]_vars
               PROVE  OwnInputs' /\ InLag'
    OBVIOUS
  <2>1. TypeOK /\ TypeOK'
    BY DEF StreamInv
  <2>2. CASE UNCHANGED vars
    BY <2>2 DEF vars, OwnInputs, InLag
  <2>3. ASSUME NEW c \in User, Command(c) PROVE FALSE
    <3>1. commands < MaxCommands
      BY <2>3 DEF Command, GolfCommand, AuthCommand
    <3>2. commands \in Nat
      BY <2>1 DEF TypeOK
    <3> QED
      BY <3>1, <3>2
  <2>4. ASSUME NEW c \in User, ReceiveDatagram(c) PROVE OwnInputs' /\ InLag'
    <3>1. PICK m \in downUdp[c] : AcceptInputs(c, m)
      BY <2>4 DEF ReceiveDatagram
    <3>2. c \in members /\ UNCHANGED <<members, todo, down>>
      BY <2>4 DEF ReceiveDatagram, ServiceIdle
    <3>3. m \in InputPacket /\ Segment(m, srvLog[m.user])
      BY <2>1, <3>2 DEF StreamInv, DatagramsNow, Datagram, TypeOK
    <3>4. /\ auth' = auth /\ up' = up
          /\ \A d \in members : log'[d][d] = log[d][d] /\ frame[d] <= frame'[d]
      BY <3>1, <3>2, <3>3, AcceptOwn
    <3>5. \A d \in members : Silent(up'[d]) /\ Silent(down'[d])
      BY <3>2, <3>4 DEF OwnInputs
    <3> QED
      BY <2>1, <3>2, <3>4, <3>5, OwnKept
  <2>5. ASSUME NEW c \in User, ReceiveOrphanDatagram(c) PROVE OwnInputs' /\ InLag'
    BY <2>5 DEF ReceiveOrphanDatagram, OwnInputs, InLag
  <2> QED
    BY <2>1, <2>2, <2>3, <2>4, <2>5, OwnEmulate, OwnReceive, OwnServe, OwnQuit
       DEF Next, Finished, ReceiveUdp
<1>3. StreamInv /\ QueueAligned /\ OwnInputs /\ InLag => BoundedSkew
  <2> SUFFICES ASSUME StreamInv, QueueAligned, OwnInputs, InLag,
                      NEW c \in members, NEW d \in members
               PROVE  \E lag \in Lags : frame[c] <= frame[d] + lag + 1
    BY DEF BoundedSkew
  <2>1. /\ TypeOK /\ c \in User /\ d \in User /\ auth[d][d] = d
        /\ Streams(members, srvLog, up, down, auth, log)
        /\ d \in present[c]
    BY DEF StreamInv, StreamsNow, TypeOK, OwnInputs, QuitOrder, Sound
  <2>2. frame[c] <= Len(log[c][d])
    BY <2>1 DEF QueueAligned
  <2>3. Len(log[c][d]) <= Len(log[d][d])
    BY <2>1, HolderHasAll DEF Below
  <2>4. PICK lag \in Lags : Len(log[d][d]) <= frame[d] + lag + 1
    BY DEF InLag
  <2>5. /\ frame[c] \in Nat /\ frame[d] \in Nat /\ lag \in Nat
        /\ Len(log[c][d]) \in Nat /\ Len(log[d][d]) \in Nat
    BY <2>1, LagAssumption, LenProperties DEF TypeOK
  <2> QED
    BY <2>2, <2>3, <2>4, <2>5
<1> QED
  BY <1>1, <1>2, <1>3, StreamInvAlways, QueueAlignedAlways, PTL DEF Spec

-----------------------------------------------------------------------------
(* While nobody has left, everyone is told who has authority: what a client *)
(* will see when it has handled what is on its way is what the server has,  *)
(* except for the client whose gift the server has yet to see.              *)

Gifts(s, u) == {i \in 1..Len(s) : IsGift(s[i], u)}

Told(U, D, A, R, u) ==
    \A c \in User :
        /\ A[c][u] = c => Gifts(D[c], u) = {}
        /\ \A i \in Gifts(U[c], u) :
              /\ U[c][i].authority = A[c][u] /\ A[c][u] # c
              /\ R[u] = c /\ Gifts(D[c], u) = {}
        /\ \A i \in Gifts(D[c], u) :
              D[c][i].authority = c => \A k \in Gifts(D[c], u) : k <= i
        /\ Gifts(U[c], u) = {} => Sees(D[c], Len(D[c]), A[c][u], u, R[u])

AllTold(U, D, A, R) == \A u \in User : Told(U, D, A, R, u)

\* s2 has the gifts of u that s has, in the same order.
Alike(s2, s, u) ==
    /\ \E k \in {0, 1} :
          /\ \A i \in Int : i \in Gifts(s2, u) <=> i + k \in Gifts(s, u)
          /\ \A i \in Gifts(s2, u) : s2[i] = s[i + k]
    /\ \A v, a : Sees(s, Len(s), v, u, a) => Sees(s2, Len(s2), v, u, a)

LEMMA AlikeSame ==
  ASSUME NEW s \in Seq(Packet), NEW u
  PROVE  Alike(s, s, u)
<1>1. \A i \in Int : i + 0 = i
  OBVIOUS
<1>2. \A i \in Gifts(s, u) : i \in Int
  BY LenProperties DEF Gifts
<1> QED
  BY <1>1, <1>2 DEF Alike

LEMMA AlikeConcat ==
  ASSUME NEW s \in Seq(Packet), NEW ps \in Seq(Packet), NEW u,
         \A i \in 1..Len(ps) : ~IsGift(ps[i], u)
  PROVE  Alike(s \o ps, s, u)
<1> DEFINE t == s \o ps
<1>1. /\ Len(t) = Len(s) + Len(ps) /\ Len(s) \in Nat /\ Len(ps) \in Nat
      /\ \A i \in 1..Len(s) : t[i] = s[i] /\ i \in 1..Len(t)
      /\ \A i \in 1..Len(t) : i \notin 1..Len(s) =>
            i - Len(s) \in 1..Len(ps) /\ Len(s) < i /\ t[i] = ps[i - Len(s)]
  BY Joined
<1> HIDE DEF t
<1>2. \A i \in 1..Len(t) : i \notin 1..Len(s) => ~IsGift(t[i], u)
  BY <1>1
<1>3. \A i \in Int : i \in Gifts(t, u) <=> i + 0 \in Gifts(s, u)
  BY <1>1, <1>2 DEF Gifts
<1>4. \A i \in Gifts(t, u) : t[i] = s[i + 0]
  BY <1>1, <1>2 DEF Gifts
<1>5. ASSUME NEW v, NEW a, Sees(s, Len(s), v, u, a) PROVE Sees(t, Len(t), v, u, a)
  <2>1. \A k \in Len(s)+1..Len(t) : ~IsGift(t[k], u)
    BY <1>1, <1>2
  <2>2. Sees(t, Len(s), v, u, a)
    BY <1>1, <1>5, SeesSame
  <2>3. Len(s) <= Len(t) /\ Len(t) \in Nat
    BY <1>1
  <2> QED
    BY <1>1, <2>1, <2>2, <2>3, SeesMore
<1>6. Alike(t, s, u)
  BY <1>3, <1>4, <1>5 DEF Alike
<1> QED
  BY <1>6 DEF t

LEMMA AlikeAppend ==
  ASSUME NEW s \in Seq(Packet), NEW m \in Packet, NEW u, ~IsGift(m, u)
  PROVE  Alike(Append(s, m), s, u)
<1>1. /\ Append(s, m) = s \o <<m>> /\ <<m>> \in Seq(Packet)
      /\ \A i \in 1..Len(<<m>>) : <<m>>[i] = m
  BY Appended
<1> QED
  BY <1>1, AlikeConcat

LEMMA AlikeTail ==
  ASSUME NEW s \in Seq(Packet), s # <<>>, NEW u, ~IsGift(Head(s), u)
  PROVE  Alike(Tail(s), s, u)
<1> DEFINE t == Tail(s)
<1>1. /\ Head(s) = s[1] /\ Len(s) \in Nat \ {0} /\ Len(t) = Len(s) - 1
      /\ \A i \in 1..Len(t) : t[i] = s[i + 1] /\ i + 1 \in 1..Len(s)
  BY Tailed
<1>2. \A v, a : Sees(s, Len(s), v, u, a) => Sees(t, Len(t), v, u, a)
  BY <1>1, SeesTail
<1> HIDE DEF t
<1>3. \A i \in Int : i + 1 \in 1..Len(s) /\ i + 1 # 1 => i \in 1..Len(t)
  BY <1>1
<1>4. \A i \in Int : i \in Gifts(t, u) <=> i + 1 \in Gifts(s, u)
  BY <1>1, <1>3 DEF Gifts
<1>5. \A i \in Gifts(t, u) : t[i] = s[i + 1]
  BY <1>1 DEF Gifts
<1>6. Alike(t, s, u)
  BY <1>2, <1>4, <1>5 DEF Alike
<1> QED
  BY <1>6 DEF t

\* Gifts that stay where they are, or move up by one.
LEMMA ToldAlike ==
  ASSUME NEW U, NEW D, NEW A, NEW R, NEW U2, NEW D2, NEW A2, NEW R2, NEW u,
         Told(U, D, A, R, u), R2[u] = R[u],
         \A c \in User : /\ Alike(U2[c], U[c], u) /\ Alike(D2[c], D[c], u)
                         /\ A2[c][u] = A[c][u],
         \A c \in User : Len(D2[c]) \in Nat /\ Len(U2[c]) \in Nat
  PROVE  Told(U2, D2, A2, R2, u)
<1> SUFFICES ASSUME NEW c \in User
             PROVE  /\ A[c][u] = c => Gifts(D2[c], u) = {}
                    /\ \A i \in Gifts(U2[c], u) :
                          /\ U2[c][i].authority = A[c][u] /\ A[c][u] # c
                          /\ R[u] = c /\ Gifts(D2[c], u) = {}
                    /\ \A i \in Gifts(D2[c], u) :
                          D2[c][i].authority = c => \A k \in Gifts(D2[c], u) : k <= i
                    /\ Gifts(U2[c], u) = {} => Sees(D2[c], Len(D2[c]), A[c][u], u, R[u])
  BY DEF Told
<1>1. PICK ku \in {0, 1} :
         /\ \A i \in Int : i \in Gifts(U2[c], u) <=> i + ku \in Gifts(U[c], u)
         /\ \A i \in Gifts(U2[c], u) : U2[c][i] = U[c][i + ku]
  BY DEF Alike
<1>2. PICK kd \in {0, 1} :
         /\ \A i \in Int : i \in Gifts(D2[c], u) <=> i + kd \in Gifts(D[c], u)
         /\ \A i \in Gifts(D2[c], u) : D2[c][i] = D[c][i + kd]
  BY DEF Alike
<1>3. \A v, a : Sees(D[c], Len(D[c]), v, u, a) => Sees(D2[c], Len(D2[c]), v, u, a)
  BY DEF Alike
<1>4. /\ \A i \in Gifts(U2[c], u) : i \in Int
      /\ \A i \in Gifts(D2[c], u) : i \in Int
  BY DEF Gifts
<1>5. Gifts(D[c], u) = {} => Gifts(D2[c], u) = {}
  BY <1>2, <1>4
<1>6. \A i \in Gifts(U[c], u) : i - ku \in Int /\ (i - ku) + ku = i
  <2>1. \A i \in Gifts(U[c], u) : i \in Int
    BY DEF Gifts
  <2> QED
    BY <2>1
<1>7. Gifts(U2[c], u) = {} => Gifts(U[c], u) = {}
  BY <1>1, <1>6
<1>8. ASSUME NEW i \in Gifts(D2[c], u), D2[c][i].authority = c, NEW k \in Gifts(D2[c], u)
      PROVE  k <= i
  <2>1. i + kd \in Gifts(D[c], u) /\ k + kd \in Gifts(D[c], u) /\ D[c][i + kd].authority = c
    BY <1>2, <1>4, <1>8
  <2>2. k + kd <= i + kd
    BY <2>1 DEF Told
  <2> QED
    BY <1>4, <2>2
<1>9. /\ A[c][u] = c => Gifts(D[c], u) = {}
      /\ \A i \in Gifts(U[c], u) :
            /\ U[c][i].authority = A[c][u] /\ A[c][u] # c
            /\ R[u] = c /\ Gifts(D[c], u) = {}
      /\ Gifts(U[c], u) = {} => Sees(D[c], Len(D[c]), A[c][u], u, R[u])
  BY DEF Told
<1>10. ASSUME NEW i \in Gifts(U2[c], u)
       PROVE  /\ U2[c][i].authority = A[c][u] /\ A[c][u] # c
              /\ R[u] = c /\ Gifts(D2[c], u) = {}
  <2>1. i + ku \in Gifts(U[c], u) /\ U2[c][i] = U[c][i + ku]
    BY <1>1, <1>4
  <2> QED
    BY <1>5, <1>9, <2>1
<1> QED
  BY <1>3, <1>5, <1>7, <1>8, <1>9, <1>10

Channels(U, D, A) ==
    /\ U \in [User -> Seq(Packet)] /\ D \in [User -> Seq(Packet)]
    /\ A \in [User -> [User -> User]]

\* The holder gives the authority away: nothing about it is on its way to it.
LEMMA ToldGive ==
  ASSUME NEW U, NEW D, NEW A, NEW R, NEW U2, NEW A2, Channels(U, D, A),
         AllTold(U, D, A, R), NEW c \in User, NEW u \in User, NEW a \in User,
         A[c][u] = c, a # c, GiveMove(c, u, a, U, A, U2, A2)
  PROVE  AllTold(U2, D, A2, R)
<1> DEFINE m == Delegate(u, a)
<1>1. \A d \in User : /\ U[d] \in Seq(Packet) /\ Len(U[d]) \in Nat
                      /\ D[d] \in Seq(Packet) /\ Len(D[d]) \in Nat
  BY LenProperties DEF Channels
<1>2. /\ m \in Packet /\ IsGift(m, u) /\ m.authority = a
      /\ \A w \in User : w # u => ~IsGift(m, w)
  BY DEF Delegate, Packet, AuthorityPacket, IsGift
<1>3. /\ U2[c] = Append(U[c], m) /\ \A d \in User : d # c => U2[d] = U[d]
      /\ A2[c][u] = a /\ \A w \in User : w # u => A2[c][w] = A[c][w]
      /\ \A d \in User : d # c => A2[d] = A[d]
  BY DEF GiveMove, Channels
<1> HIDE DEF m
<1>4. /\ U2[c] \in Seq(Packet) /\ Len(U2[c]) = Len(U[c]) + 1
      /\ U2[c][Len(U[c]) + 1] = m /\ \A i \in 1..Len(U[c]) : U2[c][i] = U[c][i]
  BY <1>1, <1>2, <1>3, Appended
<1>5. \A d \in User : Len(U2[d]) \in Nat
  BY <1>1, <1>3, <1>4
<1>6. ASSUME NEW w \in User, w # u PROVE Told(U2, D, A2, R, w)
  <2>1. \A d \in User : Alike(U2[d], U[d], w) /\ Alike(D[d], D[d], w)
    <3>1. Alike(U2[c], U[c], w)
      BY <1>1, <1>2, <1>3, <1>6, AlikeAppend
    <3> QED
      BY <1>1, <1>3, <3>1, AlikeSame
  <2>2. \A d \in User : A2[d][w] = A[d][w]
    BY <1>3, <1>6
  <2>3. Told(U, D, A, R, w)
    BY DEF AllTold
  <2> QED
    BY <1>1, <1>5, <2>1, <2>2, <2>3, ToldAlike
<1>7. Told(U2, D, A2, R, u)
  <2>1. Told(U, D, A, R, u)
    BY DEF AllTold
  <2>2. Gifts(D[c], u) = {} /\ Gifts(U[c], u) = {}
    BY <2>1 DEF Told
  <2>3. R[u] = c
    <3>1. Sees(D[c], Len(D[c]), A[c][u], u, R[u])
      BY <2>1, <2>2 DEF Told
    <3> QED
      BY <2>2, <3>1 DEF Sees, Gifts
  <2>4. Gifts(U2[c], u) = {Len(U[c]) + 1}
    <3>1. \A i \in 1..Len(U[c]) : ~IsGift(U2[c][i], u)
      BY <1>4, <2>2 DEF Gifts
    <3>2. \A i \in 1..Len(U2[c]) : i \in 1..Len(U[c]) \/ i = Len(U[c]) + 1
      BY <1>1, <1>4
    <3>3. Len(U[c]) + 1 \in 1..Len(U2[c]) /\ IsGift(U2[c][Len(U[c]) + 1], u)
      BY <1>1, <1>2, <1>4
    <3> QED
      BY <3>1, <3>2, <3>3 DEF Gifts
  <2> SUFFICES ASSUME NEW d \in User
               PROVE  /\ A2[d][u] = d => Gifts(D[d], u) = {}
                      /\ \A i \in Gifts(U2[d], u) :
                            /\ U2[d][i].authority = A2[d][u] /\ A2[d][u] # d
                            /\ R[u] = d /\ Gifts(D[d], u) = {}
                      /\ \A i \in Gifts(D[d], u) :
                            D[d][i].authority = d => \A k \in Gifts(D[d], u) : k <= i
                      /\ Gifts(U2[d], u) = {} => Sees(D[d], Len(D[d]), A2[d][u], u, R[u])
    BY DEF Told
  <2>5. CASE d = c
    BY <1>2, <1>3, <1>4, <2>2, <2>3, <2>4, <2>5
  <2>6. CASE d # c
    <3>1. U2[d] = U[d] /\ A2[d] = A[d]
      BY <1>3, <2>6
    <3> QED
      BY <2>1, <3>1 DEF Told
  <2> QED
    BY <2>5, <2>6
<1> QED
  BY <1>6, <1>7 DEF AllTold

\* A client takes the head of what is on its way, and sees what it said.
LEMMA ToldTake ==
  ASSUME NEW U, NEW D, NEW A, NEW R, NEW D2, NEW A2, Channels(U, D, A),
         AllTold(U, D, A, R), NEW c \in User, TakeMove(c, D, A, D2, A2)
  PROVE  AllTold(U, D2, A2, R)
<1> DEFINE m == Head(D[c])
           t == Tail(D[c])
<1>1. \A d \in User : /\ U[d] \in Seq(Packet) /\ Len(U[d]) \in Nat
                      /\ D[d] \in Seq(Packet) /\ Len(D[d]) \in Nat
  BY LenProperties DEF Channels
<1>2. /\ D[c] # <<>> /\ D2[c] = t /\ \A d \in User : d # c => D2[d] = D[d]
      /\ \A w \in User : A2[c][w] = IF IsGift(m, w) THEN m.authority ELSE A[c][w]
      /\ \A d \in User : d # c => A2[d] = A[d]
  BY DEF TakeMove, Channels, IsGift
<1>3. /\ m \in Packet /\ m = D[c][1] /\ Len(D[c]) \in Nat \ {0}
      /\ t \in Seq(Packet) /\ Len(t) = Len(D[c]) - 1
      /\ \A i \in 1..Len(t) : t[i] = D[c][i + 1] /\ i + 1 \in 1..Len(D[c])
  BY <1>1, <1>2, Tailed
<1>4. \A w, v, a : Sees(D[c], Len(D[c]), v, w, a)
                     => Sees(t, Len(t), IF IsGift(m, w) THEN m.authority ELSE v, w, a)
  BY <1>1, <1>2, <1>3, SeesTail
<1>5. ASSUME NEW w \in User, ~IsGift(m, w) PROVE Told(U, D2, A2, R, w)
  <2>1. \A d \in User : Alike(U[d], U[d], w) /\ Alike(D2[d], D[d], w)
    <3>1. Alike(D2[c], D[c], w)
      BY <1>1, <1>2, <1>5, AlikeTail
    <3> QED
      BY <1>1, <1>2, <3>1, AlikeSame
  <2>2. \A d \in User : A2[d][w] = A[d][w]
    BY <1>2, <1>5
  <2>3. Told(U, D, A, R, w)
    BY DEF AllTold
  <2>4. \A d \in User : Len(D2[d]) \in Nat
    BY <1>1, <1>2, <1>3
  <2> QED
    BY <1>1, <2>1, <2>2, <2>3, <2>4, ToldAlike
<1> HIDE DEF m, t
<1>6. ASSUME NEW u \in User, IsGift(m, u) PROVE Told(U, D2, A2, R, u)
  <2>1. Told(U, D, A, R, u)
    BY DEF AllTold
  <2>2. 1 \in Gifts(D[c], u) /\ D[c][1] = m
    BY <1>3, <1>6 DEF Gifts
  <2>3. Gifts(U[c], u) = {}
    BY <2>1, <2>2 DEF Told
  <2>4. \A i \in Gifts(t, u) : i \in 1..Len(t) /\ i + 1 \in Gifts(D[c], u) /\ t[i] = D[c][i + 1]
    BY <1>3 DEF Gifts
  <2>5. A2[c][u] = c => Gifts(t, u) = {}
    <3> SUFFICES ASSUME m.authority = c, NEW i \in Gifts(t, u) PROVE FALSE
      BY <1>2, <1>6
    <3>1. i + 1 <= 1
      BY <2>1, <2>2, <2>4 DEF Told
    <3> QED
      BY <1>3, <2>4, <3>1
  <2>6. ASSUME NEW i \in Gifts(t, u), t[i].authority = c, NEW k \in Gifts(t, u)
        PROVE  k <= i
    <3>1. k + 1 <= i + 1
      BY <2>1, <2>4, <2>6 DEF Told
    <3> QED
      BY <1>3, <2>4, <3>1
  <2>7. Sees(t, Len(t), A2[c][u], u, R[u])
    <3>1. Sees(D[c], Len(D[c]), A[c][u], u, R[u])
      BY <2>1, <2>3 DEF Told
    <3> QED
      BY <1>2, <1>4, <1>6, <3>1
  <2> SUFFICES ASSUME NEW d \in User
               PROVE  /\ A2[d][u] = d => Gifts(D2[d], u) = {}
                      /\ \A i \in Gifts(U[d], u) :
                            /\ U[d][i].authority = A2[d][u] /\ A2[d][u] # d
                            /\ R[u] = d /\ Gifts(D2[d], u) = {}
                      /\ \A i \in Gifts(D2[d], u) :
                            D2[d][i].authority = d => \A k \in Gifts(D2[d], u) : k <= i
                      /\ Gifts(U[d], u) = {} => Sees(D2[d], Len(D2[d]), A2[d][u], u, R[u])
    BY DEF Told
  <2>8. CASE d = c
    BY <1>2, <2>3, <2>5, <2>6, <2>7, <2>8
  <2>9. CASE d # c
    BY <1>2, <2>1, <2>9 DEF Told
  <2> QED
    BY <2>8, <2>9
<1> QED
  BY <1>5, <1>6 DEF AllTold, m

\* The server stores who has authority now and tells everyone but the giver.
LEMMA ToldPass ==
  ASSUME NEW U, NEW D, NEW A, NEW R, NEW U2, NEW D2, NEW R2, Channels(U, D, A),
         AllTold(U, D, A, R), NEW c \in User, PassMove(User, c, U, D, U2, D2),
         Head(U[c]).type = "DELEGATE_AUTHORITY",
         \A w \in User : R2[w] = IF w = Head(U[c]).user THEN Head(U[c]).authority ELSE R[w],
         Unique(User, U, D, A, Head(U[c]).user)
  PROVE  AllTold(U2, D2, A, R2)
<1> DEFINE m == Head(U[c])
           t == Tail(U[c])
           u == m.user
           a == m.authority
<1>1. \A d \in User : /\ U[d] \in Seq(Packet) /\ Len(U[d]) \in Nat
                      /\ D[d] \in Seq(Packet) /\ Len(D[d]) \in Nat
                      /\ \A w \in User : A[d][w] \in User
  BY LenProperties DEF Channels
<1>2. /\ U[c] # <<>> /\ U2[c] = t /\ \A d \in User : d # c => U2[d] = U[d]
      /\ D2[c] = D[c] /\ \A d \in User : d # c => D2[d] = Append(D[d], m)
  BY DEF PassMove, Channels
<1>3. /\ m \in Packet /\ m = U[c][1] /\ Len(U[c]) \in Nat \ {0}
      /\ t \in Seq(Packet) /\ Len(t) = Len(U[c]) - 1
      /\ \A i \in 1..Len(t) : t[i] = U[c][i + 1] /\ i + 1 \in 1..Len(U[c])
  BY <1>1, <1>2, Tailed
<1>4. /\ IsGift(m, u) /\ u \in User /\ R2[u] = a
      /\ \A w \in User : w # u => ~IsGift(m, w) /\ R2[w] = R[w]
  BY <1>3, PacketParts DEF IsGift
<1>5. Told(U, D, A, R, u) /\ Unique(User, U, D, A, u)
  BY <1>4 DEF AllTold
<1> HIDE DEF m, t, u, a
<1>6. ASSUME NEW d \in User, d # c
      PROVE  /\ D2[d] = Append(D[d], m) /\ m \in Packet /\ D[d] \in Seq(Packet)
             /\ Len(D2[d]) = Len(D[d]) + 1 /\ D2[d][Len(D[d]) + 1] = m
             /\ \A i \in 1..Len(D[d]) : D2[d][i] = D[d][i]
  <2>1. D2[d] = Append(D[d], m) /\ m \in Packet /\ D[d] \in Seq(Packet)
    BY <1>1, <1>2, <1>3, <1>6
  <2> QED
    BY <2>1, Appended
<1>7. \A d \in User : Len(D2[d]) \in Nat /\ Len(U2[d]) \in Nat
  <2>1. \A d \in User : d # c => Len(D2[d]) \in Nat /\ Len(U2[d]) \in Nat
    BY <1>1, <1>2, <1>6
  <2> QED
    BY <1>1, <1>2, <1>3, <2>1
<1>8. ASSUME NEW w \in User, w # u PROVE Told(U2, D2, A, R2, w)
  <2>1. \A d \in User : Alike(D2[d], D[d], w)
    <3>1. ASSUME NEW d \in User, d # c PROVE Alike(D2[d], D[d], w)
      BY <1>4, <1>6, <1>8, <3>1, AlikeAppend
    <3> QED
      BY <1>1, <1>2, <3>1, AlikeSame
  <2>2. \A d \in User : Alike(U2[d], U[d], w)
    <3>1. Alike(U2[c], U[c], w)
      BY <1>1, <1>2, <1>4, <1>8, AlikeTail DEF m, t
    <3> QED
      BY <1>1, <1>2, <3>1, AlikeSame
  <2>3. Told(U, D, A, R, w) /\ R2[w] = R[w]
    BY <1>4, <1>8 DEF AllTold
  <2> QED
    BY <1>7, <2>1, <2>2, <2>3, ToldAlike
<1>9. /\ 1 \in Gifts(U[c], u) /\ U[c][1] = m
      /\ a = A[c][u] /\ a # c /\ a \in User /\ Gifts(D[c], u) = {}
  <2>1. 1 \in Gifts(U[c], u) /\ U[c][1] = m
    BY <1>3, <1>4 DEF Gifts
  <2>2. U[c][1].authority = A[c][u] /\ A[c][u] # c /\ Gifts(D[c], u) = {}
    BY <1>5, <2>1 DEF Told
  <2> QED
    BY <1>1, <1>4, <2>1, <2>2 DEF a
<1>10. \A d \in User : \A i \in Gifts(U[d], u) : i \in Up(User, U, u, d)
  <2> SUFFICES ASSUME NEW d \in User, NEW i \in Gifts(U[d], u) PROVE i \in Up(User, U, u, d)
    OBVIOUS
  <2>1. i \in 1..Len(U[d]) /\ IsGift(U[d][i], u)
    BY DEF Gifts
  <2>2. U[d][i].authority \in User \ {d}
    BY <1>1, <1>4, <1>5, <2>1 DEF Told
  <2> QED
    BY <2>1, <2>2 DEF Up, Delegates, IsGift
<1>11. /\ \A d \in User : A[d][u] # d /\ Down(D, u, d) = {}
       /\ \A d \in User : \A i \in Gifts(U[d], u) : d = c /\ i = 1
  BY <1>5, <1>9, <1>10 DEF Unique
<1>12. \A d \in User : Gifts(U2[d], u) = {}
  <2>1. \A d \in User : d # c => Gifts(U2[d], u) = {}
    BY <1>2, <1>11
  <2>2. ASSUME NEW i \in Gifts(U2[c], u) PROVE FALSE
    <3>1. i \in 1..Len(t) /\ i + 1 \in Gifts(U[c], u)
      BY <1>2, <1>3, <2>2 DEF Gifts
    <3>2. i + 1 = 1 /\ i \in Nat /\ i >= 1
      BY <1>3, <1>11, <3>1
    <3> QED
      BY <3>2
  <2> QED
    BY <2>1, <2>2
<1>13. ASSUME NEW d \in User, d # c, NEW i \in Gifts(D2[d], u), D2[d][i].authority = d
       PROVE  i = Len(D[d]) + 1
  <2>1. i \in 1..Len(D[d]) \/ i = Len(D[d]) + 1
    BY <1>1, <1>6, <1>13 DEF Gifts
  <2>2. i \notin 1..Len(D[d])
    <3> SUFFICES ASSUME i \in 1..Len(D[d]) PROVE i \in Down(D, u, d)
      BY <1>11
    <3>1. IsGift(D[d][i], u) /\ D[d][i].authority = d
      BY <1>6, <1>13 DEF Gifts
    <3> QED
      BY <3>1 DEF Down, Delegates, IsGift
  <2> QED
    BY <2>1, <2>2
<1>14. Told(U2, D2, A, R2, u)
  <2> SUFFICES ASSUME NEW d \in User
               PROVE  /\ \A i \in Gifts(D2[d], u) :
                            D2[d][i].authority = d => \A k \in Gifts(D2[d], u) : k <= i
                      /\ Sees(D2[d], Len(D2[d]), A[d][u], u, a)
    BY <1>4, <1>11, <1>12 DEF Told
  <2>1. CASE d = c
    BY <1>2, <1>9, <2>1 DEF Sees, Gifts
  <2>2. CASE d # c
    <3>1. Sees(D2[d], Len(D2[d]), A[d][u], u, a)
      <4>1. Sees(Append(D[d], m), Len(D[d]) + 1, A[d][u], u, m.authority)
        BY <1>1, <1>3, <1>4, SeesAppend
      <4> QED
        BY <1>2, <1>6, <2>2, <4>1 DEF a
    <3>2. \A k \in Gifts(D2[d], u) : k <= Len(D[d]) + 1
      BY <1>1, <1>6, <2>2 DEF Gifts
    <3> QED
      BY <1>13, <2>2, <3>1, <3>2
  <2> QED
    BY <2>1, <2>2
<1> QED
  BY <1>8, <1>14 DEF AllTold

\* Packets without a gift: what is appended to a channel or taken from its head
\* when no authority changes hands.
Giftless(ps) == \A i \in 1..Len(ps) : ps[i].type # "DELEGATE_AUTHORITY"

Moves(s2, s) ==
    \/ s2 = s
    \/ \E ps \in Seq(Packet) : Giftless(ps) /\ s2 = s \o ps
    \/ s # <<>> /\ Head(s).type # "DELEGATE_AUTHORITY" /\ s2 = Tail(s)

LEMMA MovesAlike ==
  ASSUME NEW s2, NEW s \in Seq(Packet), Moves(s2, s)
  PROVE  Len(s2) \in Nat /\ \A u \in User : Alike(s2, s, u)
<1>1. CASE s2 = s
  BY <1>1, AlikeSame, LenProperties
<1>2. ASSUME NEW ps \in Seq(Packet), Giftless(ps), s2 = s \o ps
      PROVE  Len(s2) \in Nat /\ \A u \in User : Alike(s2, s, u)
  <2>1. \A u : \A i \in 1..Len(ps) : ~IsGift(ps[i], u)
    BY <1>2 DEF Giftless, IsGift
  <2>2. Len(s2) \in Nat
    BY <1>2, Joined
  <2> QED
    BY <1>2, <2>1, <2>2, AlikeConcat
<1>3. CASE s # <<>> /\ Head(s).type # "DELEGATE_AUTHORITY" /\ s2 = Tail(s)
  <2>1. \A u : ~IsGift(Head(s), u)
    BY <1>3 DEF IsGift
  <2>2. Len(s2) \in Nat
    BY <1>3, QueueParts, LenProperties
  <2> QED
    BY <1>3, <2>1, <2>2, AlikeTail
<1> QED
  BY <1>1, <1>2, <1>3 DEF Moves

LEMMA ToldMoves ==
  ASSUME NEW U, NEW D, NEW A, NEW R, NEW U2, NEW D2, Channels(U, D, A),
         AllTold(U, D, A, R), \A c \in User : Moves(U2[c], U[c]) /\ Moves(D2[c], D[c])
  PROVE  AllTold(U2, D2, A, R)
<1>1. \A c \in User : U[c] \in Seq(Packet) /\ D[c] \in Seq(Packet)
  BY DEF Channels
<1>2. \A c \in User : /\ Len(U2[c]) \in Nat /\ \A u \in User : Alike(U2[c], U[c], u)
                      /\ Len(D2[c]) \in Nat /\ \A u \in User : Alike(D2[c], D[c], u)
  BY <1>1, MovesAlike
<1>3. ASSUME NEW u \in User PROVE Told(U2, D2, A, R, u)
  <2>1. Told(U, D, A, R, u)
    BY DEF AllTold
  <2> QED
    BY <1>2, <2>1, ToldAlike
<1> QED
  BY <1>3 DEF AllTold

\* client::change_input_authority keeps what the others will see true.
LEMMA ChangeTold ==
  ASSUME NEW D, NEW R, Channels(up, D, auth), AllTold(up, D, auth, R),
         NEW c \in User, NEW u \in User, NEW a \in User, ChangeAuthority(c, u, a)
  PROVE  AllTold(up', D, auth', R)
<1>1. CASE auth[c][u] = a
  <2>1. up' = up /\ auth' = auth
    BY <1>1 DEF ChangeAuthority
  <2> QED
    BY <2>1
<1>2. CASE auth[c][u] # a /\ auth[c][u] = c
  <2>1. a # c /\ GiveMove(c, u, a, up, auth, up', auth')
    BY <1>2 DEF ChangeAuthority, GiveMove
  <2> QED
    BY <1>2, <2>1, ToldGive
<1>3. CASE auth[c][u] # a /\ auth[c][u] # c
  <2> DEFINE m == Request(u, a)
  <2>1. m \in Packet /\ m.type # "DELEGATE_AUTHORITY"
    BY DEF Request, Packet, AuthorityPacket
  <2>2. auth' = auth /\ up' = [up EXCEPT ![c] = Append(@, m)]
    BY <1>3 DEF ChangeAuthority
  <2> HIDE DEF m
  <2>3. up \in [User -> Seq(Packet)]
    BY DEF Channels
  <2>4. /\ <<m>> \in Seq(Packet) /\ Giftless(<<m>>)
        /\ Append(up[c], m) = up[c] \o <<m>>
    BY <2>1, <2>3, Appended DEF Giftless
  <2>5. \A d \in User : Moves(up'[d], up[d]) /\ Moves(D[d], D[d])
    BY <2>2, <2>3, <2>4 DEF Moves
  <2> QED
    BY <2>2, <2>5, ToldMoves
<1> QED
  BY <1>1, <1>2, <1>3

\* A client's inputs go up, and no authority changes hands.
LEMMA SendTold ==
  ASSUME TypeOK, NEW D, NEW A, NEW R, Channels(up, D, A), AllTold(up, D, A, R),
         NEW c \in User, NEW u \in User, NEW vs \in Seq(Input), SendInputs(c, u, <<>>, vs)
  PROVE  AllTold(up', D, A, R)
<1> DEFINE ps == Packets(u, log[c][u], vs)
<1>1. up \in [User -> Seq(Packet)] /\ log[c][u] \in Seq(Input)
  BY DEF TypeOK
<1>2. ps \in Seq(Packet) /\ Giftless(ps)
  BY <1>1, PacketsType DEF Giftless
<1>3. up' = [up EXCEPT ![c] = @ \o <<>> \o ps]
  BY DEF SendInputs
<1> HIDE DEF ps
<1>4. up[c] \o <<>> = up[c]
  BY <1>1, ConcatEmptySeq
<1>5. \A d \in User : up'[d] = IF d = c THEN up[c] \o ps ELSE up[d]
  BY <1>1, <1>3, <1>4
<1>6. \A d \in User : Moves(up'[d], up[d]) /\ Moves(D[d], D[d])
  BY <1>2, <1>5 DEF Moves
<1> QED
  BY <1>6, ToldMoves

\* The server passes inputs on, and no authority changes hands.
LEMMA RelayTold ==
  ASSUME TypeOK, NEW U, NEW A, NEW R, Channels(U, down, A), AllTold(U, down, A, R),
         NEW c \in User, NEW m \in InputPacket, RelayInputs(c, m)
  PROVE  AllTold(U, down', A, R)
<1> DEFINE fresh == IF m.user \in members THEN Fresh(m, srvLog[m.user]) ELSE <<>>
           ps == Packets(m.user, srvLog[m.user], fresh)
<1>1. m.user \in User /\ srvLog[m.user] \in Seq(Input) /\ down \in [User -> Seq(Packet)]
  BY DEF TypeOK, InputPacket
<1>2. fresh \in Seq(Input)
  BY <1>1, FreshType, EmptySeq
<1>3. SendAll(members \ {c}, ps)
  BY DEF RelayInputs
<1> HIDE DEF fresh
<1>4. ps \in Seq(Packet) /\ Giftless(ps)
  BY <1>1, <1>2, PacketsType DEF Giftless
<1> HIDE DEF ps
<1>5. \A d \in User : down'[d] = down[d] \o ps \/ down'[d] = down[d]
  BY <1>1, <1>3 DEF SendAll
<1>6. \A d \in User : Moves(down'[d], down[d]) /\ Moves(U[d], U[d])
  BY <1>4, <1>5 DEF Moves
<1> QED
  BY <1>6, ToldMoves

ToldNow == AllTold(up, down, auth, srvAuth)

\* What a client does keeps it; nobody is told that anyone quit.
LEMMA ToldClient ==
  ASSUME StreamInv, TypeOK', members = User, ToldNow,
         NEW c \in User, Emulate(c) \/ Command(c) \/ Receive(c) \/ ReceiveDatagram(c)
  PROVE  ToldNow'
<1> USE DEF serverVars, inputVars, controlVars, ToldNow
<1> DEFINE m == Head(down[c])
<1>1. /\ TypeOK /\ QuitOrder /\ NoFalseQuit(members, down)
      /\ down \in [User -> Seq(Packet)] /\ auth \in [User -> [User -> User]]
      /\ up \in [User -> Seq(Packet)] /\ todo \in [User -> SUBSET (User \X User)]
      /\ Channels(up, down, auth) /\ <<>> \in Seq(Packet)
  BY EmptySeq DEF StreamInv, StreamsNow, Streams, TypeOK, Channels
<1>2. CASE UNCHANGED <<up, down, auth, srvAuth>>
  BY <1>2
<1>3. ASSUME NEW u \in User, SendInput(c, u) PROVE ToldNow'
  <2>1. PICK v \in Input : SendInputs(c, u, <<>>, <<v>>)
    BY <1>3 DEF SendInput
  <2>2. <<v>> \in Seq(Input)
    OBVIOUS
  <2> DEFINE vs == <<v>>
  <2>3. vs \in Seq(Input) /\ SendInputs(c, u, <<>>, vs)
    BY <2>1, <2>2
  <2> HIDE DEF vs
  <2>4. UNCHANGED <<down, auth, srvAuth>>
    BY <1>3 DEF SendInput
  <2> QED
    BY <1>1, <2>3, <2>4, SendTold
<1>4. CASE ChangeNext(c)
  <2>1. PICK call \in todo[c] : ChangeAuthority(c, call[1], call[2])
    BY <1>4 DEF ChangeNext
  <2>2. call[1] \in User /\ call[2] \in User
    BY <1>1
  <2>3. UNCHANGED <<down, srvAuth>>
    BY <1>4 DEF ChangeNext
  <2> QED
    BY <1>1, <2>1, <2>2, <2>3, ChangeTold
<1>5. ASSUME NEW u \in User, NEW a \in User, AuthCommand(c, u, a) PROVE ToldNow'
  <2>1. ChangeAuthority(c, u, a) /\ UNCHANGED <<down, srvAuth>>
    BY <1>5 DEF AuthCommand
  <2> QED
    BY <1>1, <2>1, ChangeTold
<1>6. CASE ReceiveDatagram(c)
  <2>1. PICK n \in downUdp[c] : AcceptInputs(c, n)
    BY <1>6 DEF ReceiveDatagram
  <2>2. UNCHANGED <<down, srvAuth>> /\ n.user \in User
    BY <1>1, <1>6 DEF ReceiveDatagram, TypeOK, InputPacket
  <2>3. ChangeAuthority(c, c, n.user) \/ (auth' = auth /\ up' = up)
    BY <2>1 DEF AcceptInputs
  <2>4. CASE auth' = auth /\ up' = up
    BY <2>2, <2>4
  <2> QED
    BY <1>1, <2>2, <2>3, <2>4, ChangeTold
<1>7. ASSUME down[c] # <<>>, down' = [down EXCEPT ![c] = Tail(@)]
      PROVE  /\ m \in Packet /\ m.user \in User /\ m.type # "QUIT"
             /\ m.type = "DELEGATE_AUTHORITY" => {m.user, m.authority} \subseteq present[c]
             /\ down' \in [User -> Seq(Packet)]
             /\ m.type # "DELEGATE_AUTHORITY" =>
                   Channels(up, down', auth) /\ AllTold(up, down', auth, srvAuth)
  <2>1. m \in Packet /\ m.user \in User
    BY <1>1, <1>7, QueueParts, PacketParts
  <2>2. m.type # "QUIT"
    <3>1. m = down[c][1] /\ 1 \in 1..Len(down[c])
      BY <1>1, <1>7, Tailed
    <3> QED
      BY <1>1, <2>1, <3>1 DEF NoFalseQuit
  <2>3. m.type = "DELEGATE_AUTHORITY" => {m.user, m.authority} \subseteq present[c]
    BY <1>1, <1>7, SoundTail DEF QuitOrder, Names
  <2>4. down' \in [User -> Seq(Packet)]
    BY DEF TypeOK
  <2>5. ASSUME m.type # "DELEGATE_AUTHORITY"
        PROVE  Channels(up, down', auth) /\ AllTold(up, down', auth, srvAuth)
    <3>1. TakeMove(c, down, auth, down', auth)
      BY <1>7, <2>5 DEF TakeMove
    <3> QED
      BY <1>1, <2>4, <3>1, ToldTake DEF Channels
  <2> QED
    BY <2>1, <2>2, <2>3, <2>4, <2>5
<1>8. CASE ReceiveInput(c)
  <2>1. /\ down[c] # <<>> /\ down' = [down EXCEPT ![c] = Tail(@)]
        /\ m.type = "INPUT_DATA" /\ AcceptInputs(c, m) /\ srvAuth' = srvAuth
    BY <1>8 DEF ReceiveInput, Receives, Consume
  <2>2. m.user \in User /\ Channels(up, down', auth) /\ AllTold(up, down', auth, srvAuth)
    BY <1>7, <2>1
  <2> HIDE DEF m
  <2>3. ChangeAuthority(c, c, m.user) \/ (auth' = auth /\ up' = up)
    <3>1. AcceptInputs(c, m)
      BY <2>1
    <3> QED
      BY <3>1 DEF AcceptInputs
  <2>4. CASE ChangeAuthority(c, c, m.user)
    BY <2>1, <2>2, <2>4, ChangeTold
  <2>5. CASE auth' = auth /\ up' = up
    BY <2>1, <2>2, <2>5
  <2> QED
    BY <2>3, <2>4, <2>5
<1>9. CASE ReceiveRequest(c)
  <2>1. /\ down[c] # <<>> /\ down' = [down EXCEPT ![c] = Tail(@)]
        /\ m.type = "REQUEST_AUTHORITY" /\ srvAuth' = srvAuth
        /\ ChangeAuthority(c, m.user, m.authority) \/ (auth' = auth /\ up' = up)
    BY <1>9 DEF ReceiveRequest, Receives, Consume
  <2>2. /\ m.user \in User /\ m.authority \in User
        /\ Channels(up, down', auth) /\ AllTold(up, down', auth, srvAuth)
    BY <1>7, <2>1, PacketParts
  <2> HIDE DEF m
  <2>3. CASE ChangeAuthority(c, m.user, m.authority)
    BY <2>1, <2>2, <2>3, ChangeTold
  <2>4. CASE auth' = auth /\ up' = up
    BY <2>1, <2>2, <2>4
  <2> QED
    BY <2>1, <2>3, <2>4
<1>10. CASE ReceiveDelegate(c)
  <2>1. /\ down[c] # <<>> /\ down' = [down EXCEPT ![c] = Tail(@)]
        /\ m.type = "DELEGATE_AUTHORITY" /\ srvAuth' = srvAuth
    BY <1>10 DEF ReceiveDelegate, Receives, Consume
  <2>2. {m.user, m.authority} \subseteq present[c] /\ m.user \in User
    BY <1>7, <2>1
  <2>3. /\ auth' = [auth EXCEPT ![c][m.user] = m.authority]
        /\ \/ up' = up
           \/ \E v \in Input : SendInputs(c, m.user, <<>>, <<v, v>>)
    BY <1>10, <2>2 DEF ReceiveDelegate
  <2>4. AllTold(up, down', auth', srvAuth)
    <3>1. TakeMove(c, down, auth, down', auth')
      BY <2>1, <2>3 DEF TakeMove
    <3> QED
      BY <1>1, <3>1, ToldTake
  <2>5. Channels(up, down', auth')
    BY <1>1 DEF Channels, TypeOK
  <2> HIDE DEF m
  <2>6. CASE up' = up
    BY <2>1, <2>4, <2>6
  <2>7. ASSUME NEW v \in Input, SendInputs(c, m.user, <<>>, <<v, v>>) PROVE ToldNow'
    <3> DEFINE vs == <<v, v>>
    <3>1. vs \in Seq(Input) /\ SendInputs(c, m.user, <<>>, vs)
      BY <2>7
    <3> HIDE DEF vs
    <3> QED
      BY <1>1, <2>1, <2>2, <2>4, <2>5, <3>1, SendTold
  <2> QED
    BY <2>3, <2>6, <2>7
<1>11. CASE ReceiveQuit(c)
  <2>1. /\ down[c] # <<>> /\ down' = [down EXCEPT ![c] = Tail(@)] /\ m.type = "QUIT"
    BY <1>11 DEF ReceiveQuit, Receives, Consume
  <2> QED
    BY <1>7, <2>1
<1>12. \/ UNCHANGED <<up, down, auth, srvAuth>> \/ \E u \in User : SendInput(c, u)
       \/ ChangeNext(c) \/ \E u, a \in User : AuthCommand(c, u, a)
       \/ Receive(c) \/ ReceiveDatagram(c)
  BY DEF Emulate, Command, ProcessInput, GolfSwing, FinishInput, TakeInput, GolfCommand
<1> QED
  BY <1>2, <1>3, <1>4, <1>5, <1>6, <1>8, <1>9, <1>10, <1>11, <1>12 DEF Receive

\* What the server does keeps it.
LEMMA ToldServer ==
  ASSUME StreamInv, TypeOK', members = User, ToldNow,
         NEW c \in User, Serve(c) \/ ServerDatagram(c)
  PROVE  ToldNow'
<1> USE DEF serverVars, inputVars, controlVars, ToldNow
<1> DEFINE m == Head(up[c])
<1>1. /\ TypeOK /\ up \in [User -> Seq(Packet)] /\ down \in [User -> Seq(Packet)]
      /\ Channels(up, down, auth) /\ srvAuth \in [User -> User]
      /\ \A u \in User : Unique(User, up, down, auth, u)
  BY DEF StreamInv, StreamsNow, Streams, Authority, Settled, TypeOK, Channels
<1>2. CASE ServerDatagram(c)
  <2>1. PICK n \in upUdp[c] : RelayInputs(c, n)
    BY <1>2 DEF ServerDatagram
  <2>2. n \in InputPacket /\ UNCHANGED <<up, auth, srvAuth>>
    BY <1>1, <1>2 DEF ServerDatagram, TypeOK
  <2> QED
    BY <1>1, <2>1, <2>2, RelayTold
<1>3. CASE Serve(c)
  <2>1. /\ up[c] # <<>> /\ up' = [up EXCEPT ![c] = Tail(@)] /\ auth' = auth
    BY <1>3 DEF Serve, ServerInput, ServerDelegate, ServerRequest, Handles
  <2>2. m \in Packet /\ m.user \in User
    BY <1>1, <2>1, QueueParts, PacketParts
  <2>3. ASSUME m.type # "DELEGATE_AUTHORITY"
        PROVE  AllTold(up', down, auth, srvAuth) /\ Channels(up', down, auth)
    <3>1. \A d \in User : Moves(up'[d], up[d]) /\ Moves(down[d], down[d])
      BY <1>1, <2>1, <2>3 DEF Moves
    <3>2. Channels(up', down, auth)
      BY <1>1 DEF TypeOK, Channels
    <3> QED
      BY <1>1, <3>1, <3>2, ToldMoves
  <2>4. CASE ServerInput(c)
    <3>1. m.type = "INPUT_DATA" /\ RelayInputs(c, m) /\ srvAuth' = srvAuth
      BY <2>4 DEF ServerInput, Handles
    <3>2. m \in InputPacket
      BY <2>2, <3>1, PacketParts
    <3> HIDE DEF m
    <3> QED
      BY <1>1, <2>1, <2>3, <3>1, <3>2, RelayTold
  <2>5. CASE ServerRequest(c)
    <3>1. /\ m.type = "REQUEST_AUTHORITY" /\ srvAuth' = srvAuth
          /\ SendAll(members \ {c}, <<m>>) \/ down' = down
      BY <2>5 DEF ServerRequest, Handles
    <3> HIDE DEF m
    <3>2. /\ <<m>> \in Seq(Packet) /\ Giftless(<<m>>)
      BY <2>2, <3>1, Appended DEF Giftless
    <3>3. \A d \in User : down'[d] = down[d] \o <<m>> \/ down'[d] = down[d]
      BY <1>1, <3>1 DEF SendAll
    <3>4. \A d \in User : Moves(up'[d], up'[d]) /\ Moves(down'[d], down[d])
      BY <3>2, <3>3 DEF Moves
    <3> QED
      BY <2>1, <2>3, <3>1, <3>4, ToldMoves
  <2>6. CASE ServerDelegate(c)
    <3>1. m.type = "DELEGATE_AUTHORITY"
      BY <2>6 DEF ServerDelegate, Handles
    <3>2. m.authority \in User
      BY <2>2, <3>1, PacketParts
    <3>3. /\ srvAuth' = [srvAuth EXCEPT ![m.user] = m.authority]
          /\ SendAll(members \ {c}, <<m>>)
      BY <2>2, <2>6, <3>2 DEF ServerDelegate
    <3>4. \A w \in User : srvAuth'[w] = IF w = m.user THEN m.authority ELSE srvAuth[w]
      BY <1>1, <3>3
    <3>5. down' = [d \in User |-> IF d \in User \ {c} THEN Append(down[d], m) ELSE down[d]]
      BY <1>1, <2>2, <3>3, SendOne
    <3>6. PassMove(User, c, up, down, up', down')
      BY <2>1, <3>5 DEF PassMove
    <3>7. Unique(User, up, down, auth, m.user)
      BY <1>1, <2>2
    <3>8. AllTold(up', down', auth, srvAuth')
      <4> DEFINE U2 == up'
                 D2 == down'
                 R2 == srvAuth'
      <4>1. /\ Channels(up, down, auth) /\ AllTold(up, down, auth, srvAuth)
            /\ PassMove(User, c, up, down, U2, D2)
            /\ Head(up[c]).type = "DELEGATE_AUTHORITY"
            /\ \A w \in User : R2[w] = IF w = Head(up[c]).user THEN Head(up[c]).authority
                                       ELSE srvAuth[w]
            /\ Unique(User, up, down, auth, Head(up[c]).user)
        BY <1>1, <3>1, <3>4, <3>6, <3>7
      <4> HIDE DEF U2, D2, R2
      <4>2. AllTold(U2, D2, auth, R2)
        BY <4>1, ToldPass
      <4> QED
        BY <4>2 DEF U2, D2, R2
    <3> QED
      BY <2>1, <3>8
  <2> QED
    BY <1>3, <2>4, <2>5, <2>6 DEF Serve
<1> QED
  BY <1>2, <1>3

ToldInv == members = User => ToldNow

LEMMA ToldStep ==
  ASSUME StreamInv, TypeOK', ToldInv, [Next]_vars
  PROVE  ToldInv'
<1> USE DEF serverVars, inputVars, controlVars
<1> SUFFICES ASSUME members' = User PROVE ToldNow'
  BY DEF ToldInv
<1>1. CASE UNCHANGED vars
  BY <1>1 DEF vars, ToldInv, ToldNow
<1>2. ASSUME NEW c \in User,
             Emulate(c) \/ Receive(c) \/ Serve(c) \/ ReceiveUdp(c) \/ Command(c)
      PROVE  ToldNow'
  <2>1. members' = members
    <3>1. Emulate(c) \/ Command(c) => members' = members
      BY DEF Emulate, ProcessInput, SendInput, GolfSwing, ChangeNext, FinishInput, TakeInput,
             Command, GolfCommand, AuthCommand
    <3>2. Receive(c) => members' = members
      BY DEF Receive, ReceiveInput, ReceiveDelegate, ReceiveRequest, ReceiveQuit
    <3>3. Serve(c) => members' = members
      BY DEF Serve, ServerInput, ServerDelegate, ServerRequest
    <3>4. ReceiveUdp(c) => members' = members
      BY DEF ReceiveUdp, ReceiveDatagram, ReceiveOrphanDatagram, ServerDatagram
    <3> QED
      BY <1>2, <3>1, <3>2, <3>3, <3>4
  <2>2. members = User /\ ToldNow
    BY <2>1 DEF ToldInv
  <2>3. CASE ReceiveOrphanDatagram(c)
    BY <2>2, <2>3 DEF ReceiveOrphanDatagram, ToldNow
  <2> QED
    BY <1>2, <2>2, <2>3, ToldClient, ToldServer DEF ReceiveUdp
<1>3. ASSUME NEW c \in User, ServerQuit(c) PROVE FALSE
  BY <1>3 DEF ServerQuit
<1> QED
  BY <1>1, <1>2, <1>3 DEF Next, Finished

(* When everything sent over TCP was handled and nobody has left, all the  *)
(* clients and the server agree on who has authority over whom, however    *)
(* delegations and requests crossed: a newcomer is told by the server, and *)
(* the client that gave an authority away already knows.                   *)
THEOREM QuietAuthorityAlways == Spec => []QuietAuthority
<1>1. Init => ToldInv
  <2> SUFFICES ASSUME Init PROVE ToldNow
    BY DEF ToldInv
  <2>1. Len(<<>>) = 0
    BY EmptySeq
  <2>2. \A c \in User : /\ up[c] = <<>> /\ down[c] = <<>>
                        /\ \A u \in User : auth[c][u] = u /\ srvAuth[u] = u
    BY DEF Init
  <2>3. \A c, u \in User : Gifts(up[c], u) = {} /\ Gifts(down[c], u) = {}
    BY <2>1, <2>2 DEF Gifts
  <2>4. \A c, u \in User : Sees(down[c], Len(down[c]), auth[c][u], u, srvAuth[u])
    BY <2>1, <2>2 DEF Sees
  <2> QED
    BY <2>3, <2>4 DEF ToldNow, AllTold, Told
<1>2. StreamInv /\ StreamInv' /\ ToldInv /\ [Next]_vars => ToldInv'
  BY ToldStep DEF StreamInv
<1>3. ToldInv => QuietAuthority
  <2> SUFFICES ASSUME ToldInv, Quiet, members = User, NEW c \in User, NEW u \in User
               PROVE  auth[c][u] = srvAuth[u]
    BY DEF QuietAuthority
  <2>1. Told(up, down, auth, srvAuth, u)
    BY DEF ToldInv, ToldNow, AllTold
  <2>2. up[c] = <<>> /\ down[c] = <<>>
    BY DEF Quiet
  <2>3. Len(<<>>) = 0
    BY EmptySeq
  <2>4. Gifts(up[c], u) = {}
    BY <2>2, <2>3 DEF Gifts
  <2>5. Sees(down[c], Len(down[c]), auth[c][u], u, srvAuth[u])
    BY <2>1, <2>4 DEF Told
  <2> QED
    BY <2>2, <2>3, <2>5 DEF Sees
<1> QED
  BY <1>1, <1>2, <1>3, StreamInvAlways, PTL DEF Spec

-----------------------------------------------------------------------------
(* A stream always has a producer or gets one.                              *)

\* The gifts of u in s2 are gifts in s, after k packets have gone.
Later(s2, s, u) ==
    \E k \in {0, 1} : \A i \in Gifts(s2, u) : i + k \in Gifts(s, u) /\ s2[i] = s[i + k]

\* Nobody but c has anything to say about who has authority over u.
Sole(M, U, u, c) == \A d \in M \ {c} : Delegates(U[d], u, M) = {}

\* Whoever has the authority over u, or will give or get it, knows the last.
LastWord(M, U, D, A, u, c) ==
    /\ A[c][u] = c => Sole(M, U, u, c) /\ Gifts(D[c], u) = {}
    /\ \A i \in Down(D, u, c) : Sole(M, U, u, c) /\ \A k \in Gifts(D[c], u) : k <= i
    /\ \A i \in Up(M, U, u, c) : Sole(M, U, u, c) /\ \A k \in Delegates(U[c], u, M) : k <= i

\* The QUIT that makes the owner, which has view v, take u back is in s.
Back(s, v, u) ==
    \E i \in 1..Len(s) : s[i].type = "QUIT" /\ Sees(s, i - 1, v, u, s[i].user)

Somewhere(M, U, D, A, u) ==
    \E c \in M : A[c][u] = c \/ Up(M, U, u, c) # {} \/ Down(D, u, c) # {}

Produced(M, U, D, A, u) == Somewhere(M, U, D, A, u) \/ Back(D[u], A[u][u], u)

Producing(M, U, D, A) ==
    \A u \in User : /\ \A c \in M : LastWord(M, U, D, A, u, c)
                    /\ u \in M => Produced(M, U, D, A, u)

LEMMA GiftsDelegated ==
  ASSUME NEW s, NEW u, NEW a, NEW i
  PROVE  i \in Delegates(s, u, a) <=> i \in Gifts(s, u) /\ s[i].authority \in a
BY DEF Delegates, Gifts, IsGift

LEMMA LaterDelegates ==
  ASSUME NEW s2, NEW s, NEW u, NEW a2, NEW a, Later(s2, s, u), a2 \subseteq a
  PROVE  \E k \in {0, 1} : /\ \A i \in Delegates(s2, u, a2) : i + k \in Delegates(s, u, a)
                           /\ \A i \in Gifts(s2, u) : i + k \in Gifts(s, u)
<1> PICK k \in {0, 1} : \A i \in Gifts(s2, u) : i + k \in Gifts(s, u) /\ s2[i] = s[i + k]
  BY DEF Later
<1>1. ASSUME NEW i \in Delegates(s2, u, a2) PROVE i + k \in Delegates(s, u, a)
  <2>1. i \in Gifts(s2, u) /\ s2[i].authority \in a2
    BY GiftsDelegated
  <2>2. i + k \in Gifts(s, u) /\ s[i + k].authority \in a
    BY <2>1
  <2> QED
    BY <2>2, GiftsDelegated
<1> QED
  BY <1>1

LEMMA LastWordKept ==
  ASSUME NEW M, NEW U, NEW D, NEW A, NEW M2, NEW U2, NEW D2, NEW A2, NEW u, NEW c \in M2,
         M2 \subseteq M, LastWord(M, U, D, A, u, c),
         \A d \in M2 : Later(U2[d], U[d], u), Later(D2[c], D[c], u),
         A2[c][u] = c => A[c][u] = c
  PROVE  LastWord(M2, U2, D2, A2, u, c)
<1>1. Sole(M, U, u, c) => Sole(M2, U2, u, c)
  <2> SUFFICES ASSUME Sole(M, U, u, c), NEW d \in M2 \ {c}, NEW i \in Delegates(U2[d], u, M2)
               PROVE  FALSE
    BY DEF Sole
  <2>1. \E k \in {0, 1} : i + k \in Delegates(U[d], u, M)
    BY LaterDelegates
  <2> QED
    BY <2>1 DEF Sole
<1>2. Gifts(D[c], u) = {} => Gifts(D2[c], u) = {}
  BY DEF Later
<1>3. \A i \in Gifts(D2[c], u) : i \in Int
  BY DEF Gifts
<1>4. ASSUME NEW i \in Down(D2, u, c)
      PROVE  Sole(M2, U2, u, c) /\ \A k \in Gifts(D2[c], u) : k <= i
  <2>1. PICK n \in {0, 1} : /\ \A j \in Delegates(D2[c], u, {c}) : j + n \in Delegates(D[c], u, {c})
                            /\ \A j \in Gifts(D2[c], u) : j + n \in Gifts(D[c], u)
    BY LaterDelegates
  <2>2. i + n \in Down(D, u, c) /\ i \in Gifts(D2[c], u)
    BY <1>4, <2>1, GiftsDelegated DEF Down
  <2>3. ASSUME NEW k \in Gifts(D2[c], u) PROVE k <= i
    <3>1. k + n <= i + n
      BY <2>1, <2>2 DEF LastWord
    <3> QED
      BY <1>3, <2>2, <3>1
  <2> QED
    BY <1>1, <2>2, <2>3 DEF LastWord
<1>5. ASSUME NEW i \in Up(M2, U2, u, c)
      PROVE  Sole(M2, U2, u, c) /\ \A k \in Delegates(U2[c], u, M2) : k <= i
  <2>1. PICK n \in {0, 1} : \A j \in Gifts(U2[c], u) : j + n \in Gifts(U[c], u) /\ U2[c][j] = U[c][j + n]
    BY DEF Later
  <2>2. i \in Gifts(U2[c], u) /\ U2[c][i].authority \in M2 \ {c}
    BY <1>5, GiftsDelegated DEF Up
  <2>3. i + n \in Gifts(U[c], u) /\ U[c][i + n].authority \in M \ {c}
    BY <2>1, <2>2
  <2>4. i + n \in Up(M, U, u, c)
    BY <2>3, GiftsDelegated DEF Up
  <2>5. ASSUME NEW k \in Delegates(U2[c], u, M2) PROVE k <= i
    <3>1. k \in Gifts(U2[c], u) /\ U2[c][k].authority \in M2
      BY GiftsDelegated
    <3>2. k + n \in Delegates(U[c], u, M)
      BY <2>1, <3>1, GiftsDelegated
    <3>3. k + n <= i + n
      BY <2>4, <3>2 DEF LastWord
    <3>4. k \in Int /\ i \in Int
      BY <2>2, <3>1 DEF Gifts
    <3> QED
      BY <3>3, <3>4
  <2> QED
    BY <1>1, <2>4, <2>5 DEF LastWord
<1> QED
  BY <1>1, <1>2, <1>4, <1>5 DEF LastWord

LEMMA AlikeLater ==
  ASSUME NEW s2, NEW s, NEW u, Alike(s2, s, u)
  PROVE  Later(s2, s, u)
<1>1. \A i \in Gifts(s2, u) : i \in Int
  BY DEF Gifts
<1> QED
  BY <1>1 DEF Alike, Later

LEMMA AlikeDelegates ==
  ASSUME NEW s2, NEW s, NEW u, NEW a, Alike(s2, s, u), Delegates(s, u, a) # {}
  PROVE  Delegates(s2, u, a) # {}
<1> PICK i : i \in Delegates(s, u, a)
  OBVIOUS
<1>1. i \in Gifts(s, u) /\ s[i].authority \in a /\ i \in Int
  BY GiftsDelegated DEF Gifts
<1>2. PICK k \in {0, 1} : /\ \A j \in Int : j \in Gifts(s2, u) <=> j + k \in Gifts(s, u)
                          /\ \A j \in Gifts(s2, u) : s2[j] = s[j + k]
  BY DEF Alike
<1>3. i - k \in Int /\ (i - k) + k = i
  BY <1>1
<1>4. i - k \in Gifts(s2, u) /\ s2[i - k] = s[i]
  BY <1>1, <1>2, <1>3
<1> QED
  BY <1>1, <1>4, GiftsDelegated

LEMMA TailLater ==
  ASSUME NEW s \in Seq(Packet), s # <<>>, NEW u
  PROVE  Later(Tail(s), s, u)
<1>1. \A i \in Gifts(Tail(s), u) : i + 1 \in Gifts(s, u) /\ Tail(s)[i] = s[i + 1]
  BY Tailed DEF Gifts
<1> QED
  BY <1>1 DEF Later

LEMMA BackConcat ==
  ASSUME NEW s \in Seq(Packet), NEW ps \in Seq(Packet), NEW v, NEW u, Back(s, v, u)
  PROVE  Back(s \o ps, v, u)
<1> DEFINE t == s \o ps
<1>1. Len(s) \in Nat /\ \A i \in 1..Len(s) : t[i] = s[i] /\ i \in 1..Len(t)
  BY Joined
<1> HIDE DEF t
<1> PICK i \in 1..Len(s) : s[i].type = "QUIT" /\ Sees(s, i - 1, v, u, s[i].user)
  BY DEF Back
<1>2. i - 1 \in Nat /\ \A j \in 1..i-1 : s[j] = t[j]
  <2>1. i - 1 \in Nat /\ \A j \in 1..i-1 : j \in 1..Len(s)
    BY <1>1
  <2> QED
    BY <1>1, <2>1
<1>3. Sees(t, i - 1, v, u, t[i].user) /\ t[i].type = "QUIT"
  BY <1>1, <1>2, SeesSame
<1>4. Back(t, v, u)
  BY <1>1, <1>3 DEF Back
<1> QED
  BY <1>4 DEF t

LEMMA BackTail ==
  ASSUME NEW s \in Seq(Packet), s # <<>>, NEW v, NEW u, Back(s, v, u),
         ~(Head(s).type = "QUIT" /\ Head(s).user = v)
  PROVE  Back(Tail(s), IF IsGift(Head(s), u) THEN Head(s).authority ELSE v, u)
<1> DEFINE t == Tail(s)
           w == IF IsGift(Head(s), u) THEN Head(s).authority ELSE v
<1>1. /\ Head(s) = s[1] /\ Len(s) \in Nat \ {0}
      /\ \A i \in 1..Len(s) : i # 1 => i - 1 \in 1..Len(t) /\ t[i - 1] = s[i]
  BY Tailed
<1> PICK i \in 1..Len(s) : s[i].type = "QUIT" /\ Sees(s, i - 1, v, u, s[i].user)
  BY DEF Back
<1>2. i # 1
  <2> SUFFICES ASSUME i = 1 PROVE FALSE
    OBVIOUS
  <2>1. Sees(s, 0, v, u, s[1].user) /\ s[1].type = "QUIT"
    BY <1>1
  <2>2. v = s[1].user
    BY <2>1 DEF Sees
  <2> QED
    BY <1>1, <2>1, <2>2
<1>3. i - 1 \in 1..Len(s)
  BY <1>1, <1>2
<1>4. Sees(t, (i - 1) - 1, w, u, s[i].user)
  BY <1>3, SeesTail
<1>5. i - 1 \in 1..Len(t) /\ t[i - 1] = s[i]
  BY <1>1, <1>2
<1> HIDE DEF t, w
<1>6. Back(t, w, u)
  BY <1>4, <1>5 DEF Back
<1> QED
  BY <1>6 DEF t, w

LEMMA ProducedKept ==
  ASSUME NEW M, NEW U, NEW D, NEW A, NEW M2, NEW U2, NEW D2, NEW A2, NEW u,
         Produced(M, U, D, A, u),
         \A c \in M : /\ A[c][u] = c => c \in M2 /\ A2[c][u] = c
                      /\ Up(M, U, u, c) # {} => c \in M2 /\ Up(M2, U2, u, c) # {}
                      /\ Down(D, u, c) # {} => c \in M2 /\ Down(D2, u, c) # {},
         Back(D[u], A[u][u], u) => Back(D2[u], A2[u][u], u)
  PROVE  Produced(M2, U2, D2, A2, u)
BY DEF Produced, Somewhere

\* Packets that move no authority leave it where it is.
LEMMA ProducingMoves ==
  ASSUME NEW M \in SUBSET User, NEW U, NEW D, NEW A, NEW U2, NEW D2, Channels(U, D, A),
         Producing(M, U, D, A),
         \A c \in User : Moves(U2[c], U[c]) /\ Moves(D2[c], D[c]),
         \A u \in M : Back(D[u], A[u][u], u) => Back(D2[u], A[u][u], u)
  PROVE  Producing(M, U2, D2, A)
<1>1. \A c \in User : U[c] \in Seq(Packet) /\ D[c] \in Seq(Packet)
  BY DEF Channels
<1>2. \A c \in User : \A u \in User : Alike(U2[c], U[c], u) /\ Alike(D2[c], D[c], u)
  BY <1>1, MovesAlike
<1>3. ASSUME NEW u \in User, NEW c \in M PROVE LastWord(M, U2, D2, A, u, c)
  <2>1. \A d \in M : Later(U2[d], U[d], u) /\ Later(D2[d], D[d], u)
    BY <1>2, AlikeLater
  <2>2. LastWord(M, U, D, A, u, c)
    BY DEF Producing
  <2> QED
    BY <2>1, <2>2, LastWordKept
<1>4. ASSUME NEW u \in User, u \in M PROVE Produced(M, U2, D2, A, u)
  <2>1. \A c \in M : /\ Up(M, U, u, c) # {} => Up(M, U2, u, c) # {}
                     /\ Down(D, u, c) # {} => Down(D2, u, c) # {}
    BY <1>2, AlikeDelegates DEF Up, Down
  <2>2. Produced(M, U, D, A, u)
    BY <1>4 DEF Producing
  <2> QED
    BY <1>4, <2>1, <2>2, ProducedKept
<1> QED
  BY <1>3, <1>4 DEF Producing

\* A client believes the gift at the head of its channel.
LEMMA ProducingTake ==
  ASSUME NEW M \in SUBSET User, NEW U, NEW D, NEW A, NEW D2, NEW A2, Channels(U, D, A),
         Producing(M, U, D, A), NEW c \in M, TakeMove(c, D, A, D2, A2),
         Head(D[c]).type = "DELEGATE_AUTHORITY"
  PROVE  Producing(M, U, D2, A2)
<1> DEFINE m == Head(D[c])
           t == Tail(D[c])
<1>1. /\ c \in User /\ \A d \in User : U[d] \in Seq(Packet) /\ D[d] \in Seq(Packet)
      /\ D[c] # <<>> /\ D2[c] = t /\ \A d \in User : d # c => D2[d] = D[d]
      /\ \A w \in User : A2[c][w] = IF IsGift(m, w) THEN m.authority ELSE A[c][w]
      /\ \A d \in User : d # c => A2[d] = A[d]
  BY DEF TakeMove, Channels, IsGift
<1>2. /\ m = D[c][1] /\ Len(D[c]) \in Nat \ {0}
      /\ \A i \in 1..Len(t) : t[i] = D[c][i + 1] /\ i + 1 \in 1..Len(D[c])
      /\ \A i \in 1..Len(D[c]) : i # 1 => i - 1 \in 1..Len(t) /\ t[i - 1] = D[c][i]
  BY <1>1, Tailed
<1>3. \A d \in M, u \in User : Later(U[d], U[d], u) /\ Later(D2[d], D[d], u)
  BY <1>1, TailLater, AlikeSame, AlikeLater
<1>4. \A w \in User : IsGift(m, w) => 1 \in Gifts(D[c], w)
  BY <1>2 DEF Gifts
<1>5. ASSUME NEW u \in User, Back(D[u], A[u][u], u) PROVE Back(D2[u], A2[u][u], u)
  <2>1. CASE u = c
    <3>1. m.type # "QUIT"
      OBVIOUS
    <3> QED
      BY <1>1, <1>5, <2>1, <3>1, BackTail
  <2>2. CASE u # c
    BY <1>1, <1>5, <2>2
  <2> QED
    BY <2>1, <2>2
<1> HIDE DEF m, t
<1>6. ASSUME NEW u \in User, NEW d \in M PROVE LastWord(M, U, D2, A2, u, d)
  <2>1. LastWord(M, U, D, A, u, d)
    BY DEF Producing
  <2>2. CASE A2[d][u] = d => A[d][u] = d
    BY <1>3, <2>1, <2>2, LastWordKept
  <2>3. CASE ~(A2[d][u] = d => A[d][u] = d)
    <3>1. d = c /\ IsGift(m, u) /\ m.authority = c
      BY <1>1, <2>3
    <3>2. 1 \in Down(D, u, c)
      BY <1>2, <1>4, <3>1, GiftsDelegated DEF Down
    <3>3. Sole(M, U, u, c) /\ \A k \in Gifts(D[c], u) : k <= 1
      BY <2>1, <3>1, <3>2 DEF LastWord
    <3>4. Gifts(D2[c], u) = {}
      <4> SUFFICES ASSUME NEW i \in Gifts(t, u) PROVE FALSE
        BY <1>1
      <4>1. i \in 1..Len(t) /\ i + 1 \in Gifts(D[c], u)
        BY <1>2 DEF Gifts
      <4>2. i + 1 <= 1 /\ i >= 1 /\ i \in Int
        BY <3>3, <4>1
      <4> QED
        BY <4>2
    <3>5. Down(D2, u, c) = {}
      BY <3>4, GiftsDelegated DEF Down
    <3>6. \A i \in Up(M, U, u, c) : \A k \in Delegates(U[c], u, M) : k <= i
      BY <2>1, <3>1 DEF LastWord
    <3> QED
      BY <3>1, <3>3, <3>4, <3>5, <3>6 DEF LastWord
  <2> QED
    BY <2>2, <2>3
<1>7. ASSUME NEW u \in User, u \in M PROVE Produced(M, U, D2, A2, u)
  <2>1. Produced(M, U, D, A, u)
    BY <1>7 DEF Producing
  <2>2. \A d \in M : A[d][u] = d => A2[d][u] = d
    <3>1. A[c][u] = c => Gifts(D[c], u) = {}
      BY DEF Producing, LastWord
    <3> QED
      BY <1>1, <1>4, <3>1
  <2>3. CASE IsGift(m, u) /\ m.authority = c
    <3>1. A2[c][u] = c
      BY <1>1, <2>3
    <3> QED
      BY <3>1 DEF Produced, Somewhere
  <2>4. CASE ~(IsGift(m, u) /\ m.authority = c)
    <3>1. ASSUME NEW d \in M, Down(D, u, d) # {} PROVE Down(D2, u, d) # {}
      <4>1. CASE d # c
        BY <1>1, <3>1, <4>1 DEF Down
      <4>2. CASE d = c
        <5> PICK i : i \in Down(D, u, c)
          BY <3>1, <4>2
        <5>1. i \in 1..Len(D[c]) /\ IsGift(D[c][i], u) /\ D[c][i].authority = c
          BY DEF Down, Delegates, IsGift
        <5>2. i # 1
          BY <1>2, <2>4, <5>1
        <5>3. i - 1 \in 1..Len(D2[c]) /\ D2[c][i - 1] = D[c][i]
          BY <1>1, <1>2, <5>1, <5>2
        <5>4. i - 1 \in Down(D2, u, c)
          BY <5>1, <5>3 DEF Down, Delegates, IsGift
        <5> QED
          BY <4>2, <5>4
      <4> QED
        BY <4>1, <4>2
    <3> QED
      BY <1>5, <2>1, <2>2, <3>1, ProducedKept
  <2> QED
    BY <2>3, <2>4
<1> QED
  BY <1>6, <1>7 DEF Producing

\* A holder that gives the authority away gives it to a member, or to one who
\* has left and whose QUIT then makes it take the authority back: no other
\* member's stream is given to one who has left.
LEMMA ProducingGive ==
  ASSUME NEW M \in SUBSET User, NEW U, NEW D, NEW A, NEW U2, NEW A2, Channels(U, D, A),
         Producing(M, U, D, A), NEW c \in M, NEW u \in User, NEW a \in User,
         Unique(M, U, D, A, u), A[c][u] = c, a # c, GiveMove(c, u, a, U, A, U2, A2),
         a \in M \/ ((u \in M => u = c) /\ \E i \in 1..Len(D[c]) : IsQuit(D[c][i], a))
  PROVE  Producing(M, U2, D, A2)
<1> DEFINE m == Delegate(u, a)
<1>1. M \subseteq User /\ c \in User
  OBVIOUS
<1>2. \A d \in User : /\ U[d] \in Seq(Packet) /\ Len(U[d]) \in Nat
                      /\ D[d] \in Seq(Packet) /\ Len(D[d]) \in Nat
  BY LenProperties DEF Channels
<1>3. /\ m \in Packet /\ IsGift(m, u) /\ m.authority = a
      /\ \A w \in User : w # u => ~IsGift(m, w)
  BY DEF Delegate, Packet, AuthorityPacket, IsGift
<1>4. /\ U2[c] = Append(U[c], m) /\ \A d \in User : d # c => U2[d] = U[d]
      /\ A2[c][u] = a /\ \A w \in User : w # u => A2[c][w] = A[c][w]
      /\ \A d \in User : d # c => A2[d] = A[d]
  BY <1>1 DEF GiveMove, Channels
<1> HIDE DEF m
<1>5. /\ U2[c] \in Seq(Packet) /\ Len(U2[c]) = Len(U[c]) + 1
      /\ U2[c][Len(U[c]) + 1] = m /\ \A i \in 1..Len(U[c]) : U2[c][i] = U[c][i]
  BY <1>1, <1>2, <1>3, <1>4, Appended
<1>6. ASSUME NEW w \in User, w # u
      PROVE  /\ \A d \in M : LastWord(M, U2, D, A2, w, d)
             /\ w \in M => Produced(M, U2, D, A2, w)
  <2>1. \A d \in M : Alike(U2[d], U[d], w) /\ Alike(D[d], D[d], w)
    <3>1. Alike(U2[c], U[c], w)
      BY <1>1, <1>2, <1>3, <1>4, <1>6, AlikeAppend
    <3> QED
      BY <1>1, <1>2, <1>4, <3>1, AlikeSame
  <2>2. \A d \in User : A2[d][w] = A[d][w]
    BY <1>4, <1>6
  <2>3. \A d \in M : LastWord(M, U2, D, A2, w, d)
    <3>1. \A d \in M : Later(U2[d], U[d], w) /\ Later(D[d], D[d], w)
      BY <2>1, AlikeLater
    <3>2. \A d \in M : LastWord(M, U, D, A, w, d) /\ A2[d][w] = A[d][w]
      BY <1>1, <2>2 DEF Producing
    <3> QED
      BY <3>1, <3>2, LastWordKept
  <2>4. ASSUME w \in M PROVE Produced(M, U2, D, A2, w)
    <3>1. \A d \in M : Up(M, U, w, d) # {} => Up(M, U2, w, d) # {}
      BY <2>1, AlikeDelegates DEF Up
    <3>2. Produced(M, U, D, A, w)
      BY <2>4 DEF Producing
    <3>3. A2[w][w] = A[w][w] /\ \A d \in M : A2[d][w] = A[d][w]
      BY <1>1, <2>2
    <3> QED
      BY <3>1, <3>2, <3>3, ProducedKept
  <2> QED
    BY <2>3, <2>4
<1>7. /\ \A d \in M : Down(D, u, d) = {} /\ Up(M, U, u, d) = {} /\ A2[d][u] # d
      /\ Sole(M, U, u, c) /\ Gifts(D[c], u) = {}
  <2>1. Sole(M, U, u, c) /\ Gifts(D[c], u) = {}
    BY DEF Producing, LastWord
  <2>2. \A d \in M : Down(D, u, d) = {} /\ Up(M, U, u, d) = {} /\ (A[d][u] = d => d = c)
    BY <1>1 DEF Unique
  <2> QED
    BY <1>1, <1>4, <2>1, <2>2
<1>8. Sole(M, U2, u, c) /\ \A d \in M : d # c => Up(M, U2, u, d) = {}
  BY <1>1, <1>4, <1>7 DEF Sole, Up
<1>9. \A i \in Up(M, U2, u, c) : i = Len(U[c]) + 1
  <2> SUFFICES ASSUME NEW i \in Up(M, U2, u, c), i # Len(U[c]) + 1 PROVE FALSE
    OBVIOUS
  <2>1. i \in 1..Len(U[c]) /\ U2[c][i] = U[c][i]
    BY <1>1, <1>2, <1>5 DEF Up, Delegates
  <2>2. i \in Up(M, U, u, c)
    BY <2>1 DEF Up, Delegates
  <2> QED
    BY <1>7, <2>2
<1>10. \A k \in Delegates(U2[c], u, M) : k <= Len(U[c]) + 1
  BY <1>1, <1>2, <1>5 DEF Delegates
<1>11. \A d \in M : LastWord(M, U2, D, A2, u, d)
  BY <1>7, <1>8, <1>9, <1>10 DEF LastWord
<1>12. ASSUME u \in M PROVE Produced(M, U2, D, A2, u)
  <2>1. CASE a \in M
    <3>1. Len(U[c]) + 1 \in Up(M, U2, u, c)
      BY <1>1, <1>2, <1>3, <1>5, <2>1 DEF Up, Delegates, IsGift
    <3> QED
      BY <3>1 DEF Produced, Somewhere
  <2>2. CASE a \notin M
    <3>1. u = c
      BY <1>12, <2>2
    <3> PICK i \in 1..Len(D[c]) : IsQuit(D[c][i], a)
      BY <2>2
    <3>2. \A j \in 1..i-1 : ~IsGift(D[c][j], u)
      <4>1. \A j \in 1..i-1 : j \in 1..Len(D[c])
        BY <1>1, <1>2
      <4> QED
        BY <1>7, <4>1 DEF Gifts
    <3>3. Sees(D[c], i - 1, A2[c][u], u, D[c][i].user) /\ D[c][i].type = "QUIT"
      BY <1>4, <3>2 DEF Sees, IsQuit
    <3> QED
      BY <3>1, <3>3 DEF Produced, Back
  <2> QED
    BY <2>1, <2>2
<1> QED
  BY <1>6, <1>11, <1>12 DEF Producing

\* A client that takes its own authority back from a quitter has it alone.
LEMMA ProducingTakeBack ==
  ASSUME NEW M, NEW S, NEW U, NEW D, NEW A, NEW L, NEW U2, NEW D2, NEW A2,
         Streams(M, S, U, D, A, L), Producing(M, U, D, A),
         NEW c \in M, TakeBackMove(c, U, D, A, U2, D2, A2)
  PROVE  Producing(M, U2, D2, A2)
<1> DEFINE h == Head(D[c])
           t == Tail(D[c])
           m == Delegate(c, c)
<1>1. /\ Types(M, S, U, D, A, L) /\ M \subseteq User /\ c \in User
      /\ NoFalseQuit(M, D) /\ Honest(M, U) /\ Owner(M, S, U, D, A, L, c)
  BY Typed DEF Streams, Authority, Settled
<1>2. \A d \in User : /\ U[d] \in Seq(Packet) /\ Len(U[d]) \in Nat
                      /\ D[d] \in Seq(Packet) /\ Len(D[d]) \in Nat
  BY <1>1, Typed
<1>3. /\ m \in Packet /\ IsGift(m, c) /\ m.authority = c
      /\ \A w \in User : w # c => ~IsGift(m, w)
  BY <1>1 DEF Delegate, Packet, AuthorityPacket, IsGift
<1>4. /\ U2[c] = Append(U[c], m) /\ D2[c] = t
      /\ \A d \in User : d # c => U2[d] = U[d] /\ D2[d] = D[d]
      /\ A2[c][c] = c /\ \A w \in User : w # c => A2[c][w] = A[c][w]
      /\ \A d \in User : d # c => A2[d] = A[d]
      /\ D[c] # <<>> /\ h.type = "QUIT" /\ A[c][c] = h.user
  BY <1>1 DEF TakeBackMove, Types
<1>5. /\ h = D[c][1] /\ Len(D[c]) \in Nat \ {0}
      /\ \A i \in 1..Len(t) : t[i] = D[c][i + 1] /\ i + 1 \in 1..Len(D[c])
  BY <1>1, <1>2, <1>4, Tailed
<1> HIDE DEF m, h, t
<1>6. /\ U2[c] \in Seq(Packet) /\ Len(U2[c]) = Len(U[c]) + 1
      /\ U2[c][Len(U[c]) + 1] = m /\ \A i \in 1..Len(U[c]) : U2[c][i] = U[c][i]
  BY <1>1, <1>2, <1>3, <1>4, Appended
<1>7. ASSUME NEW w \in User, w # c
      PROVE  /\ \A d \in M : LastWord(M, U2, D2, A2, w, d)
             /\ w \in M => Produced(M, U2, D2, A2, w)
  <2>1. \A d \in M : Alike(U2[d], U[d], w) /\ Alike(D2[d], D[d], w)
    <3>1. Alike(U2[c], U[c], w)
      BY <1>1, <1>2, <1>3, <1>4, <1>7, AlikeAppend
    <3>2. Alike(D2[c], D[c], w)
      <4>1. ~IsGift(Head(D[c]), w)
        BY <1>4 DEF IsGift, h
      <4> QED
        BY <1>1, <1>2, <1>4, <4>1, AlikeTail DEF t
    <3> QED
      BY <1>1, <1>2, <1>4, <3>1, <3>2, AlikeSame
  <2>2. \A d \in User : A2[d][w] = A[d][w]
    BY <1>4, <1>7
  <2>3. \A d \in M : LastWord(M, U2, D2, A2, w, d)
    <3>1. \A d \in M : Later(U2[d], U[d], w) /\ Later(D2[d], D[d], w)
      BY <2>1, AlikeLater
    <3>2. \A d \in M : LastWord(M, U, D, A, w, d) /\ A2[d][w] = A[d][w]
      BY <1>1, <2>2 DEF Producing
    <3> QED
      BY <3>1, <3>2, LastWordKept
  <2>4. ASSUME w \in M PROVE Produced(M, U2, D2, A2, w)
    <3>1. \A d \in M : /\ Up(M, U, w, d) # {} => Up(M, U2, w, d) # {}
                       /\ Down(D, w, d) # {} => Down(D2, w, d) # {}
      BY <2>1, AlikeDelegates DEF Up, Down
    <3>2. Produced(M, U, D, A, w)
      BY <2>4 DEF Producing
    <3>3. A2[w][w] = A[w][w] /\ D2[w] = D[w] /\ \A d \in M : A2[d][w] = A[d][w]
      BY <1>1, <1>4, <1>7, <2>2
    <3> QED
      BY <3>1, <3>2, <3>3, ProducedKept
  <2> QED
    BY <2>3, <2>4
<1>8. /\ WillSee(D, A, c, h.user) /\ h.user \notin M
      /\ \A j \in 1..Len(D[c]) : ~IsGift(D[c][j], c)
  <2>1. 1 \in 1..Len(D[c])
    BY <1>5
  <2>2. Sees(D[c], 1 - 1, A[c][c], c, D[c][1].user) /\ D[c][1].type = "QUIT"
    BY <1>4, <1>5 DEF Sees
  <2>3. Final(D[c], A[c][c], c)
    BY <1>1 DEF Owner
  <2> DEFINE v == A[c][c]
             s == D[c]
  <2>4. /\ s \in Seq(Packet) /\ 1 \in 1..Len(s) /\ Final(s, v, c)
        /\ s[1].type = "QUIT" /\ Sees(s, 1 - 1, v, c, s[1].user)
    BY <1>1, <1>2, <2>1, <2>2, <2>3
  <2> HIDE DEF v, s
  <2>5. Sees(s, Len(s), v, c, s[1].user) /\ \A j \in 1..Len(s) : ~IsGift(s[j], c)
    BY <2>4, FinalLast
  <2> QED
    BY <1>1, <1>5, <2>1, <2>2, <2>5 DEF s, v, WillSee, NoFalseQuit
<1>9. \A d \in M : ~WillSee(D, A, c, d)
  <2> SUFFICES ASSUME NEW d \in M, WillSee(D, A, c, d) PROVE FALSE
    OBVIOUS
  <2>1. Len(D[c]) \in Nat
    BY <1>5
  <2>2. d = h.user
    BY <1>8, <2>1, SeesUnique DEF WillSee
  <2> QED
    BY <1>8, <2>2
<1>10. \A d \in M : A[d][c] # d /\ Down(D, c, d) = {} /\ Up(M, U, c, d) = {}
  <2> SUFFICES ASSUME NEW d \in M PROVE A[d][c] # d /\ Down(D, c, d) = {} /\ Up(M, U, c, d) = {}
    OBVIOUS
  <2>1. A[d][c] # d /\ Down(D, c, d) = {}
    BY <1>1, <1>9 DEF Owner
  <2>2. ASSUME NEW i \in Up(M, U, c, d) PROVE FALSE
    <3>1. U[d][i].authority \in M
      BY DEF Up, Delegates
    <3>2. WillSee(D, A, c, IF d = c THEN U[d][i].authority ELSE d)
      BY <1>1 DEF Owner
    <3> QED
      BY <1>9, <3>1, <3>2
  <2> QED
    BY <2>1, <2>2
<1>11. Sole(M, U2, c, c)
  <2> SUFFICES ASSUME NEW d \in M \ {c}, NEW i \in Delegates(U2[d], c, M) PROVE FALSE
    BY DEF Sole
  <2>1. i \in Delegates(U[d], c, M)
    BY <1>1, <1>4
  <2>2. U[d][i].authority # d
    BY <1>1, <2>1 DEF Honest, Delegates
  <2>3. i \in Up(M, U, c, d)
    BY <2>1, <2>2 DEF Up, Delegates
  <2> QED
    BY <1>10, <2>3
<1>12. Gifts(D2[c], c) = {}
  BY <1>4, <1>5, <1>8 DEF Gifts
<1>13. \A d \in M : Down(D2, c, d) = {}
  <2>1. Down(D2, c, c) = {}
    BY <1>12, GiftsDelegated DEF Down
  <2>2. \A d \in M : d # c => Down(D2, c, d) = Down(D, c, d)
    BY <1>1, <1>4 DEF Down
  <2> QED
    BY <1>10, <2>1, <2>2
<1>14. \A d \in M : Up(M, U2, c, d) = {}
  <2>1. \A d \in M : d # c => Up(M, U2, c, d) = Up(M, U, c, d)
    BY <1>1, <1>4 DEF Up
  <2>2. ASSUME NEW i \in Up(M, U2, c, c) PROVE FALSE
    <3>1. /\ i \in 1..Len(U2[c]) /\ IsGift(U2[c][i], c)
          /\ U2[c][i].authority \in M \ {c}
      BY DEF Up, Delegates, IsGift
    <3>2. i \in 1..Len(U[c]) /\ U2[c][i] = U[c][i]
      BY <1>1, <1>2, <1>3, <1>6, <3>1
    <3>3. i \in Up(M, U, c, c)
      BY <3>1, <3>2 DEF Up, Delegates, IsGift
    <3> QED
      BY <1>10, <3>3
  <2> QED
    BY <1>10, <2>1, <2>2
<1>15. \A d \in M : d # c => A2[d][c] # d
  BY <1>1, <1>4, <1>10
<1>16. \A d \in M : LastWord(M, U2, D2, A2, c, d)
  BY <1>11, <1>12, <1>13, <1>14, <1>15 DEF LastWord
<1>17. Produced(M, U2, D2, A2, c)
  BY <1>4 DEF Produced, Somewhere
<1> QED
  BY <1>7, <1>16, <1>17 DEF Producing

\* What has gone up a channel, if not in its head, is still in the rest.
LEMMA UpTail ==
  ASSUME NEW s \in Seq(Packet), s # <<>>, NEW u, NEW a, Delegates(s, u, a) # {},
         ~(IsGift(Head(s), u) /\ Head(s).authority \in a)
  PROVE  Delegates(Tail(s), u, a) # {}
<1> PICK i : i \in Delegates(s, u, a)
  OBVIOUS
<1>1. i \in 1..Len(s) /\ IsGift(s[i], u) /\ s[i].authority \in a
  BY DEF Delegates, IsGift
<1>2. i # 1
  BY <1>1, Tailed
<1>3. i - 1 \in 1..Len(Tail(s)) /\ Tail(s)[i - 1] = s[i]
  BY <1>1, <1>2, Tailed
<1>4. i - 1 \in Delegates(Tail(s), u, a)
  BY <1>1, <1>3 DEF Delegates, IsGift
<1> QED
  BY <1>4

\* The server drops a gift that is about, or for, somebody who has left.
LEMMA ProducingDrop ==
  ASSUME NEW M \in SUBSET User, NEW U, NEW D, NEW A, NEW U2, Channels(U, D, A),
         Producing(M, U, D, A), NEW c \in M, DropMove(c, U, U2),
         Head(U[c]).user \notin M \/ Head(U[c]).authority \notin M
  PROVE  Producing(M, U2, D, A)
<1>1. /\ c \in User /\ \A d \in User : U[d] \in Seq(Packet) /\ D[d] \in Seq(Packet)
      /\ U[c] # <<>> /\ U2[c] = Tail(U[c]) /\ \A d \in User : d # c => U2[d] = U[d]
  BY DEF DropMove, Channels
<1>2. \A d \in M, u \in User : Later(U2[d], U[d], u) /\ Later(D[d], D[d], u)
  BY <1>1, TailLater, AlikeSame, AlikeLater
<1>3. ASSUME NEW u \in User, NEW d \in M PROVE LastWord(M, U2, D, A, u, d)
  BY <1>2, LastWordKept DEF Producing
<1>4. ASSUME NEW u \in User, u \in M PROVE Produced(M, U2, D, A, u)
  <2>1. ASSUME NEW d \in M, Up(M, U, u, d) # {} PROVE Up(M, U2, u, d) # {}
    <3>1. CASE d # c
      BY <1>1, <2>1, <3>1 DEF Up
    <3>2. CASE d = c
      <4>1. ~(IsGift(Head(U[c]), u) /\ Head(U[c]).authority \in M \ {c})
        BY <1>4 DEF IsGift
      <4> QED
        BY <1>1, <2>1, <3>2, <4>1, UpTail DEF Up
    <3> QED
      BY <3>1, <3>2
  <2>2. Produced(M, U, D, A, u)
    BY <1>4 DEF Producing
  <2> QED
    BY <2>1, <2>2, ProducedKept
<1> QED
  BY <1>3, <1>4 DEF Producing

\* The server passes a gift on: it is alone, so it is the last its new holder
\* gets.  The word of who took its own authority back changes nothing.
LEMMA ProducingPass ==
  ASSUME NEW M, NEW S, NEW U, NEW D, NEW A, NEW L, NEW U2, NEW D2,
         Streams(M, S, U, D, A, L), Producing(M, U, D, A),
         NEW c \in M, PassMove(M, c, U, D, U2, D2),
         Head(U[c]).type = "DELEGATE_AUTHORITY",
         Head(U[c]).user \in M, Head(U[c]).authority \in M
  PROVE  Producing(M, U2, D2, A)
<1> DEFINE m == Head(U[c])
           t == Tail(U[c])
           u == m.user
           a == m.authority
<1>1. /\ Types(M, S, U, D, A, L) /\ M \subseteq User /\ c \in User
      /\ Honest(M, U) /\ \A w \in User : Unique(M, U, D, A, w)
  BY Typed DEF Streams, Authority, Settled
<1>2. \A d \in User : /\ U[d] \in Seq(Packet) /\ Len(U[d]) \in Nat
                      /\ D[d] \in Seq(Packet) /\ Len(D[d]) \in Nat
  BY <1>1, Typed
<1>3. /\ U[c] # <<>> /\ U2[c] = t /\ \A d \in User : d # c => U2[d] = U[d]
      /\ D2[c] = D[c] /\ \A d \in M : d # c => D2[d] = Append(D[d], m)
      /\ \A d \in User : D2[d] = D[d] \/ D2[d] = Append(D[d], m)
  BY <1>1 DEF PassMove, Types
<1>4. /\ m \in Packet /\ m = U[c][1] /\ Len(U[c]) \in Nat \ {0}
      /\ t \in Seq(Packet) /\ Len(t) = Len(U[c]) - 1
      /\ \A i \in 1..Len(t) : t[i] = U[c][i + 1] /\ i + 1 \in 1..Len(U[c])
  BY <1>1, <1>2, <1>3, Tailed
<1>5. /\ IsGift(m, u) /\ u \in M /\ a \in M /\ u \in User
      /\ \A w \in User : w # u => ~IsGift(m, w)
  BY <1>1 DEF IsGift
<1>6. \A w \in User : Later(U2[c], U[c], w)
  BY <1>1, <1>2, <1>3, TailLater
<1>7. \A d \in User : d # c => \A w \in User : Alike(U2[d], U[d], w) /\ Later(U2[d], U[d], w)
  BY <1>2, <1>3, AlikeSame, AlikeLater
<1>8. ASSUME NEW w \in User, Back(D[w], A[w][w], w) PROVE Back(D2[w], A[w][w], w)
  <2>1. CASE D2[w] = D[w]
    BY <1>8, <2>1
  <2>2. CASE D2[w] = Append(D[w], m)
    <3>1. D2[w] = D[w] \o <<m>> /\ <<m>> \in Seq(Packet)
      BY <1>2, <1>4, <2>2, Appended
    <3> DEFINE ps == <<m>>
    <3>2. D2[w] = D[w] \o ps /\ ps \in Seq(Packet) /\ D[w] \in Seq(Packet)
      BY <1>2, <3>1
    <3> HIDE DEF ps
    <3> QED
      BY <1>8, <3>2, BackConcat
  <2> QED
    BY <1>3, <2>1, <2>2
<1> HIDE DEF m, t, u, a
<1>9. ASSUME NEW d \in M, d # c
      PROVE  /\ D2[d] = Append(D[d], m) /\ m \in Packet /\ D[d] \in Seq(Packet)
             /\ Len(D2[d]) = Len(D[d]) + 1 /\ D2[d][Len(D[d]) + 1] = m
             /\ Len(D[d]) \in Nat
             /\ \A i \in 1..Len(D[d]) : D2[d][i] = D[d][i]
  <2>1. D2[d] = Append(D[d], m) /\ m \in Packet /\ D[d] \in Seq(Packet)
    BY <1>1, <1>2, <1>3, <1>4, <1>9
  <2> QED
    BY <2>1, Appended
<1>10. ASSUME NEW w \in User, NEW d \in M, Down(D, w, d) # {} PROVE Down(D2, w, d) # {}
  <2>1. CASE d = c
    BY <1>3, <1>10, <2>1 DEF Down
  <2>2. CASE d # c
    <3> PICK i : i \in Down(D, w, d)
      BY <1>10
    <3>1. i \in 1..Len(D[d]) /\ IsGift(D[d][i], w) /\ D[d][i].authority \in {d}
      BY DEF Down, Delegates, IsGift
    <3>2. i \in 1..Len(D2[d]) /\ D2[d][i] = D[d][i]
      BY <1>9, <2>2, <3>1
    <3>3. i \in Down(D2, w, d)
      BY <3>1, <3>2 DEF Down, Delegates, IsGift
    <3> QED
      BY <3>3
  <2> QED
    BY <2>1, <2>2
<1>11. ASSUME NEW w \in User, w # u
       PROVE  /\ \A d \in M : LastWord(M, U2, D2, A, w, d)
              /\ w \in M => Produced(M, U2, D2, A, w)
  <2>1. \A d \in M : Alike(U2[d], U[d], w) /\ Alike(D2[d], D[d], w)
    <3>1. Alike(U2[c], U[c], w)
      <4>1. ~IsGift(Head(U[c]), w)
        BY <1>5, <1>11 DEF m
      <4> QED
        BY <1>1, <1>2, <1>3, <4>1, AlikeTail DEF t
    <3>2. ASSUME NEW d \in M, d # c PROVE Alike(D2[d], D[d], w)
      BY <1>5, <1>9, <1>11, <3>2, AlikeAppend
    <3> QED
      BY <1>1, <1>2, <1>3, <1>7, <3>1, <3>2, AlikeSame
  <2>2. \A d \in M : LastWord(M, U2, D2, A, w, d)
    <3>1. \A d \in M : Later(U2[d], U[d], w) /\ Later(D2[d], D[d], w)
      BY <2>1, AlikeLater
    <3>2. \A d \in M : LastWord(M, U, D, A, w, d)
      BY DEF Producing
    <3> QED
      BY <3>1, <3>2, LastWordKept
  <2>3. ASSUME w \in M PROVE Produced(M, U2, D2, A, w)
    <3>1. \A d \in M : Up(M, U, w, d) # {} => Up(M, U2, w, d) # {}
      BY <2>1, AlikeDelegates DEF Up
    <3>2. Produced(M, U, D, A, w)
      BY <2>3 DEF Producing
    <3> QED
      BY <1>8, <1>10, <3>1, <3>2, ProducedKept
  <2> QED
    BY <2>2, <2>3
<1>12. \A d \in M : LastWord(M, U, D, A, u, d)
  BY <1>5 DEF Producing
<1>13. 1 \in Delegates(U[c], u, M)
  BY <1>4, <1>5 DEF Delegates, IsGift, a
<1>14. \A d \in M : ~Sole(M, U, u, d) \/ d = c
  BY <1>13 DEF Sole
<1>15. \A d \in M : d # c => A[d][u] # d /\ Down(D, u, d) = {} /\ Up(M, U, u, d) = {}
  BY <1>12, <1>14 DEF LastWord
<1>16. Produced(M, U2, D2, A, u)
  <2>1. CASE a # c
    <3>1. Len(D[a]) + 1 \in 1..Len(D2[a]) /\ D2[a][Len(D[a]) + 1] = m
      BY <1>5, <1>9, <2>1
    <3>2. Len(D[a]) + 1 \in Down(D2, u, a)
      BY <1>5, <3>1 DEF Down, Delegates, IsGift, a
    <3> QED
      BY <1>5, <3>2 DEF Produced, Somewhere
  <2>2. CASE a = c
    <3>1. ASSUME NEW d \in M, Up(M, U, u, d) # {} PROVE Up(M, U2, u, d) # {}
      <4>1. d = c
        BY <1>15, <3>1
      <4>2. ~(IsGift(Head(U[c]), u) /\ Head(U[c]).authority \in M \ {c})
        BY <2>2 DEF a, m
      <4>3. Delegates(Tail(U[c]), u, M \ {c}) # {}
        BY <1>1, <1>2, <1>3, <3>1, <4>1, <4>2, UpTail DEF Up
      <4> QED
        BY <1>3, <4>1, <4>3 DEF Up, t
    <3>2. Produced(M, U, D, A, u)
      BY <1>5 DEF Producing
    <3> QED
      BY <1>5, <1>8, <1>10, <3>1, <3>2, ProducedKept
  <2> QED
    BY <2>1, <2>2
<1>17. ASSUME NEW d \in M PROVE LastWord(M, U2, D2, A, u, d)
  <2>1. \A e \in M : Later(U2[e], U[e], u)
    BY <1>1, <1>5, <1>6, <1>7
  <2>2. CASE d = c
    <3>1. Later(D2[c], D[c], u)
      BY <1>1, <1>2, <1>3, AlikeSame, AlikeLater
    <3> QED
      BY <1>12, <2>1, <2>2, <3>1, LastWordKept
  <2>3. CASE d # c /\ a # d
    <3>1. Down(D2, u, d) = {}
      <4> SUFFICES ASSUME NEW i \in Down(D2, u, d) PROVE FALSE
        OBVIOUS
      <4>1. i \in 1..Len(D2[d]) /\ IsGift(D2[d][i], u) /\ D2[d][i].authority = d
        BY DEF Down, Delegates, IsGift
      <4>2. i \in 1..Len(D[d]) /\ D2[d][i] = D[d][i]
        BY <1>9, <2>3, <4>1 DEF a
      <4>3. i \in Down(D, u, d)
        BY <4>1, <4>2 DEF Down, Delegates, IsGift
      <4> QED
        BY <1>15, <2>3, <4>3
    <3>2. Up(M, U2, u, d) = {} /\ A[d][u] # d
      BY <1>1, <1>3, <1>15, <2>3 DEF Up
    <3> QED
      BY <3>1, <3>2 DEF LastWord
  <2>4. CASE d # c /\ a = d
    <3>1. 1 \in Up(M, U, u, c)
      BY <1>4, <1>5, <2>4 DEF Up, Delegates, IsGift, a
    <3>2. Sole(M, U, u, c) /\ \A k \in Delegates(U[c], u, M) : k <= 1
      BY <1>12, <3>1 DEF LastWord
    <3>3. Delegates(U2[c], u, M) = {}
      <4> SUFFICES ASSUME NEW i \in Delegates(t, u, M) PROVE FALSE
        BY <1>3
      <4>1. i \in 1..Len(t) /\ i + 1 \in Delegates(U[c], u, M)
        BY <1>4 DEF Delegates
      <4>2. i + 1 <= 1 /\ i \in Int /\ i >= 1
        BY <3>2, <4>1
      <4> QED
        BY <4>2
    <3>4. Sole(M, U2, u, d)
      <4>1. \A e \in M : e # c => Delegates(U2[e], u, M) = {}
        BY <1>1, <1>3, <3>2 DEF Sole
      <4> QED
        BY <3>3, <4>1 DEF Sole
    <3>5. \A i \in Down(D2, u, d) : i = Len(D[d]) + 1
      <4> SUFFICES ASSUME NEW i \in Down(D2, u, d), i # Len(D[d]) + 1 PROVE FALSE
        OBVIOUS
      <4>1. i \in 1..Len(D2[d]) /\ IsGift(D2[d][i], u) /\ D2[d][i].authority = d
        BY DEF Down, Delegates, IsGift
      <4>2. i \in 1..Len(D[d]) /\ D2[d][i] = D[d][i]
        BY <1>9, <2>4, <4>1
      <4>3. i \in Down(D, u, d)
        BY <4>1, <4>2 DEF Down, Delegates, IsGift
      <4> QED
        BY <1>15, <2>4, <4>3
    <3>6. \A k \in Gifts(D2[d], u) : k <= Len(D[d]) + 1
      BY <1>9, <2>4 DEF Gifts
    <3>7. Up(M, U2, u, d) = {} /\ A[d][u] # d
      BY <1>1, <1>3, <1>15, <2>4 DEF Up
    <3> QED
      BY <3>4, <3>5, <3>6, <3>7 DEF LastWord
  <2> QED
    BY <2>2, <2>3, <2>4
<1> QED
  BY <1>11, <1>16, <1>17 DEF Producing

\* A user leaves and the others are told.  A stream given to it, or by it, is
\* taken back by its owner: nobody else may have given it to the leaver.
LEMMA ProducingLeave ==
  ASSUME NEW M, NEW S, NEW U, NEW D, NEW A, NEW L, NEW M2, NEW U2, NEW D2, NEW A2, NEW q,
         Streams(M, S, U, D, A, L), Producing(M, U, D, A), q \in M, M2 = M \ {q},
         \A d \in M2 : U2[d] = U[d] /\ A2[d] = A[d] /\ D2[d] = Append(D[d], Quit(q)),
         \A d, e \in M2 : d = e
  PROVE  Producing(M2, U2, D2, A2)
<1>1. /\ Types(M, S, U, D, A, L) /\ M \subseteq User /\ M2 \subseteq M
      /\ \A u \in M : Owner(M, S, U, D, A, L, u)
  BY Typed DEF Streams, Authority, Settled
<1>2. \A d \in User : /\ U[d] \in Seq(Packet) /\ Len(U[d]) \in Nat
                      /\ D[d] \in Seq(Packet) /\ Len(D[d]) \in Nat
  BY <1>1, Typed
<1>3. /\ Quit(q) \in Packet /\ Quit(q).type = "QUIT" /\ Quit(q).user = q
      /\ \A u : ~IsGift(Quit(q), u)
  BY <1>1 DEF Quit, Packet, QuitPacket, IsGift
<1>4. ASSUME NEW d \in M2, NEW u \in User
      PROVE  Alike(U2[d], U[d], u) /\ Alike(D2[d], D[d], u)
  <2>1. U[d] \in Seq(Packet) /\ D[d] \in Seq(Packet)
    BY <1>1, <1>2
  <2>2. U2[d] = U[d] /\ D2[d] = Append(D[d], Quit(q))
    OBVIOUS
  <2> QED
    BY <1>3, <2>1, <2>2, AlikeSame, AlikeAppend
<1>5. ASSUME NEW u \in User, NEW d \in M2 PROVE LastWord(M2, U2, D2, A2, u, d)
  <2>1. \A e \in M2 : Later(U2[e], U[e], u) /\ Later(D2[e], D[e], u)
    BY <1>4, AlikeLater
  <2>2. LastWord(M, U, D, A, u, d)
    BY <1>1 DEF Producing
  <2> QED
    BY <1>1, <2>1, <2>2, LastWordKept
<1>6. ASSUME NEW u \in M2, WillSee(D, A, u, q) PROVE Produced(M2, U2, D2, A2, u)
  <2> DEFINE s == D[u]
             r == Append(s, Quit(q))
             v == A[u][u]
  <2>1. /\ Len(s) \in Nat /\ Len(r) = Len(s) + 1 /\ r[Len(s) + 1] = Quit(q)
        /\ \A i \in 1..Len(s) : r[i] = s[i]
    BY <1>1, <1>2, <1>3, Appended
  <2>2. Sees(s, Len(s), v, u, q) /\ D2[u] = r /\ A2[u][u] = v
    BY <1>6 DEF WillSee
  <2> HIDE DEF s, r, v
  <2>3. Sees(r, Len(s), v, u, q)
    BY <2>1, <2>2, SeesSame
  <2>4. Len(s) + 1 \in 1..Len(r) /\ (Len(s) + 1) - 1 = Len(s)
    BY <2>1
  <2>5. Back(r, v, u)
    BY <1>3, <2>1, <2>3, <2>4 DEF Back
  <2> QED
    BY <2>2, <2>5 DEF Produced
<1>7. ASSUME NEW u \in M2 PROVE Produced(M2, U2, D2, A2, u)
  <2>1. Produced(M, U, D, A, u) /\ Owner(M, S, U, D, A, L, u) /\ u \in M /\ u \in User /\ u # q
    BY <1>1 DEF Producing
  <2>2. CASE Back(D[u], A[u][u], u)
    <3>1. D2[u] = D[u] \o <<Quit(q)>> /\ <<Quit(q)>> \in Seq(Packet)
      BY <1>2, <1>3, <2>1, Appended
    <3> DEFINE ps == <<Quit(q)>>
    <3>2. D2[u] = D[u] \o ps /\ ps \in Seq(Packet) /\ D[u] \in Seq(Packet) /\ A2[u] = A[u]
      BY <1>2, <2>1, <3>1
    <3> HIDE DEF ps
    <3> QED
      BY <2>2, <3>2, BackConcat DEF Produced
  <2>3. ASSUME NEW d \in M, A[d][u] = d PROVE Produced(M2, U2, D2, A2, u)
    <3>1. CASE d = q
      BY <1>6, <2>1, <2>3, <3>1 DEF Owner
    <3>2. CASE d # q
      BY <2>3, <3>2 DEF Produced, Somewhere
    <3> QED
      BY <3>1, <3>2
  <2>4. ASSUME NEW d \in M, Down(D, u, d) # {} PROVE Produced(M2, U2, D2, A2, u)
    <3>1. CASE d = q
      BY <1>6, <2>1, <2>4, <3>1 DEF Owner
    <3>2. CASE d # q
      <4>1. d \in M2 /\ Delegates(D[d], u, {d}) # {}
        BY <2>4, <3>2 DEF Down
      <4>3. Alike(D2[d], D[d], u)
        BY <1>4, <2>1, <4>1
      <4>2. Delegates(D2[d], u, {d}) # {}
        <5> DEFINE a == {d}
                   s == D[d]
                   s2 == D2[d]
        <5>1. Alike(s2, s, u) /\ Delegates(s, u, a) # {}
          BY <4>1, <4>3
        <5> HIDE DEF a, s, s2
        <5>2. Delegates(s2, u, a) # {}
          BY <5>1, AlikeDelegates
        <5> QED
          BY <5>2 DEF a, s2
      <4> QED
        BY <4>1, <4>2 DEF Produced, Somewhere, Down
    <3> QED
      BY <3>1, <3>2
  <2>5. ASSUME NEW d \in M, NEW i \in Up(M, U, u, d) PROVE Produced(M2, U2, D2, A2, u)
    <3>1. /\ i \in 1..Len(U[d]) /\ IsGift(U[d][i], u) /\ U[d][i].authority \in M \ {d}
          /\ WillSee(D, A, u, IF d = u THEN U[d][i].authority ELSE d)
      BY <2>1 DEF Owner, Up, Delegates, IsGift
    <3>2. CASE d = q
      <4>1. WillSee(D, A, u, q)
        BY <2>1, <3>1, <3>2
      <4> QED
        BY <1>6, <4>1
    <3>3. CASE d # q /\ U[d][i].authority = q
      <4>1. d = u
        BY <3>3
      <4>2. WillSee(D, A, u, q)
        BY <3>1, <3>3, <4>1
      <4> QED
        BY <1>6, <4>2
    <3>4. CASE d # q /\ U[d][i].authority # q
      <4>1. d \in M2 /\ U2[d] = U[d] /\ U[d][i].authority \in M2 \ {d}
        BY <3>1, <3>4
      <4>2. i \in Up(M2, U2, u, d)
        BY <3>1, <4>1 DEF Up, Delegates, IsGift
      <4> QED
        BY <4>1, <4>2 DEF Produced, Somewhere
    <3> QED
      BY <3>2, <3>3, <3>4
  <2> QED
    BY <2>1, <2>2, <2>3, <2>4, <2>5 DEF Produced, Somewhere
<1> QED
  BY <1>1, <1>5, <1>7 DEF Producing


-----------------------------------------------------------------------------
(* The handlers. *)

\* Non-gifts leave the authority unique.
LEMMA UniqueLater ==
  ASSUME NEW M, NEW U, NEW D, NEW A, NEW D2, NEW u, Unique(M, U, D, A, u),
         \A d \in M : Later(D2[d], D[d], u)
  PROVE  Unique(M, U, D2, A, u)
<1>1. ASSUME NEW d \in M
      PROVE  \E k \in {0, 1} : \A i \in Down(D2, u, d) : i \in Int /\ i + k \in Down(D, u, d)
  <2> DEFINE a == {d}
  <2>1. Later(D2[d], D[d], u) /\ a \subseteq a
    OBVIOUS
  <2> HIDE DEF a
  <2>2. PICK k \in {0, 1} : \A i \in Delegates(D2[d], u, a) : i + k \in Delegates(D[d], u, a)
    BY <2>1, LaterDelegates
  <2>3. \A i \in Delegates(D2[d], u, a) : i \in Int
    BY DEF Delegates
  <2> QED
    BY <2>2, <2>3 DEF Down, a
<1>2. ASSUME NEW c \in M, NEW d \in M, NEW i \in Down(D2, u, c), NEW j \in Down(D2, u, d)
      PROVE  c = d /\ i = j
  <2>1. c = d
    BY <1>1 DEF Unique
  <2>2. PICK k \in {0, 1} : \A n \in Down(D2, u, c) : n \in Int /\ n + k \in Down(D, u, c)
    BY <1>1
  <2>3. i \in Int /\ j \in Int /\ i + k = j + k
    BY <2>1, <2>2 DEF Unique
  <2> QED
    BY <2>1, <2>3
<1>3. \A d \in M : Down(D, u, d) = {} => Down(D2, u, d) = {}
  BY <1>1
<1> QED
  BY <1>2, <1>3 DEF Unique

\* A client handles a packet that does not make it take its authority back.
LEMMA ProducingHandle ==
  ASSUME NEW M \in SUBSET User, NEW U, NEW D, NEW A, NEW D2, NEW A2, Channels(U, D, A),
         Producing(M, U, D, A), NEW c \in M, TakeMove(c, D, A, D2, A2),
         ~(Head(D[c]).type = "QUIT" /\ Head(D[c]).user = A[c][c])
  PROVE  Producing(M, U, D2, A2)
<1>1. CASE Head(D[c]).type = "DELEGATE_AUTHORITY"
  BY <1>1, ProducingTake
<1>2. CASE Head(D[c]).type # "DELEGATE_AUTHORITY"
  <2>1. /\ A2 = A /\ c \in User /\ D[c] # <<>> /\ D2[c] = Tail(D[c])
        /\ \A d \in User : d # c => D2[d] = D[d]
        /\ D[c] \in Seq(Packet) /\ ~IsGift(Head(D[c]), c)
    BY <1>2 DEF TakeMove, Channels, IsGift
  <2>2. \A d \in User : Moves(U[d], U[d]) /\ Moves(D2[d], D[d])
    BY <1>2, <2>1 DEF Moves
  <2>3. Back(D[c], A[c][c], c) => Back(D2[c], A[c][c], c)
    BY <2>1, BackTail
  <2>4. \A u \in M : Back(D[u], A[u][u], u) => Back(D2[u], A[u][u], u)
    BY <2>1, <2>3
  <2> QED
    BY <2>1, <2>2, <2>4, ProducingMoves
<1> QED
  BY <1>1, <1>2

\* client::change_input_authority.
LEMMA ChangeProducing ==
  ASSUME NEW M \in SUBSET User, NEW D, Channels(up, D, auth), Producing(M, up, D, auth),
         NEW c \in M, NEW u \in User, NEW a \in User, ChangeAuthority(c, u, a),
         Unique(M, up, D, auth, u),
         a \in M \/ ((u \in M => u = c) /\ \E i \in 1..Len(D[c]) : IsQuit(D[c][i], a))
  PROVE  Producing(M, up', D, auth')
<1>1. CASE auth[c][u] = a
  <2>1. up' = up /\ auth' = auth
    BY <1>1 DEF ChangeAuthority
  <2> QED
    BY <2>1
<1>2. CASE auth[c][u] # a /\ auth[c][u] = c
  <2>1. a # c /\ GiveMove(c, u, a, up, auth, up', auth')
    BY <1>2 DEF ChangeAuthority, GiveMove
  <2> QED
    BY <1>2, <2>1, ProducingGive
<1>3. CASE auth[c][u] # a /\ auth[c][u] # c
  <2> DEFINE m == Request(u, a)
  <2>1. m \in Packet /\ m.type # "DELEGATE_AUTHORITY"
    BY DEF Request, Packet, AuthorityPacket
  <2>2. auth' = auth /\ up' = [up EXCEPT ![c] = Append(@, m)]
    BY <1>3 DEF ChangeAuthority
  <2> HIDE DEF m
  <2>3. up \in [User -> Seq(Packet)] /\ c \in User
    BY DEF Channels
  <2>4. /\ <<m>> \in Seq(Packet) /\ Giftless(<<m>>)
        /\ Append(up[c], m) = up[c] \o <<m>>
    BY <2>1, <2>3, Appended DEF Giftless
  <2>5. \A d \in User : Moves(up'[d], up[d]) /\ Moves(D[d], D[d])
    BY <2>2, <2>3, <2>4 DEF Moves
  <2> QED
    BY <2>2, <2>5, ProducingMoves
<1> QED
  BY <1>1, <1>2, <1>3

\* A client's inputs go up after the packets of before.
LEMMA SendProducing ==
  ASSUME TypeOK, NEW M \in SUBSET User, NEW U, NEW D, NEW A, NEW c \in User, NEW u \in User,
         NEW before \in Seq(Packet), NEW vs \in Seq(Input),
         U = [up EXCEPT ![c] = @ \o before], Channels(U, D, A), Producing(M, U, D, A),
         SendInputs(c, u, before, vs)
  PROVE  Producing(M, up', D, A)
<1> DEFINE ps == Packets(u, log[c][u], vs)
<1>1. up \in [User -> Seq(Packet)] /\ log[c][u] \in Seq(Input)
  BY DEF TypeOK
<1>2. ps \in Seq(Packet) /\ Giftless(ps)
  BY <1>1, PacketsType DEF Giftless
<1>3. up' = [up EXCEPT ![c] = @ \o before \o ps]
  BY DEF SendInputs
<1> HIDE DEF ps
<1>4. \A d \in User : up'[d] = IF d = c THEN U[c] \o ps ELSE U[d]
  BY <1>1, <1>3
<1>5. \A d \in User : Moves(up'[d], U[d]) /\ Moves(D[d], D[d])
  BY <1>2, <1>4 DEF Moves
<1> QED
  BY <1>5, ProducingMoves

\* The server appends packets without a gift to some channels.
LEMMA ProducingSent ==
  ASSUME NEW M \in SUBSET User, NEW U, NEW D, NEW A, NEW D2, Channels(U, D, A),
         Producing(M, U, D, A), NEW ps \in Seq(Packet), Giftless(ps),
         \A d \in User : D2[d] = D[d] \/ D2[d] = D[d] \o ps
  PROVE  Producing(M, U, D2, A)
<1>1. \A d \in User : Moves(U[d], U[d]) /\ Moves(D2[d], D[d])
  BY DEF Moves
<1>2. ASSUME NEW u \in M, Back(D[u], A[u][u], u) PROVE Back(D2[u], A[u][u], u)
  <2>1. D[u] \in Seq(Packet) /\ (D2[u] = D[u] \/ D2[u] = D[u] \o ps)
    BY DEF Channels
  <2> QED
    BY <1>2, <2>1, BackConcat
<1> QED
  BY <1>1, <1>2, ProducingMoves

LEMMA RelayProducing ==
  ASSUME TypeOK, NEW U, NEW A, Channels(U, down, A), Producing(members, U, down, A),
         NEW c \in User, NEW m \in InputPacket, RelayInputs(c, m)
  PROVE  Producing(members, U, down', A)
<1> DEFINE fresh == IF m.user \in members THEN Fresh(m, srvLog[m.user]) ELSE <<>>
           ps == Packets(m.user, srvLog[m.user], fresh)
<1>1. /\ m.user \in User /\ srvLog[m.user] \in Seq(Input) /\ down \in [User -> Seq(Packet)]
      /\ members \in SUBSET User
  BY DEF TypeOK, InputPacket
<1>2. fresh \in Seq(Input)
  BY <1>1, FreshType, EmptySeq
<1>3. SendAll(members \ {c}, ps)
  BY DEF RelayInputs
<1> HIDE DEF fresh
<1>4. ps \in Seq(Packet) /\ Giftless(ps)
  BY <1>1, <1>2, PacketsType DEF Giftless
<1> HIDE DEF ps
<1>5. \A d \in User : down'[d] = down[d] \/ down'[d] = down[d] \o ps
  BY <1>1, <1>3 DEF SendAll
<1> QED
  BY <1>1, <1>4, <1>5, ProducingSent

Quits(s, a) == \E i \in 1..Len(s) : IsQuit(s[i], a)

LEMMA QuitsTail ==
  ASSUME NEW s \in Seq(Packet), s # <<>>, NEW a, Quits(s, a), ~IsQuit(Head(s), a)
  PROVE  Quits(Tail(s), a)
BY Tailed DEF Quits

LEMMA QuitsConcat ==
  ASSUME NEW s \in Seq(Packet), NEW ps \in Seq(Packet), NEW a, Quits(s, a)
  PROVE  Quits(s \o ps, a)
BY Joined DEF Quits

\* Whom a client still lists though they left, it will learn of.
Leaving == \A c \in members : \A a \in present[c] \ members : Quits(down[c], a)

\* What a handler has left to do is about users its client lists.
Calls == \A c \in members : \A call \in todo[c] : call[2] \in present[c]

\* If anybody has left, there is no third user.
NoThird == members = User \/ (MaxQuits # 0 /\ \A d, e \in members : d = e)

ProducingNow == Producing(members, up, down, auth)
ProducerInv == Leaving /\ Calls /\ NoThird /\ ProducingNow

LEMMA LeavingStep ==
  ASSUME TypeOK, QuitOrder, Leaving, Calls, [Next]_vars
  PROVE  Leaving' /\ Calls'
<1> USE DEF serverVars, inputVars, controlVars
<1>1. /\ down \in [User -> Seq(Packet)] /\ present \in [User -> SUBSET User]
      /\ todo \in [User -> SUBSET (User \X User)] /\ members \subseteq User
      /\ up \in [User -> Seq(Packet)]
  BY DEF TypeOK
<1>2. ASSUME UNCHANGED <<members, present>>, ~(todo' = todo) => Calls',
             \A d \in members : \A a \in present[d] : Quits(down[d], a) => Quits(down'[d], a)
      PROVE  Leaving' /\ Calls'
  BY <1>2 DEF Leaving, Calls
<1>3. ASSUME NEW c \in User, Emulate(c) \/ Command(c) \/ ReceiveDatagram(c)
                               \/ ReceiveOrphanDatagram(c)
      PROVE  Leaving' /\ Calls'
  <2>1. UNCHANGED <<members, present, down>>
    <3>1. Emulate(c) => UNCHANGED <<members, present, down>>
      BY DEF Emulate, ProcessInput, SendInput, GolfSwing, ChangeNext, FinishInput, TakeInput
    <3>2. Command(c) => UNCHANGED <<members, present, down>>
      BY DEF Command, GolfCommand, AuthCommand
    <3> QED
      BY <1>3, <3>1, <3>2 DEF ReceiveDatagram, ReceiveOrphanDatagram
  <2>2. CASE todo' = todo
    BY <1>2, <2>1, <2>2
  <2>3. \A d \in members : d \in present[d]
    BY DEF QuitOrder, Sound
  <2>4. CASE GolfSwing(c)
    <3>1. todo' = [todo EXCEPT ![c] = present[c] \X {c}] /\ c \in members
      BY <2>4 DEF GolfSwing
    <3>2. \A call \in present[c] \X {c} : call[2] = c
      OBVIOUS
    <3>3. Calls'
      BY <1>1, <2>1, <2>3, <3>1, <3>2 DEF Calls
    <3> QED
      BY <1>2, <2>1, <3>3
  <2>5. CASE ChangeNext(c)
    <3>1. PICK call \in todo[c] : todo' = [todo EXCEPT ![c] = @ \ {call}]
      BY <2>5 DEF ChangeNext
    <3>2. \A d \in members : todo'[d] \subseteq todo[d]
      BY <1>1, <3>1
    <3>3. Calls'
      BY <2>1, <3>2 DEF Calls
    <3> QED
      BY <1>2, <2>1, <3>3
  <2>6. CASE GolfCommand(c)
    <3>1. PICK golf \in GolfModes :
             todo' = [todo EXCEPT ![c] = {<<u, IF golf THEN c ELSE u>> : u \in present[c]}]
      BY <2>6 DEF GolfCommand
    <3>2. c \in members
      BY <2>6 DEF GolfCommand, ServiceIdle
    <3>3. \A call \in {<<u, IF golf THEN c ELSE u>> : u \in present[c]} : call[2] \in present[c]
      BY <2>3, <3>2
    <3>4. Calls'
      BY <1>1, <2>1, <3>1, <3>3 DEF Calls
    <3> QED
      BY <1>2, <2>1, <3>4
  <2>7. todo' = todo \/ GolfSwing(c) \/ ChangeNext(c) \/ GolfCommand(c)
    <3>1. Emulate(c) => todo' = todo \/ GolfSwing(c) \/ ChangeNext(c)
      BY DEF Emulate, ProcessInput, SendInput, FinishInput, TakeInput
    <3>2. Command(c) => todo' = todo \/ GolfCommand(c)
      BY DEF Command, AuthCommand
    <3> QED
      BY <1>3, <3>1, <3>2 DEF ReceiveDatagram, ReceiveOrphanDatagram
  <2> QED
    BY <2>2, <2>4, <2>5, <2>6, <2>7
<1>4. ASSUME NEW c \in User, Receive(c) PROVE Leaving' /\ Calls'
  <2>1. /\ c \in members /\ todo[c] = {} /\ down[c] # <<>> /\ UNCHANGED <<members, todo>>
        /\ down' = [down EXCEPT ![c] = Tail(@)]
    BY <1>4 DEF Receive, ReceiveInput, ReceiveDelegate, ReceiveRequest, ReceiveQuit,
                Receives, ServiceIdle, Consume
  <2>2. \/ present' = present /\ Head(down[c]).type # "QUIT"
        \/ present' = [present EXCEPT ![c] = @ \ {Head(down[c]).user}]
    BY <1>4 DEF Receive, ReceiveInput, ReceiveDelegate, ReceiveRequest, ReceiveQuit,
                Receives, Consume
  <2>3. \A d \in members : /\ present'[d] \subseteq present[d]
                           /\ d # c => present'[d] = present[d] /\ down'[d] = down[d]
    BY <1>1, <2>1, <2>2
  <2>4. \A a \in present'[c] : ~IsQuit(Head(down[c]), a)
    BY <1>1, <2>1, <2>2 DEF IsQuit
  <2>5. ASSUME NEW a \in present'[c] \ members PROVE Quits(down'[c], a)
    <3>1. Quits(down[c], a) /\ ~IsQuit(Head(down[c]), a)
      BY <2>1, <2>3, <2>4 DEF Leaving
    <3>2. down'[c] = Tail(down[c]) /\ down[c] \in Seq(Packet)
      BY <1>1, <2>1
    <3> QED
      BY <2>1, <3>1, <3>2, QuitsTail
  <2>6. Leaving'
    BY <2>1, <2>3, <2>5 DEF Leaving
  <2>7. Calls'
    BY <2>1, <2>3 DEF Calls
  <2> QED
    BY <2>6, <2>7
<1>5. ASSUME NEW c \in User, Serve(c) \/ ServerDatagram(c) PROVE Leaving' /\ Calls'
  <2>1. UNCHANGED <<members, present, todo>>
    BY <1>5 DEF Serve, ServerInput, ServerDelegate, ServerRequest, ServerDatagram
  <2>2. \/ down' = down \/ \E m \in InputPacket : RelayInputs(c, m)
        \/ \E m \in Packet : SendAll(members \ {c}, <<m>>)
    <3>1. CASE ServerDatagram(c)
      BY <3>1 DEF ServerDatagram, TypeOK
    <3>2. ASSUME up[c] # <<>>
          PROVE  /\ Head(up[c]) \in Packet
                 /\ Head(up[c]).type = "INPUT_DATA" => Head(up[c]) \in InputPacket
      BY <1>1, <3>2, QueueParts, PacketParts
    <3>3. CASE ServerInput(c)
      BY <3>2, <3>3 DEF ServerInput, Handles
    <3>4. CASE ServerDelegate(c)
      BY <3>2, <3>4 DEF ServerDelegate, Handles
    <3>5. CASE ServerRequest(c)
      BY <3>2, <3>5 DEF ServerRequest, Handles
    <3> QED
      BY <1>5, <3>1, <3>3, <3>4, <3>5 DEF Serve
  <2>3. \E ps \in Seq(Packet) : \A d \in User : down'[d] = down[d] \/ down'[d] = down[d] \o ps
    <3>1. CASE down' = down
      <4>1. <<>> \in Seq(Packet)
        BY EmptySeq
      <4> QED
        BY <3>1, <4>1
    <3>2. ASSUME NEW m \in InputPacket, RelayInputs(c, m)
          PROVE  \E ps \in Seq(Packet) : \A d \in User : down'[d] = down[d] \/ down'[d] = down[d] \o ps
      <4> DEFINE fresh == IF m.user \in members THEN Fresh(m, srvLog[m.user]) ELSE <<>>
                 ps == Packets(m.user, srvLog[m.user], fresh)
      <4>1. m.user \in User /\ srvLog[m.user] \in Seq(Input)
        BY DEF TypeOK, InputPacket
      <4>2. fresh \in Seq(Input)
        BY <4>1, FreshType, EmptySeq
      <4>3. SendAll(members \ {c}, ps)
        BY <3>2 DEF RelayInputs
      <4> HIDE DEF fresh
      <4>4. ps \in Seq(Packet)
        BY <4>1, <4>2, PacketsType
      <4> HIDE DEF ps
      <4> QED
        BY <4>3, <4>4 DEF SendAll
    <3>3. ASSUME NEW m \in Packet, SendAll(members \ {c}, <<m>>)
          PROVE  \E ps \in Seq(Packet) : \A d \in User : down'[d] = down[d] \/ down'[d] = down[d] \o ps
      <4> DEFINE ps == <<m>>
      <4>1. ps \in Seq(Packet) /\ SendAll(members \ {c}, ps)
        BY <3>3
      <4> HIDE DEF ps
      <4> QED
        BY <4>1 DEF SendAll
    <3> QED
      BY <2>2, <3>1, <3>2, <3>3
  <2>4. \A d \in members : \A a \in present[d] : Quits(down[d], a) => Quits(down'[d], a)
    BY <1>1, <2>3, QuitsConcat
  <2> QED
    BY <1>2, <2>1, <2>4
<1>6. ASSUME NEW c \in User, ServerQuit(c) PROVE Leaving' /\ Calls'
  <2>1. /\ members' = members \ {c}
        /\ \A d \in members' : /\ present'[d] = present[d] /\ todo'[d] = todo[d]
                               /\ down'[d] = Append(down[d], Quit(c))
    BY <1>1, <1>6 DEF ServerQuit
  <2>2. ASSUME NEW d \in members', NEW a \in present'[d] \ members' PROVE Quits(down'[d], a)
    <3>1. /\ Quit(c) \in Packet /\ IsQuit(Quit(c), c)
          /\ down[d] \in Seq(Packet) /\ down'[d] = Append(down[d], Quit(c))
      BY <1>1, <2>1 DEF Quit, Packet, QuitPacket, IsQuit
    <3>2. CASE a = c
      <4>1. /\ Len(down'[d]) = Len(down[d]) + 1 /\ Len(down[d]) \in Nat
            /\ down'[d][Len(down[d]) + 1] = Quit(c)
        BY <3>1, Appended
      <4>2. Len(down[d]) + 1 \in 1..Len(down'[d])
        BY <4>1
      <4> QED
        BY <3>1, <3>2, <4>1, <4>2 DEF Quits
    <3>3. CASE a # c
      <4>1. Quits(down[d], a)
        BY <2>1, <2>2, <3>3 DEF Leaving
      <4> DEFINE ps == <<Quit(c)>>
      <4>2. ps \in Seq(Packet) /\ down'[d] = down[d] \o ps
        BY <3>1, Appended
      <4> HIDE DEF ps
      <4> QED
        BY <3>1, <4>1, <4>2, QuitsConcat
    <3> QED
      BY <3>2, <3>3
  <2>3. Calls'
    BY <2>1 DEF Calls
  <2> QED
    BY <2>2, <2>3 DEF Leaving
<1>7. CASE UNCHANGED vars
  BY <1>7 DEF vars, Leaving, Calls
<1> QED
  BY <1>3, <1>4, <1>5, <1>6, <1>7 DEF Next, Finished, ReceiveUdp

\* A client calls change_input_authority about somebody it lists.
LEMMA CallProducing ==
  ASSUME TypeOK, NoThird, NEW D, Channels(up, D, auth), Producing(members, up, D, auth),
         NEW c \in members, NEW u \in User, NEW a \in User, a \in members \/ Quits(D[c], a),
         Unique(members, up, D, auth, u), ChangeAuthority(c, u, a)
  PROVE  Producing(members, up', D, auth')
<1>1. members \in SUBSET User
  BY DEF TypeOK
<1>2. a \in members \/ ((u \in members => u = c) /\ \E i \in 1..Len(D[c]) : IsQuit(D[c][i], a))
  BY DEF NoThird, Quits
<1> QED
  BY <1>1, <1>2, ChangeProducing

LEMMA ProducingClient ==
  ASSUME StreamInv, TypeOK', ProducerInv,
         NEW c \in User, Emulate(c) \/ Command(c) \/ Receive(c) \/ ReceiveDatagram(c)
  PROVE  ProducingNow'
<1> USE DEF serverVars, inputVars, controlVars, ProducingNow
<1> DEFINE m == Head(down[c])
<1>1. /\ TypeOK /\ QuitOrder /\ Leaving /\ Calls /\ NoThird /\ ProducingNow
      /\ down \in [User -> Seq(Packet)] /\ auth \in [User -> [User -> User]]
      /\ up \in [User -> Seq(Packet)] /\ todo \in [User -> SUBSET (User \X User)]
      /\ present \in [User -> SUBSET User] /\ members \in SUBSET User
      /\ Channels(up, down, auth) /\ <<>> \in Seq(Packet)
      /\ \A u \in User : Unique(members, up, down, auth, u)
  BY EmptySeq DEF StreamInv, ProducerInv, StreamsNow, Streams, Authority, Settled, TypeOK,
                  Channels
<1>2. CASE UNCHANGED <<members, up, down, auth>>
  BY <1>1, <1>2
<1>3. \A a \in present[c] : c \in members => a \in members \/ Quits(down[c], a)
  BY <1>1 DEF Leaving
<1>4. ASSUME NEW u \in User, SendInput(c, u) PROVE ProducingNow'
  <2>1. PICK v \in Input : SendInputs(c, u, <<>>, <<v>>)
    BY <1>4 DEF SendInput
  <2> DEFINE vs == <<v>>
             before == <<>>
  <2>2. vs \in Seq(Input) /\ before \in Seq(Packet) /\ SendInputs(c, u, before, vs)
    BY <1>1, <2>1
  <2>3. up = [up EXCEPT ![c] = @ \o before]
    BY <1>1, ConcatEmptySeq
  <2> HIDE DEF vs, before
  <2>4. UNCHANGED <<members, down, auth>>
    BY <1>4 DEF SendInput
  <2> QED
    BY <1>1, <2>2, <2>3, <2>4, SendProducing
<1>5. CASE ChangeNext(c)
  <2>1. PICK call \in todo[c] : ChangeAuthority(c, call[1], call[2])
    BY <1>5 DEF ChangeNext
  <2>2. c \in members /\ UNCHANGED <<members, down>>
    BY <1>5 DEF ChangeNext
  <2>3. call[1] \in User /\ call[2] \in User
    BY <1>1
  <2>4. call[2] \in members \/ Quits(down[c], call[2])
    BY <1>1, <1>3, <2>2 DEF Calls
  <2> QED
    BY <1>1, <2>1, <2>2, <2>3, <2>4, CallProducing
<1>6. ASSUME NEW u \in User, NEW a \in User, AuthCommand(c, u, a) PROVE ProducingNow'
  <2>1. /\ ChangeAuthority(c, u, a) /\ UNCHANGED <<members, down>>
        /\ c \in members /\ a \in present[c]
    BY <1>6 DEF AuthCommand, ServiceIdle
  <2> QED
    BY <1>1, <1>3, <2>1, CallProducing
<1>7. CASE ReceiveDatagram(c)
  <2>1. PICK n \in downUdp[c] : n.user \in present[c] /\ AcceptInputs(c, n)
    BY <1>7 DEF ReceiveDatagram
  <2>2. UNCHANGED <<members, down>> /\ n.user \in User /\ c \in members
    BY <1>1, <1>7, <2>1 DEF ReceiveDatagram, ServiceIdle
  <2>3. ChangeAuthority(c, c, n.user) \/ (auth' = auth /\ up' = up)
    BY <2>1 DEF AcceptInputs
  <2>4. CASE auth' = auth /\ up' = up
    BY <1>2, <2>2, <2>4
  <2> QED
    BY <1>1, <1>3, <2>1, <2>2, <2>3, <2>4, CallProducing
<1>8. CASE Receive(c)
  <2>1. /\ c \in members /\ down[c] # <<>> /\ members' = members
        /\ down' = [down EXCEPT ![c] = Tail(@)]
    BY <1>8 DEF Receive, ReceiveInput, ReceiveDelegate, ReceiveRequest, ReceiveQuit,
                Receives, ServiceIdle, Consume
  <2>2. /\ m \in Packet /\ m.user \in User /\ down[c] \in Seq(Packet)
        /\ m.type \in {"DELEGATE_AUTHORITY", "REQUEST_AUTHORITY"} => m.authority \in User
    BY <1>1, <2>1, QueueParts, PacketParts
  <2>3. m.type \in {"DELEGATE_AUTHORITY", "REQUEST_AUTHORITY"}
           => {m.user, m.authority} \subseteq present[c]
    BY <1>1, <2>1, <2>2, SoundTail DEF QuitOrder, Names
  <2>4. down' \in [User -> Seq(Packet)] /\ down'[c] = Tail(down[c])
    BY <1>1, <2>1 DEF TypeOK
  <2> HIDE DEF m
  <2>5. ASSUME m.type \in {"INPUT_DATA", "REQUEST_AUTHORITY"}
        PROVE  /\ Channels(up, down', auth) /\ Producing(members, up, down', auth)
               /\ \A u \in User : Unique(members, up, down', auth, u)
               /\ \A a \in present[c] : a \in members \/ Quits(down'[c], a)
    <3>1. TakeMove(c, down, auth, down', auth)
      BY <2>1, <2>5 DEF TakeMove, m
    <3>2. Channels(up, down', auth)
      BY <1>1, <2>4 DEF Channels
    <3>3. Producing(members, up, down', auth)
      BY <1>1, <2>1, <2>5, <3>1, ProducingHandle DEF m
    <3>4. ASSUME NEW u \in User PROVE Unique(members, up, down', auth, u)
      <4>1. ~IsGift(Head(down[c]), u)
        BY <2>5 DEF IsGift, m
      <4>2. Later(down'[c], down[c], u)
        BY <2>1, <2>2, <2>4, TailLater
      <4>3. \A d \in members : d # c => Later(down'[d], down[d], u)
        BY <1>1, <2>1, AlikeSame, AlikeLater
      <4> QED
        BY <1>1, <4>2, <4>3, UniqueLater
    <3>5. ASSUME NEW a \in present[c], a \notin members PROVE Quits(down'[c], a)
      <4>1. ~IsQuit(Head(down[c]), a) /\ Quits(down[c], a)
        BY <1>3, <2>1, <2>5, <3>5 DEF IsQuit, m
      <4> QED
        BY <2>1, <2>2, <2>4, <4>1, QuitsTail
    <3> QED
      BY <3>2, <3>3, <3>4, <3>5
  <2>6. CASE ReceiveInput(c)
    <3>1. m.type = "INPUT_DATA" /\ m.user \in present[c] /\ AcceptInputs(c, m)
      BY <2>6 DEF ReceiveInput, Receives, m
    <3>2. ChangeAuthority(c, c, m.user) \/ (auth' = auth /\ up' = up)
      BY <3>1 DEF AcceptInputs
    <3>3. CASE ChangeAuthority(c, c, m.user)
      BY <1>1, <2>1, <2>2, <2>5, <3>1, <3>3, CallProducing
    <3>4. CASE auth' = auth /\ up' = up
      BY <2>1, <2>5, <3>1, <3>4
    <3> QED
      BY <3>2, <3>3, <3>4
  <2>7. CASE ReceiveRequest(c)
    <3>1. /\ m.type = "REQUEST_AUTHORITY"
          /\ ChangeAuthority(c, m.user, m.authority) \/ (auth' = auth /\ up' = up)
      BY <2>7 DEF ReceiveRequest, Receives, m
    <3>2. CASE ChangeAuthority(c, m.user, m.authority)
      BY <1>1, <2>1, <2>2, <2>3, <2>5, <3>1, <3>2, CallProducing
    <3>3. CASE auth' = auth /\ up' = up
      BY <2>1, <2>5, <3>1, <3>3
    <3> QED
      BY <3>1, <3>2, <3>3
  <2>8. CASE ReceiveDelegate(c)
    <3>1. m.type = "DELEGATE_AUTHORITY"
      BY <2>8 DEF ReceiveDelegate, Receives, m
    <3>2. {m.user, m.authority} \subseteq present[c]
      BY <2>3, <3>1
    <3>3. /\ auth' = [auth EXCEPT ![c][m.user] = m.authority]
          /\ \/ up' = up
             \/ \E v \in Input : SendInputs(c, m.user, <<>>, <<v, v>>)
      BY <2>8, <3>2 DEF ReceiveDelegate, m
    <3>4. Producing(members, up, down', auth')
      <4>1. TakeMove(c, down, auth, down', auth')
        BY <2>1, <3>1, <3>3 DEF TakeMove, m
      <4> QED
        BY <1>1, <2>1, <3>1, <4>1, ProducingTake DEF m
    <3>5. Channels(up, down', auth')
      BY <1>1, <2>4 DEF Channels, TypeOK
    <3>6. CASE up' = up
      BY <2>1, <3>4, <3>6
    <3>7. ASSUME NEW v \in Input, SendInputs(c, m.user, <<>>, <<v, v>>) PROVE ProducingNow'
      <4> DEFINE vs == <<v, v>>
                 before == <<>>
      <4>1. vs \in Seq(Input) /\ before \in Seq(Packet) /\ SendInputs(c, m.user, before, vs)
        BY <1>1, <3>7
      <4>2. up = [up EXCEPT ![c] = @ \o before]
        BY <1>1, ConcatEmptySeq
      <4> HIDE DEF vs, before
      <4> QED
        BY <1>1, <2>1, <2>2, <3>4, <3>5, <4>1, <4>2, SendProducing
    <3> QED
      BY <3>3, <3>6, <3>7
  <2>9. CASE ReceiveQuit(c)
    <3>1. /\ m.type = "QUIT"
          /\ \/ /\ auth[c][c] = m.user /\ auth' = [auth EXCEPT ![c][c] = c]
                /\ \E v \in Input : SendInputs(c, c, <<Delegate(c, c)>>, <<v>>)
             \/ auth[c][c] # m.user /\ UNCHANGED <<auth, up>>
      BY <2>9 DEF ReceiveQuit, Receives, m
    <3>2. CASE auth[c][c] # m.user
      <4>1. TakeMove(c, down, auth, down', auth)
        BY <2>1, <3>1 DEF TakeMove, m
      <4>2. Producing(members, up, down', auth)
        BY <1>1, <2>1, <3>2, <4>1, ProducingHandle DEF m
      <4> QED
        BY <2>1, <3>1, <3>2, <4>2
    <3>3. CASE auth[c][c] = m.user
      <4>1. PICK v \in Input : SendInputs(c, c, <<Delegate(c, c)>>, <<v>>)
        BY <3>1, <3>3
      <4> DEFINE vs == <<v>>
                 before == <<Delegate(c, c)>>
                 U == [up EXCEPT ![c] = @ \o before]
      <4>2. Delegate(c, c) \in Packet
        BY DEF Delegate, Packet, AuthorityPacket
      <4>3. /\ vs \in Seq(Input) /\ before \in Seq(Packet)
            /\ SendInputs(c, c, before, vs) /\ U = [up EXCEPT ![c] = @ \o before]
        BY <4>1, <4>2
      <4>4. U = [up EXCEPT ![c] = Append(@, Delegate(c, c))]
        <5>1. up[c] \o <<Delegate(c, c)>> = Append(up[c], Delegate(c, c))
          BY <1>1, <4>2, AppendIsConcat
        <5> QED
          BY <5>1
      <4>5. U \in [User -> Seq(Packet)]
        BY <1>1, <4>3, Joined
      <4> HIDE DEF vs, before, U
      <4>6. TakeBackMove(c, up, down, auth, U, down', auth')
        BY <2>1, <3>1, <3>3, <4>4 DEF TakeBackMove, m
      <4>7. Producing(members, U, down', auth')
        <5>1. Streams(members, srvLog, up, down, auth, log)
          BY DEF StreamInv, StreamsNow
        <5> QED
          BY <1>1, <2>1, <4>6, <5>1, ProducingTakeBack
      <4>8. Channels(U, down', auth')
        BY <2>4, <4>5 DEF Channels, TypeOK
      <4> QED
        BY <1>1, <2>1, <4>3, <4>7, <4>8, SendProducing
    <3> QED
      BY <3>2, <3>3
  <2> QED
    BY <1>8, <2>6, <2>7, <2>8, <2>9 DEF Receive
<1>9. \/ UNCHANGED <<members, up, down, auth>> \/ \E u \in User : SendInput(c, u)
      \/ ChangeNext(c) \/ \E u, a \in User : AuthCommand(c, u, a)
      \/ Receive(c) \/ ReceiveDatagram(c)
  BY DEF Emulate, Command, ProcessInput, GolfSwing, FinishInput, TakeInput, GolfCommand
<1> QED
  BY <1>2, <1>4, <1>5, <1>6, <1>7, <1>8, <1>9

LEMMA ProducingServer ==
  ASSUME StreamInv, TypeOK', ProducerInv, NEW c \in User, Serve(c) \/ ServerDatagram(c)
  PROVE  ProducingNow'
<1> USE DEF serverVars, inputVars, controlVars, ProducingNow
<1> DEFINE m == Head(up[c])
<1>1. /\ TypeOK /\ up \in [User -> Seq(Packet)] /\ down \in [User -> Seq(Packet)]
      /\ Channels(up, down, auth) /\ members \in SUBSET User /\ ProducingNow
      /\ Streams(members, srvLog, up, down, auth, log)
  BY DEF StreamInv, StreamsNow, TypeOK, Channels, ProducerInv
<1>2. CASE ServerDatagram(c)
  <2>1. PICK n \in upUdp[c] : RelayInputs(c, n)
    BY <1>2 DEF ServerDatagram
  <2>2. n \in InputPacket /\ UNCHANGED <<members, up, auth>>
    BY <1>1, <1>2 DEF ServerDatagram, TypeOK
  <2> QED
    BY <1>1, <2>1, <2>2, RelayProducing
<1>3. CASE Serve(c)
  <2>1. /\ up[c] # <<>> /\ up' = [up EXCEPT ![c] = Tail(@)] /\ auth' = auth
        /\ members' = members /\ c \in members
    BY <1>3 DEF Serve, ServerInput, ServerDelegate, ServerRequest, Handles
  <2>2. m \in Packet /\ m.user \in User
    BY <1>1, <2>1, QueueParts, PacketParts
  <2>3. Channels(up', down, auth)
    BY <1>1 DEF TypeOK, Channels
  <2>4. ASSUME m.type # "DELEGATE_AUTHORITY" PROVE Producing(members, up', down, auth)
    <3>1. \A d \in User : Moves(up'[d], up[d]) /\ Moves(down[d], down[d])
      BY <1>1, <2>1, <2>4 DEF Moves
    <3> QED
      BY <1>1, <3>1, ProducingMoves
  <2> HIDE DEF m
  <2>5. CASE ServerInput(c)
    <3>1. m.type = "INPUT_DATA" /\ RelayInputs(c, m)
      BY <2>5 DEF ServerInput, Handles, m
    <3>2. m \in InputPacket
      BY <2>2, <3>1, PacketParts
    <3> QED
      BY <1>1, <2>1, <2>3, <2>4, <3>1, <3>2, RelayProducing
  <2>6. CASE ServerRequest(c)
    <3>1. /\ m.type = "REQUEST_AUTHORITY"
          /\ SendAll(members \ {c}, <<m>>) \/ down' = down
      BY <2>6 DEF ServerRequest, Handles, m
    <3> DEFINE ps == <<m>>
    <3>2. ps \in Seq(Packet) /\ Giftless(ps)
      BY <2>2, <3>1, Appended DEF Giftless
    <3>3. \A d \in User : down'[d] = down[d] \/ down'[d] = down[d] \o ps
      BY <1>1, <3>1 DEF SendAll
    <3> HIDE DEF ps
    <3> QED
      BY <1>1, <2>1, <2>3, <2>4, <3>1, <3>2, <3>3, ProducingSent
  <2>7. CASE ServerDelegate(c)
    <3>1. m.type = "DELEGATE_AUTHORITY"
      BY <2>7 DEF ServerDelegate, Handles, m
    <3>2. CASE m.user \in members /\ m.authority \in members
      <4>1. SendAll(members \ {c}, <<m>>)
        BY <2>7, <3>2 DEF ServerDelegate, m
      <4>2. down' = [d \in User |-> IF d \in members \ {c} THEN Append(down[d], m) ELSE down[d]]
        BY <1>1, <2>2, <4>1, SendOne
      <4>3. PassMove(members, c, up, down, up', down')
        BY <2>1, <4>2 DEF PassMove, m
      <4>4. Producing(members, up', down', auth)
        <5> DEFINE U2 == up'
                   D2 == down'
        <5>1. /\ PassMove(members, c, up, down, U2, D2)
              /\ Head(up[c]).type = "DELEGATE_AUTHORITY"
              /\ Head(up[c]).user \in members /\ Head(up[c]).authority \in members
          BY <3>1, <3>2, <4>3 DEF m
        <5> HIDE DEF U2, D2
        <5>2. Producing(members, U2, D2, auth)
          BY <1>1, <2>1, <5>1, ProducingPass
        <5> QED
          BY <5>2 DEF U2, D2
      <4> QED
        BY <2>1, <4>4
    <3>3. CASE ~(m.user \in members /\ m.authority \in members)
      <4>1. down' = down
        BY <2>7, <3>3 DEF ServerDelegate, m
      <4>2. DropMove(c, up, up')
        BY <2>1 DEF DropMove
      <4>3. Producing(members, up', down, auth)
        BY <1>1, <2>1, <3>3, <4>2, ProducingDrop DEF m
      <4> QED
        BY <2>1, <4>1, <4>3
    <3> QED
      BY <3>2, <3>3
  <2> QED
    BY <1>3, <2>5, <2>6, <2>7 DEF Serve
<1> QED
  BY <1>2, <1>3

LEMMA ProducingQuit ==
  ASSUME StreamInv, TypeOK', ProducerInv, NEW c \in User, ServerQuit(c), NoThird'
  PROVE  ProducingNow'
<1>1. /\ up \in [User -> Seq(Packet)] /\ down \in [User -> Seq(Packet)]
      /\ auth \in [User -> [User -> User]] /\ members \in SUBSET User
      /\ Streams(members, srvLog, up, down, auth, log) /\ Producing(members, up, down, auth)
  BY DEF StreamInv, StreamsNow, TypeOK, ProducerInv, ProducingNow
<1>2. /\ c \in members /\ members' = members \ {c}
      /\ \A d \in members' : /\ up'[d] = up[d] /\ auth'[d] = auth[d]
                             /\ down'[d] = Append(down[d], Quit(c))
  BY <1>1 DEF ServerQuit
<1>3. \A d, e \in members' : d = e
  BY <1>2 DEF NoThird
<1> DEFINE M2 == members'
           U2 == up'
           D2 == down'
           A2 == auth'
<1>4. /\ c \in members /\ M2 = members \ {c} /\ \A d, e \in M2 : d = e
      /\ \A d \in M2 : U2[d] = up[d] /\ A2[d] = auth[d] /\ D2[d] = Append(down[d], Quit(c))
  BY <1>2, <1>3
<1> HIDE DEF M2, U2, D2, A2
<1>5. Producing(M2, U2, D2, A2)
  <2> DEFINE S == srvLog
             L == log
             M == members
             U == up
             D == down
             A == auth
  <2>1. /\ Streams(M, S, U, D, A, L) /\ Producing(M, U, D, A) /\ c \in M /\ M2 = M \ {c}
        /\ \A d \in M2 : U2[d] = U[d] /\ A2[d] = A[d] /\ D2[d] = Append(D[d], Quit(c))
        /\ \A d, e \in M2 : d = e
    BY <1>1, <1>4
  <2> HIDE DEF S, L, M, U, D, A
  <2> QED
    BY <2>1, ProducingLeave
<1> QED
  BY <1>5 DEF ProducingNow, M2, U2, D2, A2

LEMMA ProducerStep ==
  ASSUME MaxQuits = 0 \/ \A a, b, c \in User : a = b \/ b = c \/ c = a,
         StreamInv, TypeOK', ProducerInv, [Next]_vars
  PROVE  ProducerInv'
<1> USE DEF serverVars, inputVars, controlVars
<1>1. TypeOK /\ members \in SUBSET User
  BY DEF StreamInv, TypeOK
<1>2. Leaving' /\ Calls'
  BY LeavingStep DEF StreamInv, ProducerInv
<1>3. CASE UNCHANGED vars
  BY <1>2, <1>3 DEF vars, ProducerInv, NoThird, ProducingNow
<1>4. ASSUME NEW c \in User,
             Emulate(c) \/ Receive(c) \/ Serve(c) \/ ReceiveUdp(c) \/ Command(c)
      PROVE  NoThird' /\ ProducingNow'
  <2>1. members' = members
    <3>1. Emulate(c) \/ Command(c) => members' = members
      BY DEF Emulate, ProcessInput, SendInput, GolfSwing, ChangeNext, FinishInput, TakeInput,
             Command, GolfCommand, AuthCommand
    <3>2. Receive(c) => members' = members
      BY DEF Receive, ReceiveInput, ReceiveDelegate, ReceiveRequest, ReceiveQuit
    <3>3. Serve(c) => members' = members
      BY DEF Serve, ServerInput, ServerDelegate, ServerRequest
    <3>4. ReceiveUdp(c) => members' = members
      BY DEF ReceiveUdp, ReceiveDatagram, ReceiveOrphanDatagram, ServerDatagram
    <3> QED
      BY <1>4, <3>1, <3>2, <3>3, <3>4
  <2>2. NoThird'
    BY <2>1 DEF ProducerInv, NoThird
  <2>3. CASE ReceiveOrphanDatagram(c)
    BY <2>2, <2>3 DEF ReceiveOrphanDatagram, ProducerInv, ProducingNow
  <2> QED
    BY <1>4, <2>2, <2>3, ProducingClient, ProducingServer DEF ReceiveUdp
<1>5. ASSUME NEW c \in User, ServerQuit(c) PROVE NoThird' /\ ProducingNow'
  <2>1. c \in members /\ members' = members \ {c} /\ Cardinality(User \ members) < MaxQuits
    BY <1>5 DEF ServerQuit
  <2>2. MaxQuits # 0
    <3>1. CASE members = User
      <4>1. User \ members = {}
        BY <3>1
      <4>2. Cardinality(User \ members) = 0
        BY <4>1, FS_EmptySet
      <4> QED
        BY <2>1, <4>2
    <3> QED
      BY <3>1 DEF ProducerInv, NoThird
  <2>3. \A d, e \in members' : d = e
    BY <1>1, <2>1, <2>2
  <2>4. NoThird'
    BY <2>2, <2>3 DEF NoThird
  <2> QED
    BY <1>5, <2>4, ProducingQuit
<1>6. NoThird' /\ ProducingNow'
  BY <1>3, <1>4, <1>5 DEF Next, Finished, vars, ProducerInv, NoThird, ProducingNow
<1> QED
  BY <1>2, <1>6 DEF ProducerInv

(* As long as nobody leaves, and among at most two users even when one     *)
(* does, a user's inputs never lose their producer: once the packets sent  *)
(* over TCP are handled, somebody present has the authority over them,     *)
(* whatever was delegated, requested or taken back on the way.  With three *)
(* users an authority delegated to one who is leaving can be lost.         *)
THEOREM AlwaysAProducerAlways ==
  ASSUME MaxQuits = 0 \/ \A a, b, c \in User : a = b \/ b = c \/ c = a
  PROVE  Spec => []AlwaysAProducer
<1>1. Init => ProducerInv
  <2> SUFFICES ASSUME Init PROVE ProducerInv
    OBVIOUS
  <2>1. Len(<<>>) = 0
    BY EmptySeq
  <2>2. \A c \in User : /\ up[c] = <<>> /\ down[c] = <<>> /\ present[c] = User /\ todo[c] = {}
                        /\ \A u \in User : auth[c][u] = u
    BY DEF Init
  <2>3. members = User
    BY DEF Init
  <2>4. \A c, u \in User : \A a : /\ Gifts(up[c], u) = {} /\ Gifts(down[c], u) = {}
                                  /\ Delegates(up[c], u, a) = {} /\ Delegates(down[c], u, a) = {}
    BY <2>1, <2>2 DEF Gifts, Delegates
  <2>5. ASSUME NEW u \in User, NEW c \in User PROVE LastWord(members, up, down, auth, u, c)
    <3>1. Sole(members, up, u, c) /\ Up(members, up, u, c) = {} /\ Down(down, u, c) = {}
      BY <2>3, <2>4 DEF Sole, Up, Down
    <3> QED
      BY <2>4, <3>1 DEF LastWord
  <2>6. ASSUME NEW u \in User PROVE Produced(members, up, down, auth, u)
    BY <2>2, <2>3 DEF Produced, Somewhere
  <2>7. ProducingNow
    BY <2>3, <2>5, <2>6 DEF ProducingNow, Producing
  <2>8. Leaving /\ Calls /\ NoThird
    BY <2>2, <2>3 DEF Leaving, Calls, NoThird
  <2> QED
    BY <2>7, <2>8 DEF ProducerInv
<1>2. StreamInv /\ StreamInv' /\ ProducerInv /\ [Next]_vars => ProducerInv'
  BY ProducerStep DEF StreamInv
<1>3. StreamInv /\ ProducerInv => AlwaysAProducer
  <2> SUFFICES ASSUME StreamInv, ProducerInv, Quiet, NEW u \in members
               PROVE  \E c \in members : auth[c][u] = c
    BY DEF AlwaysAProducer, Holders
  <2>1. Len(<<>>) = 0 /\ members \subseteq User
    BY EmptySeq DEF StreamInv, TypeOK
  <2>2. \A c \in members : up[c] = <<>> /\ down[c] = <<>>
    BY DEF Quiet
  <2>3. \A c \in members : Up(members, up, u, c) = {} /\ Down(down, u, c) = {}
    BY <2>1, <2>2 DEF Up, Down, Delegates
  <2>4. ~Back(down[u], auth[u][u], u)
    BY <2>1, <2>2 DEF Back
  <2>5. Produced(members, up, down, auth, u)
    BY <2>1 DEF ProducerInv, ProducingNow, Producing
  <2> QED
    BY <2>3, <2>4, <2>5 DEF Produced, Somewhere
<1> QED
  BY <1>1, <1>2, <1>3, StreamInvAlways, PTL DEF Spec

=============================================================================
