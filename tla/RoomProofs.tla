----------------------------- MODULE RoomProofs -----------------------------
(* Why the members of a room understand each other, for any number of      *)
(* clients, commands and departures: every client's list of users has the  *)
(* users that the server's had when it sent the packet the client handles  *)
(* next, so that ids and positions mean the same to both; and why nobody   *)
(* waits for an answer that does not come, or starts without the others.   *)
EXTENDS Room, SequenceTheorems, FiniteSetTheorems, WellFoundedInduction, TLAPS

-----------------------------------------------------------------------------
(* Channels hold records of different shapes.  All that matters of one here *)
(* is that it is a sequence of something.                                   *)

IsChannel(s) == s \in Seq({s[i] : i \in DOMAIN s})

LEMMA ChannelParts ==
  ASSUME NEW s, IsChannel(s)
  PROVE  Len(s) \in Nat /\ DOMAIN s = 1..Len(s)
BY LenProperties DEF IsChannel

LEMMA ChannelOf ==
  ASSUME NEW S, NEW s \in Seq(S)
  PROVE  IsChannel(s)
<1>1. Len(s) \in Nat /\ DOMAIN s = 1..Len(s) /\ s \in [1..Len(s) -> S]
  BY LenProperties
<1>2. s \in [1..Len(s) -> {s[i] : i \in DOMAIN s}]
  BY <1>1
<1> QED
  BY <1>1, <1>2, SeqDef DEF IsChannel

LEMMA ChannelFunction ==
  ASSUME NEW n \in Nat, NEW s, DOMAIN s = 1..n, s = [i \in 1..n |-> s[i]]
  PROVE  IsChannel(s) /\ Len(s) = n
<1>1. s \in [1..n -> {s[i] : i \in DOMAIN s}]
  OBVIOUS
<1>2. IsChannel(s)
  BY <1>1, SeqDef DEF IsChannel
<1> QED
  BY <1>2, ChannelParts

LEMMA ChannelConcat ==
  ASSUME NEW s, NEW t, IsChannel(s), IsChannel(t)
  PROVE  /\ IsChannel(s \o t) /\ Len(s \o t) = Len(s) + Len(t)
         /\ \A i \in 1..Len(s) : (s \o t)[i] = s[i]
         /\ \A i \in 1..Len(t) : (s \o t)[Len(s) + i] = t[i]
<1> DEFINE S == {s[i] : i \in DOMAIN s}
           T == {t[i] : i \in DOMAIN t}
<1>1. s \in Seq(S) /\ t \in Seq(T)
  BY DEF IsChannel
<1> HIDE DEF S, T
<1>2. s \in Seq(S \cup T) /\ t \in Seq(S \cup T)
  BY <1>1, SeqMonotonic
<1>3. s \o t \in Seq(S \cup T)
  BY <1>2, ConcatProperties
<1>4. Len(s) \in Nat /\ Len(t) \in Nat
  BY <1>2, LenProperties
<1>5. /\ Len(s \o t) = Len(s) + Len(t)
      /\ \A i \in 1..Len(s) + Len(t) :
            (s \o t)[i] = IF i <= Len(s) THEN s[i] ELSE t[i - Len(s)]
  BY <1>2, ConcatProperties
<1>6. ASSUME NEW i \in 1..Len(s) PROVE (s \o t)[i] = s[i]
  BY <1>4, <1>5
<1>7. ASSUME NEW i \in 1..Len(t) PROVE (s \o t)[Len(s) + i] = t[i]
  BY <1>4, <1>5
<1>8. IsChannel(s \o t)
  BY <1>3, ChannelOf
<1> QED
  BY <1>5, <1>6, <1>7, <1>8

LEMMA ChannelAppend ==
  ASSUME NEW s, NEW m, IsChannel(s)
  PROVE  /\ IsChannel(Append(s, m)) /\ Len(Append(s, m)) = Len(s) + 1
         /\ \A i \in 1..Len(s) : Append(s, m)[i] = s[i]
         /\ Append(s, m)[Len(s) + 1] = m
         /\ Append(s, m) = s \o <<m>>
<1> DEFINE S == {s[i] : i \in DOMAIN s}
<1>1. s \in Seq(S)
  BY DEF IsChannel
<1> HIDE DEF S
<1>2. s \in Seq(S \cup {m}) /\ m \in S \cup {m}
  BY <1>1, SeqMonotonic
<1>3. Append(s, m) \in Seq(S \cup {m})
  BY <1>2, AppendProperties
<1>4. IsChannel(Append(s, m))
  BY <1>3, ChannelOf
<1>5. Append(s, m) = s \o <<m>>
  BY <1>2, AppendIsConcat
<1> QED
  BY <1>2, <1>4, <1>5, AppendProperties

LEMMA ChannelTail ==
  ASSUME NEW s, IsChannel(s), s # <<>>
  PROVE  /\ IsChannel(Tail(s)) /\ Len(Tail(s)) = Len(s) - 1 /\ Len(s) >= 1
         /\ Head(s) = s[1]
         /\ \A i \in 1..Len(s) - 1 : Tail(s)[i] = s[i + 1]
<1> DEFINE S == {s[i] : i \in DOMAIN s}
<1>1. s \in Seq(S)
  BY DEF IsChannel
<1> HIDE DEF S
<1>2. Tail(s) \in Seq(S)
  BY <1>1, HeadTailProperties
<1>3. Len(s) \in Nat \ {0}
  BY <1>1, EmptySeq
<1>4. IsChannel(Tail(s))
  BY <1>2, ChannelOf
<1>5. /\ Len(Tail(s)) = Len(s) - 1
      /\ \A i \in 1..Len(Tail(s)) : Tail(s)[i] = s[i + 1]
  BY <1>1, HeadTailProperties
<1>6. Head(s) = s[1]
  BY <1>1, <1>3
<1> QED
  BY <1>3, <1>4, <1>5, <1>6

LEMMA ChannelOne ==
  ASSUME NEW m
  PROVE  IsChannel(<<m>>) /\ Len(<<m>>) = 1 /\ <<m>>[1] = m
<1>1. <<m>> \in Seq({m})
  OBVIOUS
<1> QED
  BY <1>1, ChannelOf

LEMMA ChannelNone == IsChannel(<<>>) /\ Len(<<>>) = 0
<1>1. <<>> \in Seq({})
  OBVIOUS
<1> QED
  BY <1>1, ChannelOf

LEMMA Joined ==
  ASSUME NEW s, NEW t, NEW u, IsChannel(s), IsChannel(t), IsChannel(u)
  PROVE  (s \o t) \o u = s \o (t \o u)
<1> DEFINE S == {s[i] : i \in DOMAIN s}
           T == {t[i] : i \in DOMAIN t}
           U == {u[i] : i \in DOMAIN u}
<1>1. s \in Seq(S) /\ t \in Seq(T) /\ u \in Seq(U)
  BY DEF IsChannel
<1> HIDE DEF S, T, U
<1>2. s \in Seq(S \cup T \cup U) /\ t \in Seq(S \cup T \cup U) /\ u \in Seq(S \cup T \cup U)
  BY <1>1, SeqMonotonic
<1> QED
  BY <1>2, ConcatAssociative

-----------------------------------------------------------------------------
(* How far a client and its user have come.                                 *)

Has(s, type) == \E n \in 1..Len(s) : s[n].type = type

LEMMA HasConcat ==
  ASSUME NEW s, NEW t, IsChannel(s), IsChannel(t), NEW type
  PROVE  Has(s \o t, type) <=> Has(s, type) \/ Has(t, type)
<1>1. /\ Len(s \o t) = Len(s) + Len(t)
      /\ \A i \in 1..Len(s) : (s \o t)[i] = s[i]
      /\ \A i \in 1..Len(t) : (s \o t)[Len(s) + i] = t[i]
      /\ Len(s) \in Nat /\ Len(t) \in Nat
  BY ChannelConcat, ChannelParts
<1>2. ASSUME Has(s, type) PROVE Has(s \o t, type)
  BY <1>1, <1>2 DEF Has
<1>3. ASSUME Has(t, type) PROVE Has(s \o t, type)
  <2>1. PICK n \in 1..Len(t) : t[n].type = type
    BY <1>3 DEF Has
  <2>2. Len(s) + n \in 1..Len(s \o t) /\ (s \o t)[Len(s) + n] = t[n]
    BY <1>1
  <2> QED
    BY <2>1, <2>2 DEF Has
<1>4. ASSUME Has(s \o t, type) PROVE Has(s, type) \/ Has(t, type)
  <2>1. PICK n \in 1..Len(s \o t) : (s \o t)[n].type = type
    BY <1>4 DEF Has
  <2>2. CASE n <= Len(s)
    BY <1>1, <2>1, <2>2 DEF Has
  <2>3. CASE ~(n <= Len(s))
    <3>1. n - Len(s) \in 1..Len(t) /\ Len(s) + (n - Len(s)) = n
      BY <1>1, <2>1, <2>3
    <3>2. (s \o t)[n] = t[n - Len(s)]
      BY <1>1, <3>1
    <3> QED
      BY <2>1, <3>1, <3>2 DEF Has
  <2> QED
    BY <2>2, <2>3
<1> QED
  BY <1>2, <1>3, <1>4

LEMMA HasTail ==
  ASSUME NEW s, IsChannel(s), s # <<>>, NEW type
  PROVE  Has(s, type) <=> Head(s).type = type \/ Has(Tail(s), type)
<1>1. /\ Len(Tail(s)) = Len(s) - 1 /\ Len(s) >= 1 /\ Head(s) = s[1]
      /\ \A i \in 1..Len(s) - 1 : Tail(s)[i] = s[i + 1]
      /\ Len(s) \in Nat
  BY ChannelTail, ChannelParts
<1>2. ASSUME Has(s, type) PROVE Head(s).type = type \/ Has(Tail(s), type)
  <2>1. PICK n \in 1..Len(s) : s[n].type = type
    BY <1>2 DEF Has
  <2>2. CASE n = 1
    BY <1>1, <2>1, <2>2
  <2>3. CASE n # 1
    <3>1. n - 1 \in 1..Len(s) - 1 /\ (n - 1) + 1 = n
      BY <1>1, <2>3
    <3>2. Tail(s)[n - 1] = s[n]
      BY <1>1, <3>1
    <3> QED
      BY <1>1, <2>1, <3>1, <3>2 DEF Has
  <2> QED
    BY <2>2, <2>3
<1>3. ASSUME Has(Tail(s), type) PROVE Has(s, type)
  <2>1. PICK n \in 1..Len(s) - 1 : Tail(s)[n].type = type
    BY <1>1, <1>3 DEF Has
  <2>2. n + 1 \in 1..Len(s) /\ s[n + 1] = Tail(s)[n]
    BY <1>1
  <2> QED
    BY <2>1, <2>2 DEF Has
<1>4. ASSUME Head(s).type = type PROVE Has(s, type)
  BY <1>1, <1>4 DEF Has
<1> QED
  BY <1>2, <1>3, <1>4

LEMMA HasOne == ASSUME NEW m, NEW type PROVE Has(<<m>>, type) <=> m.type = type
BY ChannelOne DEF Has

LEMMA HasNone == ASSUME NEW type PROVE ~Has(<<>>, type)
BY ChannelNone DEF Has

\* l is the link, sv how far the server's user is, ts and tc the channels to
\* the server and to the client, st and rs whether the client and its room have
\* started.  An open connection is served, or has been closed by the server.
\* Before its user is in the room a client is sent nothing and cannot start;
\* afterwards it starts with the room.
Session(l, sv, ts, tc, st, rs) ==
    /\ l \in {"closed", "query", "joined"} /\ sv \in {"none", "open", "query", "member"}
    /\ l # "closed" => \/ sv \in {"query", "member"}
                       \/ sv = "open" /\ (l = "query" \/ Has(ts, "JOIN"))
                       \/ Has(tc, "EOF")
    /\ Has(ts, "EOF") => l = "closed"
    /\ sv = "none" /\ l = "closed" => ts = <<>> /\ tc = <<>>
    /\ sv \in {"open", "query"} => tc = <<>> /\ (l # "closed" => ~st)
    /\ sv = "member" /\ l # "closed" => (rs <=> (st \/ Has(tc, "START")))

\* The client sends ms.
LEMMA SessionSend ==
  ASSUME NEW l, NEW sv, NEW ts, NEW tc, NEW st, NEW rs, NEW ms,
         Session(l, sv, ts, tc, st, rs), IsChannel(ts), IsChannel(ms),
         l # "closed", ~Has(ms, "EOF")
  PROVE  Session(l, sv, ts \o ms, tc, st, rs)
BY HasConcat DEF Session

\* The client sends its JOIN.
LEMMA SessionJoin ==
  ASSUME NEW l, NEW sv, NEW ts, NEW tc, NEW st, NEW rs, NEW ms,
         Session(l, sv, ts, tc, st, rs), IsChannel(ts), IsChannel(ms),
         l = "query", ~Has(ms, "EOF"), Has(ms, "JOIN")
  PROVE  Session("joined", sv, ts \o ms, tc, st, rs)
BY HasConcat DEF Session

\* The client handles what comes first.
LEMMA SessionReceive ==
  ASSUME NEW l, NEW sv, NEW ts, NEW tc, NEW st, NEW st2, NEW rs,
         Session(l, sv, ts, tc, st, rs), IsChannel(tc), tc # <<>>,
         l # "closed", Head(tc).type # "EOF",
         IF Head(tc).type = "START" THEN st2 = TRUE ELSE st2 = st
  PROVE  Session(l, sv, ts, Tail(tc), st2, rs)
<1>1. \A type : Has(tc, type) <=> Head(tc).type = type \/ Has(Tail(tc), type)
  BY HasTail
<1>2. sv \notin {"open", "query"}
  BY DEF Session
<1> QED
  BY <1>1, <1>2 DEF Session

\* The server sends a member ms.
LEMMA SessionTold ==
  ASSUME NEW l, NEW ts, NEW tc, NEW st, NEW rs, NEW rs2, NEW ms,
         Session(l, "member", ts, tc, st, rs), IsChannel(tc), IsChannel(ms),
         IF Has(ms, "START") THEN rs2 = TRUE ELSE rs2 = rs
  PROVE  Session(l, "member", ts, tc \o ms, st, rs2)
<1>1. \A type : Has(tc \o ms, type) <=> Has(tc, type) \/ Has(ms, type)
  BY HasConcat
<1> QED
  BY <1>1 DEF Session

-----------------------------------------------------------------------------
(* Lists of users, and the order of those who are there.                    *)

\* Induction, with a set for the predicate.
LEMMA Induction ==
  ASSUME NEW S, 0 \in S, \A n \in Nat : n \in S => n + 1 \in S
  PROVE  \A n \in Nat : n \in S
<1> DEFINE T == Nat \ S
<1>1. SUFFICES ASSUME T # {} PROVE FALSE
  OBVIOUS
<1>2. PICK x \in T : \A y \in T : <<y, x>> \notin OpToRel(<, Nat)
  <2>1. T \subseteq Nat
    OBVIOUS
  <2> HIDE DEF T
  <2> QED
    BY <1>1, <2>1, NatLessThanWellFounded, WFMin
<1>3. x \in Nat /\ x # 0
  OBVIOUS
<1>4. x - 1 \in T /\ x - 1 < x
  BY <1>3
<1>5. <<x - 1, x>> \in OpToRel(<, Nat)
  BY <1>3, <1>4 DEF OpToRel
<1> QED
  BY <1>2, <1>4, <1>5

Upto(at, i) == {j \in at : j <= i}

LEMMA UptoParts ==
  ASSUME NEW N \in Nat, NEW at \in SUBSET (1..N), NEW i \in Nat
  PROVE  /\ IsFiniteSet(at) /\ IsFiniteSet(Upto(at, i))
         /\ Cardinality(Upto(at, i)) \in Nat /\ Cardinality(at) \in Nat
         /\ Cardinality(Upto(at, i)) <= Cardinality(at)
         /\ Cardinality(Upto(at, i + 1)) =
               IF i + 1 \in at THEN Cardinality(Upto(at, i)) + 1 ELSE Cardinality(Upto(at, i))
<1>1. IsFiniteSet(1..N)
  BY FS_Interval
<1>2. IsFiniteSet(at)
  BY <1>1, FS_Subset
<1>3. Upto(at, i) \in SUBSET at
  BY DEF Upto
<1>4. IsFiniteSet(Upto(at, i)) /\ Cardinality(Upto(at, i)) <= Cardinality(at)
  BY <1>2, <1>3, FS_Subset
<1>5. Cardinality(at) \in Nat /\ Cardinality(Upto(at, i)) \in Nat
  BY <1>2, <1>4, FS_CardinalityType
<1>6. \A j \in at : j \in Nat
  OBVIOUS
<1>7. CASE i + 1 \in at
  <2>1. Upto(at, i + 1) = Upto(at, i) \cup {i + 1} /\ i + 1 \notin Upto(at, i)
    <3>1. \A j \in at : j <= i + 1 <=> (j <= i \/ j = i + 1)
      BY <1>6
    <3>2. ~(i + 1 <= i)
      OBVIOUS
    <3> QED
      BY <1>7, <3>1, <3>2 DEF Upto
  <2> QED
    BY <1>2, <1>4, <1>5, <1>7, <2>1, FS_AddElement
<1>8. CASE i + 1 \notin at
  <2>1. Upto(at, i + 1) = Upto(at, i)
    <3>1. \A j \in at : j <= i + 1 <=> j <= i
      BY <1>6, <1>8
    <3> QED
      BY <3>1 DEF Upto
  <2> QED
    BY <1>2, <1>4, <1>5, <1>8, <2>1
<1> QED
  BY <1>7, <1>8

LEMMA OrderedParts ==
  ASSUME NEW N \in Nat, NEW at \in SUBSET (1..N)
  PROVE  /\ Cardinality(at) \in Nat /\ Len(Ordered(at)) = Cardinality(at)
         /\ IsChannel(Ordered(at)) /\ \A n \in 1..Len(Ordered(at)) : Ordered(at)[n] \in at
<1> DEFINE f(i) == Cardinality(Upto(at, i))
           S == {i \in Nat : \A n \in 1..f(i) : \E j \in at : f(j) = n}
<1>1. 0 \in S
  <2>1. Upto(at, 0) = {}
    <3>1. \A j \in at : ~(j <= 0)
      OBVIOUS
    <3> QED
      BY <3>1 DEF Upto
  <2>2. f(0) = 0
    BY <2>1, FS_EmptySet
  <2> QED
    BY <2>2
<1>2. ASSUME NEW i \in Nat, i \in S PROVE i + 1 \in S
  <2>1. f(i) \in Nat /\ f(i + 1) = IF i + 1 \in at THEN f(i) + 1 ELSE f(i)
    BY UptoParts
  <2>2. \A n \in 1..f(i) : \E j \in at : f(j) = n
    BY <1>2
  <2> HIDE DEF f
  <2>3. ASSUME NEW n \in 1..f(i + 1) PROVE \E j \in at : f(j) = n
    <3>1. CASE n \in 1..f(i)
      BY <2>2, <3>1
    <3>2. CASE n \notin 1..f(i)
      <4>1. i + 1 \in at /\ n = f(i) + 1
        BY <2>1, <3>2
      <4> QED
        BY <2>1, <4>1
    <3> QED
      BY <3>1, <3>2
  <2> QED
    BY <2>3
<1>3. N \in S
  <2> HIDE DEF S
  <2> QED
    BY <1>1, <1>2, Induction
<1>4. Upto(at, N) = at
  <2>1. \A j \in at : j <= N
    OBVIOUS
  <2> QED
    BY <2>1 DEF Upto
<1>5. \A n \in 1..Cardinality(at) : \E j \in at : Cardinality({k \in at : k <= j}) = n
  BY <1>3, <1>4 DEF Upto
<1>6. Cardinality(at) \in Nat
  BY UptoParts
<1>7. \A n \in 1..Cardinality(at) : Ordered(at)[n] \in at
  BY <1>5 DEF Ordered
<1>8. /\ DOMAIN Ordered(at) = 1..Cardinality(at)
      /\ Ordered(at) = [n \in 1..Cardinality(at) |-> Ordered(at)[n]]
  BY DEF Ordered
<1>9. IsChannel(Ordered(at)) /\ Len(Ordered(at)) = Cardinality(at)
  <2> HIDE DEF Ordered
  <2> QED
    BY <1>6, <1>8, ChannelFunction
<1> QED
  BY <1>6, <1>7, <1>9

LEMMA LiveParts ==
  ASSUME NEW us, Len(us) \in Nat
  PROVE  /\ IsChannel(Live(us)) /\ Len(Live(us)) \in Nat
         /\ \A n \in 1..Len(Live(us)) : Present(us, Live(us)[n])
<1> DEFINE at == {i \in 1..Len(us) : us[i] # NoUser}
<1>1. at \in SUBSET (1..Len(us))
  OBVIOUS
<1>2. Live(us) = Ordered(at)
  BY DEF Live
<1>3. /\ IsChannel(Live(us)) /\ Len(Live(us)) \in Nat
      /\ \A n \in 1..Len(Live(us)) : Live(us)[n] \in at
  <2> HIDE DEF at
  <2> QED
    BY <1>1, <1>2, OrderedParts
<1> QED
  BY <1>3 DEF Present

\* The record that belongs to a user, by the order of the list.
LEMMA LiveCount ==
  ASSUME NEW us, Len(us) \in Nat, NEW i, Present(us, i)
  PROVE  Cardinality({j \in 1..i : us[j] # NoUser}) \in 1..Len(Live(us))
<1> DEFINE at == {j \in 1..Len(us) : us[j] # NoUser}
<1>1. at \in SUBSET (1..Len(us)) /\ i \in Nat /\ i \in 1..Len(us) /\ i \in at
  BY DEF Present
<1>2. Live(us) = Ordered(at)
  BY DEF Live
<1>3. {j \in 1..i : us[j] # NoUser} = Upto(at, i)
  <2>1. \A j : j \in 1..i <=> j \in 1..Len(us) /\ j <= i
    BY <1>1
  <2> QED
    BY <2>1 DEF Upto
<1> HIDE DEF at
<1>4. Len(Live(us)) = Cardinality(at) /\ Cardinality(at) \in Nat
  BY <1>1, <1>2, OrderedParts
<1>5. Cardinality(Upto(at, i)) \in Nat /\ Cardinality(Upto(at, i)) <= Cardinality(at)
  BY <1>1, UptoParts
<1>6. PICK k \in Nat : i = k + 1
  <2>1. i - 1 \in Nat /\ i = (i - 1) + 1
    BY <1>1
  <2> QED
    BY <2>1
<1>7. Cardinality(Upto(at, k)) \in Nat /\ Cardinality(Upto(at, k + 1)) = Cardinality(Upto(at, k)) + 1
  BY <1>1, <1>6, UptoParts
<1>8. Cardinality(Upto(at, i)) >= 1
  BY <1>6, <1>7
<1>9. Cardinality(Upto(at, i)) \in 1..Len(Live(us))
  BY <1>4, <1>5, <1>8
<1> QED
  BY <1>3, <1>9

-----------------------------------------------------------------------------
(* What a list has at which position, and what messages make of it.         *)

UserList == Seq(UserInfos \cup {NoUser})
Slot == Client \cup {NoUser}

Shape(us) == [i \in 1..Len(us) |-> IF us[i] = NoUser THEN NoUser ELSE us[i].name]

\* The shape of a list of shape sh once message m has been handled.
Place(sh, m) ==
    CASE m.type = "ACCEPT" -> Shape(m.users)
      [] m.type = "JOIN" -> Append(sh, m.info.name)
      [] m.type = "QUIT" -> [sh EXCEPT ![m.user] = NoUser]
      [] OTHER -> sh

\* Client c can handle m with a list of shape sh.
Fits(c, sh, m) ==
    /\ m.type = "ACCEPT" => /\ m.users \in UserList /\ m.users # <<>>
                            /\ Shape(m.users)[Len(m.users)] = c
    /\ m.type = "JOIN" => m.info \in UserInfos /\ m.info.authority = Len(sh) + 1
    /\ m.type \in {"QUIT", "NAME", "INPUT_MAP"} => Present(sh, m.user)
    /\ m.type = "QUIT" => sh[m.user] # c
    /\ m.type = "INPUT_MAP" => m.map \in Nat
    /\ m.type = "LAG" => m.lag \in Nat /\ \A i \in m.ids : Present(sh, i)
    /\ m.type \in {"CONTROLLERS", "LATENCY"} => m.list = sh
    /\ m.type = "CONTROLLERS" =>
         \A n \in 1..Len(Names(sh)) : m.records[n].plugged \in BOOLEAN /\ m.records[n].map \in Nat
    /\ m.type = "INPUT_DATA" => m.count \in Nat
    /\ m.type \in {"REQUEST_AUTHORITY", "DELEGATE_AUTHORITY"} => m.authority \in Nat
    /\ m.type = "GOLF" => m.golf \in BOOLEAN

LEMMA SequenceOf ==
  ASSUME NEW S, NEW n \in Nat, NEW s, s = [i \in 1..n |-> s[i]], \A i \in 1..n : s[i] \in S
  PROVE  s \in Seq(S) /\ Len(s) = n
<1>1. s \in [1..n -> S]
  OBVIOUS
<1> QED
  BY <1>1, SeqDef, LenProperties

LEMMA ListParts ==
  ASSUME NEW us \in UserList
  PROVE  /\ Len(us) \in Nat
         /\ \A i : Present(us, i) => us[i] \in UserInfos
         /\ \A i \in 1..Len(us) : us[i] \in UserInfos \cup {NoUser}
         /\ us = [i \in 1..Len(us) |-> us[i]]
BY LenProperties DEF UserList, Present

LEMMA ShapeParts ==
  ASSUME NEW us \in UserList
  PROVE  /\ Shape(us) \in Seq(Slot) /\ Len(Shape(us)) = Len(us)
         /\ \A i : Present(us, i) <=> Present(Shape(us), i)
         /\ \A i : Present(us, i) => us[i].name = Shape(us)[i]
         /\ \A i \in 1..Len(us) : us[i] = NoUser <=> Shape(us)[i] = NoUser
<1>1. /\ Len(us) \in Nat
      /\ \A i \in 1..Len(us) : us[i] \in UserInfos \cup {NoUser}
  BY ListParts
<1>2. \A i \in 1..Len(us) : Shape(us)[i] = IF us[i] = NoUser THEN NoUser ELSE us[i].name
  BY DEF Shape
<1>3. \A r \in UserInfos : r.name \in Client
  BY DEF UserInfos
<1>4. \A i \in 1..Len(us) : Shape(us)[i] \in Slot
  BY <1>1, <1>2, <1>3 DEF Slot
<1>5. Shape(us) = [i \in 1..Len(us) |-> Shape(us)[i]]
  BY DEF Shape
<1>6. Shape(us) \in Seq(Slot) /\ Len(Shape(us)) = Len(us)
  <2> HIDE DEF Shape
  <2> QED
    BY <1>1, <1>4, <1>5, SequenceOf
<1>7. \A i \in 1..Len(us) : us[i] = NoUser <=> Shape(us)[i] = NoUser
  BY <1>1, <1>2, <1>3, NoUserAssumption
<1> QED
  BY <1>2, <1>6, <1>7 DEF Present

\* Two lists of one length that have the same users have the same shape.
LEMMA SameShape ==
  ASSUME NEW us \in UserList, NEW vs, vs = [i \in 1..Len(us) |-> vs[i]],
         \A i \in 1..Len(us) : us[i] = NoUser => vs[i] = NoUser,
         \A i \in 1..Len(us) : us[i] # NoUser => vs[i] \in UserInfos /\ vs[i].name = us[i].name
  PROVE  vs \in UserList /\ Len(vs) = Len(us) /\ Shape(vs) = Shape(us)
<1>1. /\ Len(us) \in Nat
      /\ \A i \in 1..Len(us) : us[i] \in UserInfos \cup {NoUser}
  BY ListParts
<1>2. \A i \in 1..Len(us) : vs[i] \in UserInfos \cup {NoUser}
  OBVIOUS
<1>3. vs \in UserList /\ Len(vs) = Len(us)
  BY <1>1, <1>2, SequenceOf DEF UserList
<1>4. \A i \in 1..Len(us) : (IF vs[i] = NoUser THEN NoUser ELSE vs[i].name)
                             = IF us[i] = NoUser THEN NoUser ELSE us[i].name
  BY NoUserAssumption
<1> QED
  BY <1>3, <1>4 DEF Shape

\* f becomes g, by a change of what it has of c.
Changes(f, g, c, x) == g = [f EXCEPT ![c] = x]

\* A change of one user's record.
LEMMA ShapeOfChange ==
  ASSUME NEW us \in UserList, NEW i, us[i] # NoUser, NEW r,
         Present(us, i) => r \in UserInfos /\ r.name = us[i].name,
         NEW vs, Changes(us, vs, i, r)
  PROVE  vs \in UserList /\ Len(vs) = Len(us) /\ Shape(vs) = Shape(us)
<1>1. /\ Len(us) \in Nat
      /\ \A j \in 1..Len(us) : us[j] \in UserInfos \cup {NoUser}
      /\ us = [j \in 1..Len(us) |-> us[j]]
  BY ListParts
<1>2. vs = [j \in 1..Len(us) |-> IF j = i THEN r ELSE us[j]]
  BY <1>1 DEF Changes
<1>3. vs = [j \in 1..Len(us) |-> vs[j]]
  BY <1>2
<1>4. \A j \in 1..Len(us) : vs[j] = IF j = i THEN r ELSE us[j]
  BY <1>2
<1>5. \A j \in 1..Len(us) : us[j] = NoUser => vs[j] = NoUser
  BY <1>4
<1>6. \A j \in 1..Len(us) : us[j] # NoUser => vs[j] \in UserInfos /\ vs[j].name = us[j].name
  BY <1>1, <1>4 DEF Present
<1> QED
  BY <1>3, <1>5, <1>6, SameShape

\* The order of a list is that of its shape.
LEMMA LiveShape ==
  ASSUME NEW us \in UserList
  PROVE  Live(us) = Live(Shape(us))
<1>1. /\ Len(Shape(us)) = Len(us)
      /\ \A i \in 1..Len(us) : us[i] = NoUser <=> Shape(us)[i] = NoUser
  BY ShapeParts
<1>2. {i \in 1..Len(us) : us[i] # NoUser} = {i \in 1..Len(Shape(us)) : Shape(us)[i] # NoUser}
  BY <1>1
<1> QED
  BY <1>2 DEF Live

LEMMA NamesShape ==
  ASSUME NEW us \in UserList
  PROVE  /\ Len(Names(Shape(us))) = Len(Live(us)) /\ Len(Live(us)) \in Nat
         /\ Names(Shape(us)) = [n \in 1..Len(Live(us)) |-> us[Live(us)[n]].name]
<1>1. Live(us) = Live(Shape(us)) /\ Len(us) \in Nat
  BY LiveShape, ListParts
<1>2. \A n \in 1..Len(Live(us)) : us[Live(us)[n]].name = Shape(us)[Live(us)[n]]
  BY <1>1, LiveParts, ShapeParts
<1>3. Len(Live(us)) \in Nat
  BY <1>1, LiveParts
<1>4. Names(Shape(us)) = [n \in 1..Len(Live(us)) |-> us[Live(us)[n]].name]
  BY <1>1, <1>2 DEF Names
<1> QED
  BY <1>3, <1>4

\* What a client's list becomes has the shape that Place says.
LEMMA ApplyShape ==
  ASSUME NEW c, NEW us \in UserList, NEW m, Fits(c, Shape(us), m)
  PROVE  Apply(us, m) \in UserList /\ Shape(Apply(us, m)) = Place(Shape(us), m)
<1>1. /\ Len(us) \in Nat /\ us = [i \in 1..Len(us) |-> us[i]]
      /\ \A i \in 1..Len(us) : us[i] \in UserInfos \cup {NoUser}
      /\ \A i : Present(us, i) => us[i] \in UserInfos
  BY ListParts
<1>2. /\ Shape(us) \in Seq(Slot) /\ Len(Shape(us)) = Len(us)
      /\ \A i : Present(us, i) <=> Present(Shape(us), i)
  BY ShapeParts
<1>3. CASE m.type = "ACCEPT"
  BY <1>3 DEF Fits, Apply, Place
<1>4. CASE m.type = "JOIN"
  <2>1. m.info \in UserInfos /\ m.info # NoUser
    BY <1>4, NoUserAssumption DEF Fits
  <2>2. Apply(us, m) = Append(us, m.info) /\ Place(Shape(us), m) = Append(Shape(us), m.info.name)
    BY <1>4 DEF Apply, Place
  <2>3. /\ Append(us, m.info) \in UserList /\ Len(Append(us, m.info)) = Len(us) + 1
        /\ \A i \in 1..Len(us) : Append(us, m.info)[i] = us[i]
        /\ Append(us, m.info)[Len(us) + 1] = m.info
    BY <2>1, AppendProperties DEF UserList
  <2>4. m.info.name \in Slot
    BY <2>1 DEF UserInfos, Slot
  <2> DEFINE vs == Append(us, m.info)
             sh == Append(Shape(us), m.info.name)
  <2>5. /\ sh \in Seq(Slot) /\ Len(sh) = Len(us) + 1
        /\ \A i \in 1..Len(us) : sh[i] = Shape(us)[i]
        /\ sh[Len(us) + 1] = m.info.name
    BY <1>2, <2>4, AppendProperties
  <2>6. Shape(vs) \in Seq(Slot) /\ Len(Shape(vs)) = Len(us) + 1
    BY <2>3, ShapeParts
  <2>7. \A i \in 1..Len(us) + 1 : Shape(vs)[i] = IF vs[i] = NoUser THEN NoUser ELSE vs[i].name
    BY <2>3 DEF Shape
  <2>8. \A i \in 1..Len(us) : Shape(us)[i] = IF us[i] = NoUser THEN NoUser ELSE us[i].name
    BY DEF Shape
  <2>9. \A i \in 1..Len(us) : Shape(vs)[i] = sh[i]
    BY <1>1, <2>3, <2>5, <2>7, <2>8
  <2>10. Shape(vs)[Len(us) + 1] = sh[Len(us) + 1]
    BY <1>1, <2>1, <2>3, <2>5, <2>7
  <2>11. \A i \in 1..Len(us) + 1 : i \in 1..Len(us) \/ i = Len(us) + 1
    BY <1>1
  <2> HIDE DEF vs, sh
  <2>12. Shape(vs) = sh
    BY <2>5, <2>6, <2>9, <2>10, <2>11, SeqEqual
  <2> QED
    BY <2>2, <2>3, <2>12 DEF vs, sh
<1>5. CASE m.type = "QUIT"
  <2>1. Apply(us, m) = [us EXCEPT ![m.user] = NoUser]
        /\ Place(Shape(us), m) = [Shape(us) EXCEPT ![m.user] = NoUser]
    BY <1>5 DEF Apply, Place
  <2> DEFINE i == m.user
             vs == [us EXCEPT ![i] = NoUser]
  <2>2. Present(us, i) /\ i \in 1..Len(us)
    BY <1>2, <1>5 DEF Fits, Present
  <2>3. /\ vs \in Seq(UserInfos \cup {NoUser}) /\ Len(vs) = Len(us)
        /\ \A j \in 1..Len(us) : vs[j] = IF j = i THEN NoUser ELSE us[j]
    <3> HIDE DEF i
    <3> QED
      BY <2>2, ExceptSeq DEF UserList
  <2>4. \A j \in 1..Len(us) : Shape(us)[j] = IF us[j] = NoUser THEN NoUser ELSE us[j].name
    BY DEF Shape
  <2>5. Shape(us) = [j \in 1..Len(us) |-> Shape(us)[j]]
    BY DEF Shape
  <2>6. [Shape(us) EXCEPT ![i] = NoUser] = [j \in 1..Len(us) |-> IF j = i THEN NoUser ELSE Shape(us)[j]]
    BY <2>5
  <2> HIDE DEF vs
  <2>7. Shape(vs) = [j \in 1..Len(us) |-> IF vs[j] = NoUser THEN NoUser ELSE vs[j].name]
    BY <2>3 DEF Shape
  <2>8. \A j \in 1..Len(us) : (IF vs[j] = NoUser THEN NoUser ELSE vs[j].name)
                               = IF j = i THEN NoUser ELSE Shape(us)[j]
    BY <2>3, <2>4
  <2>9. Shape(vs) = [Shape(us) EXCEPT ![i] = NoUser]
    BY <2>6, <2>7, <2>8
  <2> QED
    BY <2>1, <2>3, <2>9 DEF vs, UserList
<1>6. CASE m.type = "LAG"
  <2> DEFINE vs == [i \in 1..Len(us) |-> IF i \in m.ids THEN [us[i] EXCEPT !.lag = m.lag] ELSE us[i]]
  <2>1. Apply(us, m) = vs /\ Place(Shape(us), m) = Shape(us)
    BY <1>6 DEF Apply, Place
  <2>2. m.lag \in Nat /\ \A i \in m.ids : Present(us, i)
    BY <1>2, <1>6 DEF Fits
  <2>3. \A i \in 1..Len(us) : us[i] = NoUser => vs[i] = NoUser
    BY <2>2 DEF Present
  <2>4. \A i \in 1..Len(us) : us[i] # NoUser => vs[i] \in UserInfos /\ vs[i].name = us[i].name
    BY <1>1, <2>2 DEF Present, UserInfos
  <2>5. vs = [i \in 1..Len(us) |-> vs[i]]
    OBVIOUS
  <2> HIDE DEF vs
  <2> QED
    BY <2>1, <2>3, <2>4, <2>5, SameShape
<1>7. CASE m.type = "INPUT_MAP"
  <2>1. Present(us, m.user) /\ us[m.user] # NoUser /\ m.map \in Nat
    BY <1>2, <1>7 DEF Fits, Present
  <2> DEFINE r == [us[m.user] EXCEPT !.map = m.map]
  <2>2. r \in UserInfos /\ r.name = us[m.user].name
    BY <1>1, <2>1 DEF UserInfos
  <2>3. Apply(us, m) = [us EXCEPT ![m.user] = r] /\ Place(Shape(us), m) = Shape(us)
    BY <1>7, <2>1 DEF Apply, Place
  <2> DEFINE i == m.user
             vs == [us EXCEPT ![i] = r]
  <2> HIDE DEF r, i
  <2>4. /\ r \in UserInfos /\ Changes(us, vs, i, r)
        /\ Present(us, i) => r \in UserInfos /\ r.name = us[i].name
        /\ us[i] # NoUser
    BY <2>1, <2>2 DEF i, Changes
  <2> HIDE DEF vs
  <2>5. vs \in UserList /\ Shape(vs) = Shape(us)
    BY <2>4, ShapeOfChange
  <2>6. Apply(us, m) = vs
    BY <2>3 DEF vs, i
  <2> QED
    BY <2>3, <2>5, <2>6
<1>8. CASE m.type = "CONTROLLERS"
  <2> DEFINE n(i) == Cardinality({j \in 1..i : us[j] # NoUser})
             vs == [i \in 1..Len(us) |->
                      IF us[i] = NoUser THEN NoUser
                      ELSE [us[i] EXCEPT !.plugged = m.records[n(i)].plugged,
                                         !.map = m.records[n(i)].map]]
  <2>1. Apply(us, m) = vs /\ Place(Shape(us), m) = Shape(us)
    BY <1>8 DEF Apply, Place
  <2>2. \A k \in 1..Len(Live(us)) : m.records[k].plugged \in BOOLEAN /\ m.records[k].map \in Nat
    BY <1>8, NamesShape DEF Fits
  <2>3. \A i \in 1..Len(us) : us[i] # NoUser => n(i) \in 1..Len(Live(us))
    BY <1>1, LiveCount DEF Present
  <2> HIDE DEF n
  <2>4. \A i \in 1..Len(us) : us[i] = NoUser => vs[i] = NoUser
    OBVIOUS
  <2>5. \A i \in 1..Len(us) : us[i] # NoUser => vs[i] \in UserInfos /\ vs[i].name = us[i].name
    BY <1>1, <2>2, <2>3 DEF UserInfos
  <2>6. vs = [i \in 1..Len(us) |-> vs[i]]
    OBVIOUS
  <2> HIDE DEF vs
  <2> QED
    BY <2>1, <2>4, <2>5, <2>6, SameShape
<1>9. CASE m.type \notin {"ACCEPT", "JOIN", "QUIT", "LAG", "INPUT_MAP", "CONTROLLERS"}
  BY <1>9 DEF Apply, Place
<1> QED
  BY <1>3, <1>4, <1>5, <1>6, <1>7, <1>8, <1>9

-----------------------------------------------------------------------------
(* What is on its way to a client.                                          *)

\* Client c can handle the messages t one after another with a list of shape
\* sh, which has shape e in the end.
Reads(c, sh, t, e) ==
    \E h \in [0..Len(t) -> Seq(Slot)] :
        /\ h[0] = sh /\ h[Len(t)] = e
        /\ \A k \in 1..Len(t) : h[k] = Place(h[k - 1], t[k]) /\ Fits(c, h[k - 1], t[k])

LEMMA ReadsNone ==
  ASSUME NEW c, NEW sh \in Seq(Slot)
  PROVE  Reads(c, sh, <<>>, sh)
<1> DEFINE h == [k \in 0..0 |-> sh]
<1>1. h \in [0..0 -> Seq(Slot)] /\ h[0] = sh
  OBVIOUS
<1> HIDE DEF h
<1> QED
  BY <1>1, ChannelNone DEF Reads

LEMMA ReadsOne ==
  ASSUME NEW c, NEW sh \in Seq(Slot), NEW m, Fits(c, sh, m), Place(sh, m) \in Seq(Slot)
  PROVE  Reads(c, sh, <<m>>, Place(sh, m))
<1> DEFINE h == [k \in 0..1 |-> IF k = 0 THEN sh ELSE Place(sh, m)]
<1>1. h \in [0..1 -> Seq(Slot)] /\ h[0] = sh /\ h[1] = Place(sh, m)
  OBVIOUS
<1>2. Len(<<m>>) = 1 /\ <<m>>[1] = m
  BY ChannelOne
<1> HIDE DEF h
<1>3. \A k \in 1..1 : h[k] = Place(h[k - 1], <<m>>[k]) /\ Fits(c, h[k - 1], <<m>>[k])
  BY <1>1, <1>2
<1> QED
  BY <1>1, <1>2, <1>3 DEF Reads

LEMMA ReadsConcat ==
  ASSUME NEW c, NEW x, NEW y, NEW z, NEW s, NEW t, IsChannel(s), IsChannel(t),
         Reads(c, x, s, y), Reads(c, y, t, z)
  PROVE  Reads(c, x, s \o t, z)
<1>1. /\ Len(s \o t) = Len(s) + Len(t)
      /\ \A i \in 1..Len(s) : (s \o t)[i] = s[i]
      /\ \A i \in 1..Len(t) : (s \o t)[Len(s) + i] = t[i]
      /\ Len(s) \in Nat /\ Len(t) \in Nat
  BY ChannelConcat, ChannelParts
<1>2. PICK f \in [0..Len(s) -> Seq(Slot)] :
        /\ f[0] = x /\ f[Len(s)] = y
        /\ \A k \in 1..Len(s) : f[k] = Place(f[k - 1], s[k]) /\ Fits(c, f[k - 1], s[k])
  BY DEF Reads
<1>3. PICK g \in [0..Len(t) -> Seq(Slot)] :
        /\ g[0] = y /\ g[Len(t)] = z
        /\ \A k \in 1..Len(t) : g[k] = Place(g[k - 1], t[k]) /\ Fits(c, g[k - 1], t[k])
  BY DEF Reads
<1> DEFINE N == Len(s) + Len(t)
           h == [k \in 0..N |-> IF k <= Len(s) THEN f[k] ELSE g[k - Len(s)]]
<1>4. h \in [0..N -> Seq(Slot)]
  <2>1. ASSUME NEW k \in 0..N PROVE h[k] \in Seq(Slot)
    <3>1. CASE k <= Len(s)
      <4>1. k \in 0..Len(s) /\ h[k] = f[k]
        BY <1>1, <3>1
      <4> QED
        BY <1>2, <4>1
    <3>2. CASE ~(k <= Len(s))
      <4>1. k - Len(s) \in 0..Len(t) /\ h[k] = g[k - Len(s)]
        BY <1>1, <3>2
      <4> QED
        BY <1>3, <4>1
    <3> QED
      BY <3>1, <3>2
  <2> QED
    BY <2>1
<1>5. /\ \A k \in 0..Len(s) : h[k] = f[k]
      /\ \A k \in 0..Len(t) : h[Len(s) + k] = g[k]
  <2>1. ASSUME NEW k \in 0..Len(s) PROVE h[k] = f[k]
    BY <1>1
  <2>2. ASSUME NEW k \in 0..Len(t) PROVE h[Len(s) + k] = g[k]
    <3>1. CASE k = 0
      BY <1>1, <1>2, <1>3, <3>1
    <3>2. CASE k # 0
      <4>1. Len(s) + k \in 0..N /\ ~(Len(s) + k <= Len(s)) /\ (Len(s) + k) - Len(s) = k
        BY <1>1, <3>2
      <4> QED
        BY <4>1
    <3> QED
      BY <3>1, <3>2
  <2> QED
    BY <2>1, <2>2
<1> HIDE DEF h
<1>6. h[0] = x /\ h[N] = z
  BY <1>1, <1>2, <1>3, <1>5
<1>7. ASSUME NEW k \in 1..N
      PROVE  h[k] = Place(h[k - 1], (s \o t)[k]) /\ Fits(c, h[k - 1], (s \o t)[k])
  <2>1. CASE k <= Len(s)
    <3>1. k \in 1..Len(s) /\ k \in 0..Len(s) /\ k - 1 \in 0..Len(s)
      BY <1>1, <2>1
    <3> QED
      BY <1>1, <1>2, <1>5, <3>1
  <2>2. CASE ~(k <= Len(s))
    <3> DEFINE j == k - Len(s)
    <3>1. /\ j \in 1..Len(t) /\ j \in 0..Len(t) /\ j - 1 \in 0..Len(t)
          /\ k = Len(s) + j /\ k - 1 = Len(s) + (j - 1)
      BY <1>1, <2>2
    <3> HIDE DEF j
    <3>2. (s \o t)[k] = t[j] /\ h[k] = g[j] /\ h[k - 1] = g[j - 1]
      BY <1>1, <1>5, <3>1
    <3> QED
      BY <1>3, <3>1, <3>2
  <2> QED
    BY <2>1, <2>2
<1> QED
  BY <1>1, <1>4, <1>6, <1>7 DEF Reads

LEMMA ReadsTail ==
  ASSUME NEW c, NEW x, NEW z, NEW s, IsChannel(s), s # <<>>, Reads(c, x, s, z)
  PROVE  /\ Fits(c, x, Head(s)) /\ Reads(c, Place(x, Head(s)), Tail(s), z)
         /\ x \in Seq(Slot) /\ Place(x, Head(s)) \in Seq(Slot)
<1>1. /\ Len(Tail(s)) = Len(s) - 1 /\ Len(s) >= 1 /\ Head(s) = s[1]
      /\ \A i \in 1..Len(s) - 1 : Tail(s)[i] = s[i + 1]
      /\ Len(s) \in Nat
  BY ChannelTail, ChannelParts
<1>2. PICK f \in [0..Len(s) -> Seq(Slot)] :
        /\ f[0] = x /\ f[Len(s)] = z
        /\ \A k \in 1..Len(s) : f[k] = Place(f[k - 1], s[k]) /\ Fits(c, f[k - 1], s[k])
  BY DEF Reads
<1>3. f[1] = Place(x, Head(s)) /\ Fits(c, x, Head(s))
  <2>1. 1 \in 1..Len(s) /\ 1 - 1 = 0
    BY <1>1
  <2> QED
    BY <1>1, <1>2, <2>1
<1> DEFINE N == Len(s) - 1
           h == [k \in 0..N |-> f[k + 1]]
<1>4. h \in [0..N -> Seq(Slot)] /\ h[0] = f[1] /\ h[N] = z
  BY <1>1, <1>2
<1>5. ASSUME NEW k \in 1..N
      PROVE  h[k] = Place(h[k - 1], Tail(s)[k]) /\ Fits(c, h[k - 1], Tail(s)[k])
  <2>1. /\ k \in 0..N /\ k - 1 \in 0..N /\ (k - 1) + 1 = k /\ (k + 1) - 1 = k
        /\ k + 1 \in 1..Len(s)
    BY <1>1
  <2>2. h[k] = f[k + 1] /\ h[k - 1] = f[k] /\ Tail(s)[k] = s[k + 1]
    BY <1>1, <2>1
  <2> HIDE DEF h
  <2> QED
    BY <1>2, <2>1, <2>2
<1> HIDE DEF h
<1>6. Reads(c, Place(x, Head(s)), Tail(s), z)
  BY <1>1, <1>3, <1>4, <1>5 DEF Reads
<1>7. f[0] \in Seq(Slot) /\ f[1] \in Seq(Slot)
  BY <1>1, <1>2
<1> QED
  BY <1>2, <1>3, <1>6, <1>7

-----------------------------------------------------------------------------
(* A client's copy of the list.                                             *)

\* Client c, with link l, the user at sv, the messages tc on their way to it
\* and itself at position i of its list us, is in that list, alone if it has no
\* connection.  Otherwise it can handle what is on its way, and if its user is
\* in the room, has the room's list sl in the end, and its own place in it.
Copy(c, l, sv, tc, us, i, sl) ==
    /\ us \in UserList /\ Present(us, i) /\ us[i].name = c
    /\ l = "closed" => Len(us) = 1
    /\ l # "closed" => \E e \in Seq(Slot) : Reads(c, Shape(us), tc, e) /\ (sv = "member" => e = sl)
    /\ l # "closed" /\ sv = "member" =>
         /\ (i \in 1..Len(sl) /\ sl[i] = c) \/ Has(tc, "ACCEPT")
         /\ \A k \in 1..Len(tc) : tc[k].type = "ACCEPT" =>
              Len(tc[k].users) \in 1..Len(sl) /\ sl[Len(tc[k].users)] = c

\* c changes its list, but not who is where.
LEMMA CopyChanged ==
  ASSUME NEW c, NEW l, NEW sv, NEW tc, NEW us, NEW i, NEW sl,
         Copy(c, l, sv, tc, us, i, sl),
         NEW vs \in UserList, Len(vs) = Len(us), Shape(vs) = Shape(us)
  PROVE  Copy(c, l, sv, tc, vs, i, sl)
<1>1. us \in UserList /\ Present(us, i) /\ us[i].name = c
  BY DEF Copy
<1>2. Present(vs, i) /\ vs[i].name = c
  BY <1>1, ShapeParts
<1> QED
  BY <1>2 DEF Copy

\* The server sends a member ms, which make the room's list sl to sl2.
LEMMA CopyTold ==
  ASSUME NEW c, NEW l, NEW tc, NEW us, NEW i, NEW sl, NEW sl2 \in Seq(Slot), NEW ms,
         Copy(c, l, "member", tc, us, i, sl), IsChannel(tc), IsChannel(ms),
         Reads(c, sl, ms, sl2), ~Has(ms, "ACCEPT"),
         \A j \in 1..Len(sl) : sl[j] = c => j \in 1..Len(sl2) /\ sl2[j] = c
  PROVE  Copy(c, l, "member", tc \o ms, us, i, sl2)
<1>1. CASE l = "closed"
  BY <1>1 DEF Copy
<1>2. CASE l # "closed"
  <2>1. Reads(c, Shape(us), tc, sl)
    BY <1>2 DEF Copy
  <2>2. Reads(c, Shape(us), tc \o ms, sl2)
    BY <2>1, ReadsConcat
  <2>3. (i \in 1..Len(sl2) /\ sl2[i] = c) \/ Has(tc \o ms, "ACCEPT")
    BY <1>2, HasConcat DEF Copy
  <2>4. /\ Len(tc \o ms) = Len(tc) + Len(ms) /\ Len(tc) \in Nat /\ Len(ms) \in Nat
        /\ \A k \in 1..Len(tc) : (tc \o ms)[k] = tc[k]
        /\ \A k \in 1..Len(ms) : (tc \o ms)[Len(tc) + k] = ms[k]
    BY ChannelConcat, ChannelParts
  <2>5. ASSUME NEW k \in 1..Len(tc \o ms), (tc \o ms)[k].type = "ACCEPT"
        PROVE  k \in 1..Len(tc)
    <3>1. CASE k <= Len(tc)
      BY <2>4, <3>1
    <3>2. CASE ~(k <= Len(tc))
      <4>1. k - Len(tc) \in 1..Len(ms) /\ Len(tc) + (k - Len(tc)) = k
        BY <2>4, <3>2
      <4>2. ms[k - Len(tc)].type = "ACCEPT"
        BY <2>4, <2>5, <4>1
      <4> QED
        BY <4>1, <4>2 DEF Has
    <3> QED
      BY <3>1, <3>2
  <2>6. ASSUME NEW k \in 1..Len(tc \o ms), (tc \o ms)[k].type = "ACCEPT"
        PROVE  /\ Len((tc \o ms)[k].users) \in 1..Len(sl2)
               /\ sl2[Len((tc \o ms)[k].users)] = c
    <3>1. k \in 1..Len(tc) /\ (tc \o ms)[k] = tc[k]
      BY <2>4, <2>5, <2>6
    <3>2. Len(tc[k].users) \in 1..Len(sl) /\ sl[Len(tc[k].users)] = c
      BY <1>2, <2>6, <3>1 DEF Copy
    <3> QED
      BY <3>1, <3>2
  <2> QED
    BY <1>2, <2>2, <2>3, <2>6 DEF Copy
<1> QED
  BY <1>1, <1>2

\* c handles what comes first, and is told by ACCEPT which position is its own.
LEMMA CopyReceive ==
  ASSUME NEW c, NEW l, NEW sv, NEW tc, NEW us, NEW i, NEW sl,
         Copy(c, l, sv, tc, us, i, sl), IsChannel(tc), tc # <<>>, l # "closed"
  PROVE  /\ Fits(c, Shape(us), Head(tc))
         /\ Copy(c, l, sv, Tail(tc), Apply(us, Head(tc)),
                 IF Head(tc).type = "ACCEPT" THEN Len(Head(tc).users) ELSE i, sl)
<1> DEFINE m == Head(tc)
           vs == Apply(us, m)
           j == IF m.type = "ACCEPT" THEN Len(m.users) ELSE i
<1>1. us \in UserList /\ Present(us, i) /\ us[i].name = c
  BY DEF Copy
<1>2. PICK e \in Seq(Slot) : Reads(c, Shape(us), tc, e) /\ (sv = "member" => e = sl)
  BY DEF Copy
<1>3. Fits(c, Shape(us), m) /\ Reads(c, Place(Shape(us), m), Tail(tc), e)
  BY <1>2, ReadsTail
<1>4. vs \in UserList /\ Shape(vs) = Place(Shape(us), m)
  BY <1>1, <1>3, ApplyShape
<1>5. /\ Len(Tail(tc)) = Len(tc) - 1 /\ Len(tc) >= 1 /\ m = tc[1]
      /\ \A k \in 1..Len(tc) - 1 : Tail(tc)[k] = tc[k + 1]
      /\ Len(tc) \in Nat
  BY ChannelTail, ChannelParts
<1>6. Has(tc, "ACCEPT") <=> m.type = "ACCEPT" \/ Has(Tail(tc), "ACCEPT")
  BY HasTail
<1> HIDE DEF m, vs
<1>7. Present(Shape(us), i) /\ Shape(us)[i] = c
  BY <1>1, ShapeParts
<1>8. Shape(us) \in Seq(Slot) /\ Len(Shape(us)) \in Nat
  BY <1>1, ShapeParts, ListParts
<1>9. Present(Shape(vs), j) /\ Shape(vs)[j] = c
  <2>1. CASE m.type = "ACCEPT"
    <3>1. Shape(vs) = Shape(m.users) /\ m.users \in UserList /\ m.users # <<>>
          /\ Shape(m.users)[j] = c /\ j = Len(m.users)
      BY <1>3, <1>4, <2>1 DEF Fits, Place
    <3>2. Len(m.users) \in Nat \ {0} /\ Len(Shape(m.users)) = Len(m.users)
      BY <3>1, EmptySeq, ShapeParts DEF UserList
    <3>3. c # NoUser
      BY <1>7 DEF Present
    <3> QED
      BY <3>1, <3>2, <3>3 DEF Present
  <2>2. CASE m.type = "JOIN"
    <3>1. Shape(vs) = Append(Shape(us), m.info.name) /\ m.info.name \in Slot
      BY <1>3, <1>4, <2>2 DEF Place, Fits, UserInfos, Slot
    <3>2. /\ Len(Shape(vs)) = Len(Shape(us)) + 1
          /\ \A k \in 1..Len(Shape(us)) : Shape(vs)[k] = Shape(us)[k]
      BY <1>8, <3>1, AppendProperties
    <3> QED
      BY <1>7, <1>8, <2>2, <3>2 DEF Present
  <2>3. CASE m.type = "QUIT"
    <3>1. /\ Shape(vs) = [Shape(us) EXCEPT ![m.user] = NoUser]
          /\ Present(Shape(us), m.user) /\ Shape(us)[m.user] # c
      BY <1>3, <1>4, <2>3 DEF Place, Fits
    <3>2. /\ Len(Shape(vs)) = Len(Shape(us))
          /\ \A k \in 1..Len(Shape(us)) : k # m.user => Shape(vs)[k] = Shape(us)[k]
      <4>1. m.user \in 1..Len(Shape(us)) /\ NoUser \in Slot
        BY <3>1 DEF Present, Slot
      <4> QED
        BY <1>8, <3>1, <4>1, ExceptSeq
    <3> QED
      BY <1>7, <2>3, <3>1, <3>2 DEF Present
  <2>4. CASE m.type \notin {"ACCEPT", "JOIN", "QUIT"}
    BY <1>4, <1>7, <2>4 DEF Place
  <2> QED
    BY <2>1, <2>2, <2>3, <2>4
<1>10. Present(vs, j) /\ vs[j].name = c
  BY <1>4, <1>9, ShapeParts
<1>11. ASSUME sv = "member"
       PROVE  /\ (j \in 1..Len(sl) /\ sl[j] = c) \/ Has(Tail(tc), "ACCEPT")
              /\ \A k \in 1..Len(Tail(tc)) : Tail(tc)[k].type = "ACCEPT" =>
                    Len(Tail(tc)[k].users) \in 1..Len(sl) /\ sl[Len(Tail(tc)[k].users)] = c
  <2>1. /\ (i \in 1..Len(sl) /\ sl[i] = c) \/ Has(tc, "ACCEPT")
        /\ \A k \in 1..Len(tc) : tc[k].type = "ACCEPT" =>
              Len(tc[k].users) \in 1..Len(sl) /\ sl[Len(tc[k].users)] = c
    BY <1>11 DEF Copy
  <2>2. CASE m.type = "ACCEPT"
    <3>1. 1 \in 1..Len(tc)
      BY <1>5
    <3> QED
      BY <1>5, <2>1, <2>2, <3>1
  <2>3. CASE m.type # "ACCEPT"
    BY <1>6, <2>1, <2>3
  <2>4. ASSUME NEW k \in 1..Len(Tail(tc)), Tail(tc)[k].type = "ACCEPT"
        PROVE  Len(Tail(tc)[k].users) \in 1..Len(sl) /\ sl[Len(Tail(tc)[k].users)] = c
    <3>1. k + 1 \in 1..Len(tc) /\ Tail(tc)[k] = tc[k + 1]
      BY <1>5
    <3> QED
      BY <2>1, <2>4, <3>1
  <2>5. (j \in 1..Len(sl) /\ sl[j] = c) \/ Has(Tail(tc), "ACCEPT")
    <3>1. CASE m.type = "ACCEPT"
      <4>1. 1 \in 1..Len(tc)
        BY <1>5
      <4>2. Len(m.users) \in 1..Len(sl) /\ sl[Len(m.users)] = c
        BY <1>5, <2>1, <3>1, <4>1
      <4> QED
        BY <3>1, <4>2
    <3>2. CASE m.type # "ACCEPT"
      BY <1>6, <2>1, <3>2
    <3> QED
      BY <3>1, <3>2
  <2> QED
    BY <2>4, <2>5
<1>12. Copy(c, l, sv, Tail(tc), vs, j, sl)
  <2> HIDE DEF j
  <2> QED
    BY <1>2, <1>3, <1>4, <1>10, <1>11 DEF Copy
<1> QED
  BY <1>3, <1>12 DEF m, vs
-----------------------------------------------------------------------------
(* One client, its user and the channels between them.                      *)

\* What c sends can be handled by the server.
Sane(c, m) ==
    /\ m.type = "JOIN" => m.info \in UserInfos /\ m.info.name = c
    /\ m.type = "LAG" => m.lag \in Nat
    /\ m.type = "CONTROLLERS" => m.plugged \in BOOLEAN
    /\ m.type = "INPUT_MAP" => m.map \in Nat
    /\ m.type = "INPUT_DATA" => m.count \in Nat
    /\ m.type \in {"REQUEST_AUTHORITY", "DELEGATE_AUTHORITY"} => m.authority \in Nat
    /\ m.type = "GOLF" => m.golf \in BOOLEAN

AllSane(c, s) == IsChannel(s) /\ \A k \in 1..Len(s) : Sane(c, s[k])

LEMMA SaneConcat ==
  ASSUME NEW c, NEW s, NEW t, AllSane(c, s), AllSane(c, t)
  PROVE  AllSane(c, s \o t)
<1>1. /\ Len(s \o t) = Len(s) + Len(t)
      /\ \A i \in 1..Len(s) : (s \o t)[i] = s[i]
      /\ \A i \in 1..Len(t) : (s \o t)[Len(s) + i] = t[i]
      /\ Len(s) \in Nat /\ Len(t) \in Nat
      /\ IsChannel(s \o t)
  BY ChannelConcat, ChannelParts DEF AllSane
<1>2. ASSUME NEW k \in 1..Len(s \o t) PROVE Sane(c, (s \o t)[k])
  <2>1. CASE k <= Len(s)
    <3>1. k \in 1..Len(s) /\ (s \o t)[k] = s[k]
      BY <1>1, <2>1
    <3> QED
      BY <3>1 DEF AllSane
  <2>2. CASE ~(k <= Len(s))
    <3>1. k - Len(s) \in 1..Len(t) /\ Len(s) + (k - Len(s)) = k
      BY <1>1, <2>2
    <3>2. (s \o t)[k] = t[k - Len(s)]
      BY <1>1, <3>1
    <3> QED
      BY <3>1, <3>2 DEF AllSane
  <2> QED
    BY <2>1, <2>2
<1> QED
  BY <1>1, <1>2 DEF AllSane

LEMMA SaneOne ==
  ASSUME NEW c, NEW m, Sane(c, m)
  PROVE  AllSane(c, <<m>>)
BY ChannelOne DEF AllSane

LEMMA SaneNone == ASSUME NEW c PROVE AllSane(c, <<>>)
BY ChannelNone DEF AllSane

LEMMA SaneTail ==
  ASSUME NEW c, NEW s, AllSane(c, s), s # <<>>
  PROVE  AllSane(c, Tail(s)) /\ Sane(c, Head(s))
<1>1. /\ Len(Tail(s)) = Len(s) - 1 /\ Len(s) >= 1 /\ Head(s) = s[1]
      /\ \A i \in 1..Len(s) - 1 : Tail(s)[i] = s[i + 1]
      /\ Len(s) \in Nat /\ IsChannel(Tail(s))
  BY ChannelTail, ChannelParts DEF AllSane
<1>2. ASSUME NEW k \in 1..Len(s) - 1 PROVE Sane(c, Tail(s)[k])
  <2>1. k + 1 \in 1..Len(s) /\ Tail(s)[k] = s[k + 1]
    BY <1>1
  <2> QED
    BY <2>1 DEF AllSane
<1>3. Sane(c, Head(s))
  <2>1. 1 \in 1..Len(s)
    BY <1>1
  <2> QED
    BY <1>1, <2>1 DEF AllSane
<1> QED
  BY <1>1, <1>2, <1>3 DEF AllSane

\* Client c, with link l, its user at sv, the channels ts to the server and tc
\* to the client, the list us with itself at position i, and started if st, in a
\* room that has started if rs and has the list sl.
Good(c, l, sv, ts, tc, us, i, st, rs, sl) ==
    /\ AllSane(c, ts) /\ IsChannel(tc)
    /\ Session(l, sv, ts, tc, st, rs)
    /\ Copy(c, l, sv, tc, us, i, sl)

\* A message of the client's own that does not end anything.
Sent(c, ms) == AllSane(c, ms) /\ ~Has(ms, "EOF")

LEMMA SentOne ==
  ASSUME NEW c, NEW m, Sane(c, m), m.type # "EOF"
  PROVE  Sent(c, <<m>>)
BY SaneOne, HasOne DEF Sent

LEMMA SentNone == ASSUME NEW c PROVE Sent(c, <<>>)
BY SaneNone, HasNone DEF Sent

LEMMA SentConcat ==
  ASSUME NEW c, NEW s, NEW t, Sent(c, s), Sent(c, t)
  PROVE  Sent(c, s \o t)
BY SaneConcat, HasConcat DEF Sent, AllSane

LEMMA GoodSend ==
  ASSUME NEW c, NEW l, NEW sv, NEW ts, NEW tc, NEW us, NEW i, NEW st, NEW rs, NEW sl,
         Good(c, l, sv, ts, tc, us, i, st, rs, sl), l # "closed",
         NEW vs \in UserList, Len(vs) = Len(us), Shape(vs) = Shape(us),
         NEW ms, Sent(c, ms)
  PROVE  /\ Good(c, l, sv, ts \o ms, tc, vs, i, st, rs, sl)
         /\ Good(c, l, sv, ts, tc, vs, i, st, rs, sl)
<1>1. Copy(c, l, sv, tc, vs, i, sl)
  BY CopyChanged DEF Good
<1>2. AllSane(c, ts \o ms)
  BY SaneConcat DEF Good, Sent
<1>3. Session(l, sv, ts \o ms, tc, st, rs)
  BY SessionSend DEF Good, Sent, AllSane
<1> QED
  BY <1>1, <1>2, <1>3 DEF Good

LEMMA GoodJoin ==
  ASSUME NEW c, NEW sv, NEW ts, NEW tc, NEW us, NEW i, NEW st, NEW rs, NEW sl,
         Good(c, "query", sv, ts, tc, us, i, st, rs, sl),
         NEW m, m = [type |-> "JOIN", info |-> us[i]]
  PROVE  Good(c, "joined", sv, Append(ts, m), tc, us, i, st, rs, sl)
<1>1. us[i] \in UserInfos /\ us[i].name = c
  BY ListParts DEF Good, Copy
<1>2. Sane(c, m) /\ m.type = "JOIN"
  BY <1>1 DEF Sane
<1>3. AllSane(c, <<m>>) /\ Has(<<m>>, "JOIN") /\ ~Has(<<m>>, "EOF")
  BY <1>2, SaneOne, HasOne
<1>4. Append(ts, m) = ts \o <<m>> /\ IsChannel(<<m>>)
  BY ChannelAppend, ChannelOne DEF Good, AllSane
<1>5. AllSane(c, ts \o <<m>>)
  BY <1>3, SaneConcat DEF Good
<1>6. Session("joined", sv, ts \o <<m>>, tc, st, rs)
  BY <1>3, <1>4, SessionJoin DEF Good, AllSane
<1>7. Copy(c, "joined", sv, tc, us, i, sl)
  BY DEF Good, Copy
<1> QED
  BY <1>4, <1>5, <1>6, <1>7 DEF Good

LEMMA GoodReceive ==
  ASSUME NEW c, NEW l, NEW sv, NEW ts, NEW tc, NEW us, NEW i, NEW st, NEW rs, NEW sl,
         Good(c, l, sv, ts, tc, us, i, st, rs, sl), l # "closed", tc # <<>>,
         Head(tc).type # "EOF",
         NEW st2, IF Head(tc).type = "START" THEN st2 = TRUE ELSE st2 = st
  PROVE  /\ Fits(c, Shape(us), Head(tc))
         /\ Good(c, l, sv, ts, Tail(tc), Apply(us, Head(tc)),
                 IF Head(tc).type = "ACCEPT" THEN Len(Head(tc).users) ELSE i, st2, rs, sl)
<1>1. IsChannel(Tail(tc))
  BY ChannelTail DEF Good
<1>2. Session(l, sv, ts, Tail(tc), st2, rs)
  BY SessionReceive DEF Good
<1>3. /\ Fits(c, Shape(us), Head(tc))
      /\ Copy(c, l, sv, Tail(tc), Apply(us, Head(tc)),
              IF Head(tc).type = "ACCEPT" THEN Len(Head(tc).users) ELSE i, sl)
  BY CopyReceive DEF Good
<1> QED
  BY <1>1, <1>2, <1>3 DEF Good

\* Without a connection only the list matters.
LEMMA GoodAlone ==
  ASSUME NEW c, NEW l, NEW sv, NEW ts, NEW tc, NEW us, NEW i, NEW st, NEW rs, NEW sl,
         Good(c, l, sv, ts, tc, us, i, st, rs, sl),
         NEW vs \in UserList, Len(vs) = 1, Present(vs, 1), vs[1].name = c,
         NEW ts2, AllSane(c, ts2), sv = "none" => ts2 = <<>>
  PROVE  Good(c, "closed", sv, ts2, <<>>, vs, 1, st, rs, sl)
<1>1. Session("closed", sv, ts2, <<>>, st, rs)
  BY DEF Good, Session
<1>2. Copy(c, "closed", sv, <<>>, vs, 1, sl)
  BY DEF Copy
<1> QED
  BY <1>1, <1>2, ChannelNone DEF Good

\* The server sends a member ms, which make the room's list sl to sl2.
LEMMA GoodTold ==
  ASSUME NEW c, NEW l, NEW ts, NEW tc, NEW us, NEW i, NEW st, NEW rs, NEW sl,
         Good(c, l, "member", ts, tc, us, i, st, rs, sl),
         NEW sl2 \in Seq(Slot), NEW ms, IsChannel(ms), Reads(c, sl, ms, sl2),
         ~Has(ms, "ACCEPT"), NEW rs2, IF Has(ms, "START") THEN rs2 = TRUE ELSE rs2 = rs,
         \A j \in 1..Len(sl) : sl[j] = c => j \in 1..Len(sl2) /\ sl2[j] = c
  PROVE  Good(c, l, "member", ts, tc \o ms, us, i, st, rs2, sl2)
<1>1. Session(l, "member", ts, tc \o ms, st, rs2)
  BY SessionTold DEF Good
<1>2. Copy(c, l, "member", tc \o ms, us, i, sl2)
  BY CopyTold DEF Good
<1>3. IsChannel(tc \o ms)
  BY ChannelConcat DEF Good
<1> QED
  BY <1>1, <1>2, <1>3 DEF Good

\* What becomes of a room says nothing to those who are not in it.
LEMMA GoodElsewhere ==
  ASSUME NEW c, NEW l, NEW sv, NEW ts, NEW tc, NEW us, NEW i, NEW st, NEW rs, NEW sl,
         Good(c, l, sv, ts, tc, us, i, st, rs, sl), sv # "member", NEW rs2, NEW sl2
  PROVE  Good(c, l, sv, ts, tc, us, i, st, rs2, sl2)
BY DEF Good, Session, Copy

\* The server has handled a packet: a member's, or the JOIN of a new user.
LEMMA GoodHandled ==
  ASSUME NEW c, NEW l, NEW sv, NEW ts, NEW tc, NEW us, NEW i, NEW st, NEW rs, NEW sl,
         Good(c, l, sv, ts, tc, us, i, st, rs, sl), ts # <<>>,
         NEW sv2, (sv = "member" /\ sv2 = "member") \/ (sv = "open" /\ sv2 = "query")
  PROVE  Sane(c, Head(ts)) /\ Good(c, l, sv2, Tail(ts), tc, us, i, st, rs, sl)
<1>1. AllSane(c, Tail(ts)) /\ Sane(c, Head(ts))
  BY SaneTail DEF Good
<1>2. \A type : Has(ts, type) <=> Head(ts).type = type \/ Has(Tail(ts), type)
  BY HasTail DEF Good, AllSane
<1>3. Session(l, sv2, Tail(ts), tc, st, rs)
  BY <1>2 DEF Good, Session
<1>4. Copy(c, l, sv2, tc, us, i, sl)
  BY DEF Good, Copy
<1> QED
  BY <1>1, <1>3, <1>4 DEF Good

\* The server ends the connection.
LEMMA GoodDropped ==
  ASSUME NEW c, NEW l, NEW sv, NEW ts, NEW tc, NEW us, NEW i, NEW st, NEW rs, NEW sl,
         Good(c, l, sv, ts, tc, us, i, st, rs, sl),
         NEW tc2, tc2 = IF l = "closed" THEN <<>> ELSE Append(tc, Message("EOF")),
         NEW rs2, NEW sl2
  PROVE  Good(c, l, "none", <<>>, tc2, us, i, st, rs2, sl2)
<1> DEFINE eof == Message("EOF")
<1>1. eof.type = "EOF"
  BY DEF Message
<1>2. CASE l = "closed"
  <2>1. tc2 = <<>> /\ IsChannel(<<>>)
    BY <1>2, ChannelNone
  <2>2. Session(l, "none", <<>>, <<>>, st, rs2)
    BY <1>2, HasNone DEF Session
  <2>3. Copy(c, l, "none", <<>>, us, i, sl2)
    BY <1>2 DEF Good, Copy
  <2> QED
    BY <2>1, <2>2, <2>3, SaneNone DEF Good
<1>3. CASE l # "closed"
  <2>1. tc2 = tc \o <<eof>> /\ IsChannel(tc2) /\ IsChannel(<<eof>>)
    BY <1>3, ChannelAppend, ChannelOne DEF Good
  <2> HIDE DEF eof
  <2>2. Has(tc2, "EOF")
    <3>1. Has(<<eof>>, "EOF") /\ IsChannel(tc)
      BY <1>1, HasOne DEF Good
    <3>2. Has(tc \o <<eof>>, "EOF")
      BY <2>1, <3>1, HasConcat
    <3> QED
      BY <2>1, <3>2
  <2>3. Session(l, "none", <<>>, tc2, st, rs2)
    BY <1>3, <2>2, HasNone DEF Good, Session
  <2>4. PICK e \in Seq(Slot) : Reads(c, Shape(us), tc, e)
    BY <1>3 DEF Good, Copy
  <2>5. Fits(c, e, eof) /\ Place(e, eof) = e
    BY <1>1 DEF Fits, Place
  <2>6. Reads(c, e, <<eof>>, e)
    BY <2>5, ReadsOne
  <2>7. Reads(c, Shape(us), tc2, e)
    BY <2>1, <2>4, <2>6, ReadsConcat DEF Good
  <2>8. Copy(c, l, "none", tc2, us, i, sl2)
    BY <1>3, <2>7 DEF Good, Copy
  <2> QED
    BY <2>1, <2>3, <2>8, SaneNone DEF Good
<1> QED
  BY <1>2, <1>3

\* A new connection.
LEMMA GoodConnect ==
  ASSUME NEW c, NEW ts, NEW tc, NEW us, NEW i, NEW st, NEW rs, NEW sl,
         Good(c, "closed", "none", ts, tc, us, i, st, rs, sl), ~st,
         NEW vs \in UserList, Len(vs) = Len(us), Shape(vs) = Shape(us)
  PROVE  Good(c, "query", "open", ts, tc, vs, i, st, rs, sl)
<1>1. Copy(c, "closed", "none", tc, vs, i, sl)
  BY CopyChanged DEF Good
<1>2. ts = <<>> /\ tc = <<>>
  BY DEF Good, Session
<1>3. Session("query", "open", ts, tc, st, rs)
  BY <1>2, HasNone DEF Session
<1>4. Shape(vs) \in Seq(Slot)
  BY ShapeParts
<1>5. Reads(c, Shape(vs), tc, Shape(vs))
  BY <1>2, <1>4, ReadsNone
<1>6. Copy(c, "query", "open", tc, vs, i, sl)
  BY <1>1, <1>4, <1>5 DEF Copy
<1> QED
  BY <1>3, <1>6 DEF Good

\* A new user enters the room, whose list becomes sl2 with itself at the end.
LEMMA GoodEnter ==
  ASSUME NEW c, NEW l, NEW ts, NEW tc, NEW us, NEW i, NEW st, NEW sl, NEW sl2 \in Seq(Slot),
         Good(c, l, "query", ts, tc, us, i, st, FALSE, sl),
         NEW ms, IsChannel(ms), ~Has(ms, "START"),
         \A sh \in Seq(Slot) : Reads(c, sh, ms, sl2),
         Has(ms, "ACCEPT"),
         \A k \in 1..Len(ms) : ms[k].type = "ACCEPT" =>
            Len(ms[k].users) \in 1..Len(sl2) /\ sl2[Len(ms[k].users)] = c
  PROVE  Good(c, l, "member", ts, tc \o ms, us, i, st, FALSE, sl2)
<1>1. tc = <<>> /\ (l # "closed" => ~st)
  BY DEF Good, Session
<1>2. tc \o ms = ms
  BY <1>1, ConcatEmptySeq DEF IsChannel
<1>3. Session(l, "member", ts, ms, st, FALSE)
  BY <1>1 DEF Good, Session
<1>4. Shape(us) \in Seq(Slot)
  BY ShapeParts DEF Good, Copy
<1>5. Copy(c, l, "member", ms, us, i, sl2)
  BY <1>4 DEF Good, Copy
<1> QED
  BY <1>2, <1>3, <1>5 DEF Good

-----------------------------------------------------------------------------
(* What the server keeps.                                                   *)

\* The list of the room has every member, and each in one place.
Seated(sl, sv) ==
    /\ sl \in Seq(Slot)
    /\ \A c \in Client : sv[c] = "member" <=> \E i \in 1..Len(sl) : sl[i] = c
    /\ \A i, j \in 1..Len(sl) : sl[i] = sl[j] /\ sl[i] # NoUser => i = j

Infos(inf) == inf \in [Client -> UserInfos] /\ \A c \in Client : inf[c].name = c

LEMMA PosParts ==
  ASSUME NEW sl, NEW sv, Seated(sl, sv), NEW c \in Client, sv[c] = "member"
  PROVE  /\ Pos(sl, c) \in 1..Len(sl) /\ Len(sl) \in Nat /\ sl[Pos(sl, c)] = c
         /\ Present(sl, Pos(sl, c))
         /\ \A j \in 1..Len(sl) : sl[j] = c => j = Pos(sl, c)
<1>1. \E i \in 1..Len(sl) : sl[i] = c
  BY DEF Seated
<1>2. Pos(sl, c) \in 1..Len(sl) /\ sl[Pos(sl, c)] = c
  BY <1>1 DEF Pos
<1>3. Len(sl) \in Nat
  BY LenProperties DEF Seated
<1>4. c # NoUser
  BY NoUserAssumption
<1>5. \A j \in 1..Len(sl) : sl[j] = c => j = Pos(sl, c)
  BY <1>2, <1>4 DEF Seated
<1> QED
  BY <1>2, <1>3, <1>4, <1>5 DEF Present

LEMMA InfosChange ==
  ASSUME NEW inf, Infos(inf), NEW x, NEW r, x \in Client => r \in UserInfos /\ r.name = x,
         NEW inf2, inf2 = [inf EXCEPT ![x] = r]
  PROVE  Infos(inf2)
<1>1. inf2 = [c \in Client |-> IF c = x THEN r ELSE inf[c]]
  BY DEF Infos
<1> QED
  BY <1>1 DEF Infos

\* The server maps everybody's controllers to ports, and changes nothing else.
LEMMA InfosMapped ==
  ASSUME NEW inf, Infos(inf), NEW sl \in Seq(Slot), NEW man
  PROVE  Infos(ControllerMap(sl, inf, man))
<1> DEFINE port(c) == Cardinality(Earlier(sl, c, inf, man)) + 1
           r(c) == [inf[c] EXCEPT !.map = IF inf[c].plugged /\ port(c) <= 4 THEN port(c) ELSE 0]
           auto == {sl[i] : i \in 1..Len(sl)} \ man
<1>1. Len(sl) \in Nat /\ \A i \in 1..Len(sl) : sl[i] \in Slot
  BY LenProperties
<1>2. ASSUME NEW c \in auto PROVE port(c) \in Nat
  <2> DEFINE seen == {sl[i] : i \in 1..Pos(sl, c)}
  <2>1. Pos(sl, c) \in 1..Len(sl)
    BY <1>2 DEF Pos
  <2>2. IsFiniteSet(1..Pos(sl, c))
    BY <1>1, <2>1, FS_Interval
  <2>3. IsFiniteSet(seen)
    <3> DEFINE f == [i \in 1..Pos(sl, c) |-> sl[i]]
    <3>1. f \in Surjection(1..Pos(sl, c), seen)
      BY DEF Surjection
    <3> HIDE DEF f, seen
    <3> QED
      BY <2>2, <3>1, FS_Surjection
  <2>4. Earlier(sl, c, inf, man) \subseteq seen
    BY DEF Earlier
  <2> HIDE DEF seen
  <2>5. IsFiniteSet(Earlier(sl, c, inf, man))
    BY <2>3, <2>4, FS_Subset
  <2>6. Cardinality(Earlier(sl, c, inf, man)) \in Nat
    BY <2>5, FS_CardinalityType
  <2> QED
    BY <2>6
<1>3. ControllerMap(sl, inf, man) = [c \in Client |-> IF c \notin auto THEN inf[c] ELSE r(c)]
  BY DEF ControllerMap
<1>4. ASSUME NEW c \in Client, c \in auto PROVE r(c) \in UserInfos /\ r(c).name = c
  <2>1. port(c) \in Nat
    BY <1>2, <1>4
  <2>2. inf[c] \in UserInfos /\ inf[c].name = c
    BY DEF Infos
  <2> HIDE DEF port
  <2> QED
    BY <2>1, <2>2 DEF UserInfos
<1> HIDE DEF r, auto
<1> QED
  BY <1>3, <1>4 DEF Infos

LEMMA InfosLag ==
  ASSUME NEW inf, Infos(inf), NEW lag \in Nat, NEW source
  PROVE  Infos(SetRoomLag(inf, lag, source))
BY DEF Infos, SetRoomLag, UserInfos

-----------------------------------------------------------------------------
(* What the server sends can be handled by those it is sent to.             *)

LEMMA ReadsKeeps ==
  ASSUME NEW c, NEW sh \in Seq(Slot), NEW m, Fits(c, sh, m),
         m.type \notin {"ACCEPT", "JOIN", "QUIT"}
  PROVE  Reads(c, sh, <<m>>, sh) /\ IsChannel(<<m>>) /\ ~Has(<<m>>, "ACCEPT")
<1>1. Place(sh, m) = sh
  BY DEF Place
<1> QED
  BY <1>1, ReadsOne, ChannelOne, HasOne

\* Everything but START that keeps the list.
Keeps(c, sh, ms) ==
    Reads(c, sh, ms, sh) /\ IsChannel(ms) /\ ~Has(ms, "ACCEPT") /\ ~Has(ms, "START")

LEMMA KeepsOne ==
  ASSUME NEW c, NEW sh \in Seq(Slot), NEW m, Fits(c, sh, m),
         m.type \notin {"ACCEPT", "JOIN", "QUIT", "START"}
  PROVE  Keeps(c, sh, <<m>>)
BY ReadsKeeps, HasOne DEF Keeps

LEMMA KeepsNone ==
  ASSUME NEW c, NEW sh \in Seq(Slot)
  PROVE  Keeps(c, sh, <<>>)
BY ReadsNone, ChannelNone, HasNone DEF Keeps

LEMMA KeepsConcat ==
  ASSUME NEW c, NEW sh, NEW s, NEW t, Keeps(c, sh, s), Keeps(c, sh, t)
  PROVE  Keeps(c, sh, s \o t)
BY ReadsConcat, ChannelConcat, HasConcat DEF Keeps

LEMMA KeepsLag ==
  ASSUME NEW c, NEW sh \in Seq(Slot), NEW lag \in Nat, NEW ids, \A i \in ids : Present(sh, i)
  PROVE  Keeps(c, sh, <<Lag(lag, ids)>>)
<1>1. Fits(c, sh, Lag(lag, ids)) /\ Lag(lag, ids).type = "LAG"
  BY DEF Fits, Lag
<1> QED
  BY <1>1, KeepsOne

LEMMA NamesParts ==
  ASSUME NEW sh \in Seq(Slot)
  PROVE  /\ Len(Names(sh)) \in Nat /\ Len(Names(sh)) = Len(Live(sh))
         /\ \A n \in 1..Len(Names(sh)) : Names(sh)[n] \in Client
<1>1. Len(sh) \in Nat /\ \A i \in 1..Len(sh) : sh[i] \in Slot
  BY LenProperties
<1>2. Len(Live(sh)) \in Nat /\ \A n \in 1..Len(Live(sh)) : Present(sh, Live(sh)[n])
  BY <1>1, LiveParts
<1>3. \A n \in 1..Len(Live(sh)) : sh[Live(sh)[n]] \in Client
  BY <1>1, <1>2 DEF Present, Slot
<1>4. Len(Names(sh)) = Len(Live(sh))
  BY <1>2 DEF Names
<1> QED
  BY <1>2, <1>3, <1>4 DEF Names

LEMMA KeepsControllers ==
  ASSUME NEW c, NEW sh \in Seq(Slot), NEW inf, Infos(inf)
  PROVE  Keeps(c, sh, <<Controllers(sh, inf)>>)
<1> DEFINE m == Controllers(sh, inf)
<1>1. m.type = "CONTROLLERS" /\ m.list = sh
  BY DEF Controllers
<1>2. ASSUME NEW n \in 1..Len(Names(sh))
      PROVE  m.records[n].plugged \in BOOLEAN /\ m.records[n].map \in Nat
  <2>1. inf[Names(sh)[n]] \in UserInfos
    BY NamesParts DEF Infos
  <2>2. /\ m.records[n].plugged = inf[Names(sh)[n]].plugged
        /\ m.records[n].map = inf[Names(sh)[n]].map
    BY DEF Controllers
  <2> QED
    BY <2>1, <2>2 DEF UserInfos
<1> HIDE DEF m
<1>3. Fits(c, sh, m)
  BY <1>1, <1>2 DEF Fits
<1>4. Keeps(c, sh, <<m>>)
  BY <1>1, <1>3, KeepsOne
<1> QED
  BY <1>4 DEF m

LEMMA KeepsLatency ==
  ASSUME NEW c, NEW sh \in Seq(Slot)
  PROVE  Keeps(c, sh, <<Latency(sh)>>)
<1>1. Latency(sh).type = "LATENCY" /\ Latency(sh).list = sh
  BY DEF Latency
<1>2. Fits(c, sh, Latency(sh))
  BY <1>1 DEF Fits
<1> QED
  BY <1>1, <1>2, KeepsOne

\* The user at position i has left, and nobody else.
LEMMA FarewellParts ==
  ASSUME NEW c, NEW sh \in Seq(Slot), NEW i, Present(sh, i), sh[i] # c,
         NEW sh2, sh2 = [sh EXCEPT ![i] = NoUser], NEW inf, Infos(inf), room.started \in BOOLEAN
  PROVE  /\ sh2 \in Seq(Slot) /\ Reads(c, sh, Farewell(i, sh2, inf), sh2)
         /\ IsChannel(Farewell(i, sh2, inf)) /\ ~Has(Farewell(i, sh2, inf), "ACCEPT")
         /\ ~Has(Farewell(i, sh2, inf), "START")
<1> DEFINE m == [type |-> "QUIT", user |-> i]
           rest == IF room.started THEN <<>> ELSE <<Controllers(sh2, inf)>>
<1>1. m.type = "QUIT" /\ Fits(c, sh, m) /\ Place(sh, m) = sh2
  BY DEF Fits, Place
<1>2. sh2 \in Seq(Slot)
  <2>1. i \in 1..Len(sh) /\ NoUser \in Slot
    BY DEF Present, Slot
  <2> QED
    BY <2>1, ExceptSeq
<1> HIDE DEF m
<1>3. Reads(c, sh, <<m>>, sh2)
  <2>1. Fits(c, sh, m) /\ Place(sh, m) \in Seq(Slot)
    BY <1>1, <1>2
  <2>2. Reads(c, sh, <<m>>, Place(sh, m))
    BY <2>1, ReadsOne
  <2> QED
    BY <1>1, <2>2
<1>4. IsChannel(<<m>>) /\ ~Has(<<m>>, "ACCEPT") /\ ~Has(<<m>>, "START")
  BY <1>1, ChannelOne, HasOne
<1>5. Keeps(c, sh2, rest)
  BY <1>2, KeepsNone, KeepsControllers
<1> HIDE DEF rest
<1>6. Reads(c, sh, <<m>> \o rest, sh2)
  BY <1>3, <1>4, <1>5, ReadsConcat DEF Keeps
<1>7. IsChannel(<<m>> \o rest) /\ ~Has(<<m>> \o rest, "ACCEPT") /\ ~Has(<<m>> \o rest, "START")
  BY <1>4, <1>5, ChannelConcat, HasConcat DEF Keeps
<1>8. Farewell(i, sh2, inf) = <<m>> \o rest
  BY DEF Farewell, m, rest
<1> QED
  BY <1>2, <1>6, <1>7, <1>8

\* A user has come.
LEMMA AnnouncementParts ==
  ASSUME NEW c, NEW sh \in Seq(Slot), NEW new \in UserInfos, new.authority = Len(sh) + 1,
         NEW sh2, sh2 = Append(sh, new.name),
         NEW common, Keeps(c, sh2, common)
  PROVE  /\ Reads(c, sh, Announcement(new, common), sh2)
         /\ IsChannel(Announcement(new, common)) /\ ~Has(Announcement(new, common), "ACCEPT")
         /\ ~Has(Announcement(new, common), "START")
<1> DEFINE m == [type |-> "JOIN", info |-> new]
<1>1. m.type = "JOIN" /\ Fits(c, sh, m) /\ Place(sh, m) = sh2
  BY DEF Fits, Place
<1>2. sh2 \in Seq(Slot)
  <2>1. new.name \in Slot
    BY DEF UserInfos, Slot
  <2> QED
    BY <2>1, AppendProperties
<1>3. Announcement(new, common) = <<m>> \o common
  BY DEF Announcement
<1> HIDE DEF m
<1>4. Reads(c, sh, <<m>>, sh2)
  BY <1>1, <1>2, ReadsOne
<1>5. IsChannel(<<m>>) /\ ~Has(<<m>>, "ACCEPT") /\ ~Has(<<m>>, "START")
  BY <1>1, ChannelOne, HasOne
<1>6. Reads(c, sh, <<m>> \o common, sh2)
  BY <1>4, <1>5, ReadsConcat DEF Keeps
<1>7. /\ IsChannel(<<m>> \o common) /\ ~Has(<<m>> \o common, "ACCEPT")
      /\ ~Has(<<m>> \o common, "START")
  BY <1>5, ChannelConcat, HasConcat DEF Keeps
<1> QED
  BY <1>3, <1>6, <1>7

\* What the new user is sent, whatever its list was.
LEMMA GreetingParts ==
  ASSUME NEW c \in Client, NEW all \in UserList, all # <<>>, NEW sh2, sh2 = Shape(all),
         sh2[Len(all)] = c, NEW common, Keeps(c, sh2, common), NEW on \in BOOLEAN,
         NEW ms, ms = Greeting(all, common, on)
  PROVE  /\ IsChannel(ms) /\ ~Has(ms, "START") /\ Has(ms, "ACCEPT")
         /\ \A sh \in Seq(Slot) : Reads(c, sh, ms, sh2)
         /\ \A k \in 1..Len(ms) : ms[k].type = "ACCEPT" =>
              Len(ms[k].users) \in 1..Len(sh2) /\ sh2[Len(ms[k].users)] = c
<1> DEFINE m == [type |-> "ACCEPT", users |-> all]
           g == [type |-> "GOLF", golf |-> on]
           rest == common \o <<g>>
<1>1. m.type = "ACCEPT" /\ m.users = all /\ g.type = "GOLF" /\ g.golf = on
  OBVIOUS
<1>2. ms = (<<m>> \o common) \o <<g>>
  BY DEF Greeting
<1>3. sh2 \in Seq(Slot) /\ Len(sh2) = Len(all) /\ Len(all) \in Nat \ {0}
  BY ShapeParts, ListParts, EmptySeq DEF UserList
<1> HIDE DEF m, g
<1>4. \A sh \in Seq(Slot) : Fits(c, sh, m) /\ Place(sh, m) = sh2
  BY <1>1 DEF Fits, Place
<1>5. \A sh \in Seq(Slot) : Reads(c, sh, <<m>>, sh2)
  BY <1>3, <1>4, ReadsOne
<1>6. Fits(c, sh2, g)
  BY <1>1 DEF Fits
<1>7. Keeps(c, sh2, <<g>>)
  BY <1>1, <1>3, <1>6, KeepsOne
<1>8. IsChannel(<<m>>) /\ Len(<<m>>) = 1 /\ <<m>>[1] = m
  BY ChannelOne
<1>9. Keeps(c, sh2, rest)
  BY <1>7, KeepsConcat
<1>10. ms = <<m>> \o rest
  <2>1. IsChannel(common) /\ IsChannel(<<g>>)
    BY <1>7 DEF Keeps
  <2> QED
    BY <1>2, <1>8, <2>1, Joined DEF rest
<1> HIDE DEF rest
<1>11. \A sh \in Seq(Slot) : Reads(c, sh, ms, sh2)
  BY <1>5, <1>8, <1>9, <1>10, ReadsConcat DEF Keeps
<1>12. IsChannel(ms) /\ ~Has(ms, "START") /\ Has(ms, "ACCEPT")
  BY <1>1, <1>8, <1>9, <1>10, ChannelConcat, HasConcat, HasOne DEF Keeps
<1>13. ASSUME NEW k \in 1..Len(ms), ms[k].type = "ACCEPT" PROVE ms[k] = m
  <2>1. /\ Len(ms) = 1 + Len(rest) /\ Len(rest) \in Nat
        /\ ms[1] = m /\ \A j \in 1..Len(rest) : ms[1 + j] = rest[j]
    BY <1>8, <1>9, <1>10, ChannelConcat, ChannelParts DEF Keeps
  <2>2. CASE k = 1
    BY <2>1, <2>2
  <2>3. CASE k # 1
    <3>1. k - 1 \in 1..Len(rest) /\ 1 + (k - 1) = k
      BY <2>1, <2>3
    <3>2. rest[k - 1].type = "ACCEPT"
      BY <1>13, <2>1, <3>1
    <3> QED
      BY <1>9, <3>1, <3>2 DEF Keeps, Has
  <2> QED
    BY <2>2, <2>3
<1>14. \A k \in 1..Len(ms) : ms[k].type = "ACCEPT" =>
         Len(ms[k].users) \in 1..Len(sh2) /\ sh2[Len(ms[k].users)] = c
  BY <1>1, <1>3, <1>13
<1> QED
  BY <1>11, <1>12, <1>14

-----------------------------------------------------------------------------
(* The invariant: every client is Good with the room, its server's user and *)
(* the channels as they are.                                                *)

IsTable(f) == f = [c \in Client |-> f[c]]

RoomTypes ==
    /\ room \in [started : BOOLEAN, lag : Nat, autolag : BOOLEAN, golf : BOOLEAN]
    /\ golf \in [Client -> BOOLEAN] /\ started \in [Client -> BOOLEAN]
    /\ IsTable(link) /\ IsTable(serving) /\ IsTable(users) /\ IsTable(me)
    /\ IsTable(toServer) /\ IsTable(toClient)

GoodClient(c) ==
    Good(c, link[c], serving[c], toServer[c], toClient[c], users[c], me[c], started[c],
         room.started, slots)

RoomInv ==
    /\ RoomTypes
    /\ Seated(slots, serving)
    /\ Infos(info)
    /\ \A c \in Client : GoodClient(c)

LEMMA TableChange ==
  ASSUME NEW f, IsTable(f), NEW c \in Client, NEW x, NEW g, Changes(f, g, c, x)
  PROVE  IsTable(g) /\ g[c] = x /\ \A d \in Client \ {c} : g[d] = f[d]
BY DEF IsTable, Changes

LEMMA UserInfoParts ==
  ASSUME NEW c \in Client
  PROVE  /\ UserInfo(c) \in UserInfos /\ UserInfo(c).name = c
         /\ <<UserInfo(c)>> \in UserList /\ Len(<<UserInfo(c)>>) = 1
         /\ Present(<<UserInfo(c)>>, 1) /\ <<UserInfo(c)>>[1] = UserInfo(c)
<1>1. UserInfo(c) \in UserInfos /\ UserInfo(c).name = c
  BY DEF UserInfo, UserInfos
<1>2. UserInfo(c) # NoUser
  BY <1>1, NoUserAssumption
<1> QED
  BY <1>1, <1>2 DEF UserList, Present

LEMMA RoomInvInit == Init => RoomInv
<1> SUFFICES ASSUME Init PROVE RoomInv
  OBVIOUS
<1>1. RoomTypes
  BY LagAssumption DEF Init, RoomTypes, NewRoom, IsTable
<1>2. Seated(slots, serving)
  <2>1. slots \in Seq(Slot) /\ Len(slots) = 0
    BY DEF Init
  <2>2. \A c \in Client : serving[c] # "member"
    BY DEF Init
  <2> QED
    BY <2>1, <2>2 DEF Seated
<1>3. Infos(info)
  BY UserInfoParts DEF Init, Infos
<1>4. ASSUME NEW c \in Client PROVE GoodClient(c)
  <2> DEFINE us == <<UserInfo(c)>>
  <2>1. /\ link[c] = "closed" /\ serving[c] = "none" /\ toServer[c] = <<>> /\ toClient[c] = <<>>
        /\ users[c] = us /\ me[c] = 1
    BY DEF Init
  <2>2. us \in UserList /\ Len(us) = 1 /\ Present(us, 1) /\ us[1].name = c
    BY UserInfoParts
  <2> HIDE DEF us
  <2>3. Session("closed", "none", <<>>, <<>>, started[c], room.started)
    BY HasNone DEF Session
  <2>4. Copy(c, "closed", "none", <<>>, us, 1, slots)
    BY <2>2 DEF Copy
  <2> QED
    BY <2>1, <2>3, <2>4, SaneNone, ChannelNone DEF GoodClient, Good
<1> QED
  BY <1>1, <1>2, <1>3, <1>4 DEF RoomInv

\* Only c and its user take part, and the user neither enters nor leaves.
Only(c) ==
    /\ IsTable(link') /\ IsTable(serving') /\ IsTable(users') /\ IsTable(me')
    /\ IsTable(toServer') /\ IsTable(toClient')
    /\ \A d \in Client \ {c} :
         /\ link'[d] = link[d] /\ serving'[d] = serving[d] /\ users'[d] = users[d]
         /\ me'[d] = me[d] /\ toServer'[d] = toServer[d] /\ toClient'[d] = toClient[d]
    /\ serving'[c] = "member" <=> serving[c] = "member"

LEMMA OnlyInfoStep ==
  ASSUME RoomInv, NEW c \in Client, Only(c), UNCHANGED <<slots, room>>, Infos(info'),
         golf' \in [Client -> BOOLEAN], started' \in [Client -> BOOLEAN],
         \A d \in Client \ {c} : started'[d] = started[d],
         GoodClient(c)'
  PROVE  RoomInv'
<1>1. RoomTypes'
  BY DEF RoomInv, RoomTypes, Only
<1>2. \A d \in Client : serving'[d] = "member" <=> serving[d] = "member"
  BY DEF Only
<1>3. Seated(slots, serving)'
  BY <1>2 DEF RoomInv, Seated
<1>4. ASSUME NEW d \in Client PROVE GoodClient(d)'
  <2>1. CASE d = c
    BY <2>1
  <2>2. CASE d # c
    BY <2>2 DEF RoomInv, GoodClient, Only
  <2> QED
    BY <2>1, <2>2
<1> QED
  BY <1>1, <1>3, <1>4 DEF RoomInv

LEMMA OnlyStep ==
  ASSUME RoomInv, NEW c \in Client, Only(c), UNCHANGED <<slots, room, info>>,
         golf' \in [Client -> BOOLEAN], started' \in [Client -> BOOLEAN],
         \A d \in Client \ {c} : started'[d] = started[d],
         GoodClient(c)'
  PROVE  RoomInv'
<1>1. Infos(info')
  BY DEF RoomInv
<1> QED
  BY <1>1, OnlyInfoStep

-----------------------------------------------------------------------------
(* The client's steps.                                                      *)

\* A command of an open connection.
LEMMA TellStep ==
  ASSUME RoomInv, NEW c \in Client, NEW command, NEW us, NEW ms, Tell(c, command, us, ms),
         us \in UserList, Len(us) = Len(users[c]), Shape(us) = Shape(users[c]),
         Sent(c, ms), golf' \in [Client -> BOOLEAN]
  PROVE  RoomInv'
<1>1. /\ link[c] # "closed" /\ link' = link /\ serving' = serving /\ me' = me
      /\ started' = started /\ toClient' = toClient /\ UNCHANGED <<slots, room, info>>
  BY DEF Tell, serverVars
<1>2. IsTable(users') /\ users'[c] = us /\ \A d \in Client \ {c} : users'[d] = users[d]
  <2>1. Changes(users, users', c, us)
    BY DEF Tell, Changes
  <2>2. IsTable(users)
    BY DEF RoomInv, RoomTypes
  <2> QED
    BY <2>1, <2>2, TableChange
<1> DEFINE ts == IF serving[c] = "none" THEN toServer[c] ELSE toServer[c] \o ms
<1>3. Changes(toServer, toServer', c, ts)
  BY DEF Tell, Changes
<1>4. IsTable(toServer') /\ toServer'[c] = ts /\ \A d \in Client \ {c} : toServer'[d] = toServer[d]
  <2> HIDE DEF ts
  <2>1. IsTable(toServer)
    BY DEF RoomInv, RoomTypes
  <2> QED
    BY <1>3, <2>1, TableChange
<1>5. Only(c)
  BY <1>1, <1>2, <1>4 DEF Only, RoomInv, RoomTypes
<1>6. Good(c, link[c], serving[c], toServer[c], toClient[c], users[c], me[c], started[c],
           room.started, slots)
  BY DEF RoomInv, GoodClient
<1>7. Good(c, link[c], serving[c], ts, toClient[c], us, me[c], started[c], room.started, slots)
  BY <1>1, <1>6, GoodSend
<1>8. GoodClient(c)'
  <2> HIDE DEF ts
  <2> QED
    BY <1>1, <1>2, <1>4, <1>7 DEF GoodClient
<1>9. started' \in [Client -> BOOLEAN]
  BY <1>1 DEF RoomInv, RoomTypes
<1> QED
  BY <1>1, <1>5, <1>8, <1>9, OnlyStep

\* What c has of itself.
LEMMA OwnParts ==
  ASSUME RoomInv, NEW c \in Client
  PROVE  /\ users[c] \in UserList /\ Present(users[c], me[c]) /\ me[c] \in Nat
         /\ users[c][me[c]] \in UserInfos /\ users[c][me[c]].name = c
         /\ link[c] = "closed" => Len(users[c]) = 1
<1>1. Copy(c, link[c], serving[c], toClient[c], users[c], me[c], slots)
  BY DEF RoomInv, GoodClient, Good
<1>2. users[c] \in UserList /\ Present(users[c], me[c]) /\ users[c][me[c]].name = c
  BY <1>1 DEF Copy
<1>3. users[c][me[c]] \in UserInfos
  BY <1>2, ListParts
<1>4. me[c] \in Nat
  <2>1. Len(users[c]) \in Nat
    BY <1>2, ListParts
  <2> QED
    BY <1>2, <2>1 DEF Present
<1> QED
  BY <1>1, <1>2, <1>3, <1>4 DEF Copy

LEMMA OwnChange ==
  ASSUME RoomInv, NEW c \in Client, NEW r \in UserInfos, r.name = c,
         NEW vs, Changes(users[c], vs, me[c], r)
  PROVE  vs \in UserList /\ Len(vs) = Len(users[c]) /\ Shape(vs) = Shape(users[c])
<1>1. /\ users[c] \in UserList /\ users[c][me[c]] # NoUser
      /\ r.name = users[c][me[c]].name
  BY OwnParts, NoUserAssumption
<1> QED
  BY <1>1, ShapeOfChange

LEMMA NewAuthorityShape ==
  ASSUME NEW us \in UserList, NEW i, NEW pairs, \A p \in Range(pairs) : p[2] \in Nat
  PROVE  /\ NewAuthority(us, i, pairs) \in UserList
         /\ Len(NewAuthority(us, i, pairs)) = Len(us)
         /\ Shape(NewAuthority(us, i, pairs)) = Shape(us)
<1> DEFINE mine(j) == {p \in Range(pairs) : p[1] = j}
           chosen(j) == (CHOOSE p \in mine(j) : TRUE)[2]
           vs == NewAuthority(us, i, pairs)
<1>1. \A j : mine(j) # {} => chosen(j) \in Nat
  OBVIOUS
<1>2. vs = [j \in 1..Len(us) |->
              IF us[j] # NoUser /\ us[j].authority = i /\ mine(j) # {}
              THEN [us[j] EXCEPT !.authority = chosen(j)] ELSE us[j]]
  BY DEF NewAuthority
<1> HIDE DEF vs, chosen, mine
<1>3. vs = [j \in 1..Len(us) |-> vs[j]]
  BY <1>2
<1>4. \A j \in 1..Len(us) : us[j] = NoUser => vs[j] = NoUser
  BY <1>2
<1>5. \A j \in 1..Len(us) : us[j] # NoUser => us[j] \in UserInfos
  BY ListParts
<1>6. \A j \in 1..Len(us) : us[j] # NoUser => vs[j] \in UserInfos /\ vs[j].name = us[j].name
  BY <1>1, <1>2, <1>5 DEF UserInfos
<1>7. vs \in UserList /\ Len(vs) = Len(us) /\ Shape(vs) = Shape(us)
  BY <1>3, <1>4, <1>6, SameShape
<1> QED
  BY <1>7 DEF vs

LEMMA AuthoritySent ==
  ASSUME NEW c, NEW us, NEW i, NEW pairs, Len(pairs) \in Nat,
         \A n \in 1..Len(pairs) : pairs[n][2] \in Nat
  PROVE  Sent(c, AuthorityMessages(us, i, pairs))
<1> DEFINE asked == [n \in 1..Len(pairs) |->
                       IF us[pairs[n][1]].authority = pairs[n][2] THEN NoUser ELSE n]
           told == Live(asked)
           m(n) == Authority(IF us[pairs[told[n]][1]].authority = i THEN "DELEGATE_AUTHORITY"
                             ELSE "REQUEST_AUTHORITY", pairs[told[n]][1], pairs[told[n]][2])
           ms == AuthorityMessages(us, i, pairs)
<1>1. ms = [n \in 1..Len(told) |-> m(n)]
  BY DEF AuthorityMessages
<1>2. Len(asked) = Len(pairs)
  OBVIOUS
<1>3. Len(told) \in Nat /\ \A n \in 1..Len(told) : told[n] \in 1..Len(pairs)
  <2> HIDE DEF asked
  <2> QED
    BY <1>2, LiveParts DEF Present
<1> HIDE DEF told, asked
<1>4. \A n \in 1..Len(told) :
        m(n).type \in {"DELEGATE_AUTHORITY", "REQUEST_AUTHORITY"} /\ m(n).authority \in Nat
  BY <1>3 DEF Authority
<1> HIDE DEF m, ms
<1>5. DOMAIN ms = 1..Len(told) /\ ms = [n \in 1..Len(told) |-> ms[n]]
  BY <1>1
<1>6. IsChannel(ms) /\ Len(ms) = Len(told)
  BY <1>3, <1>5, ChannelFunction
<1>7. \A n \in 1..Len(ms) : ms[n] = m(n)
  BY <1>1, <1>6
<1>8. \A n \in 1..Len(ms) : Sane(c, ms[n]) /\ ms[n].type # "EOF"
  BY <1>4, <1>6, <1>7 DEF Sane
<1>9. Sent(c, ms)
  BY <1>6, <1>8 DEF Sent, AllSane, Has
<1> QED
  BY <1>9 DEF ms

LEMMA LagCommandStep ==
  ASSUME RoomInv, NEW c \in Client, LagCommand(c) PROVE RoomInv'
<1>1. PICK lag \in Lags, mine \in BOOLEAN, theirs \in BOOLEAN :
        Tell(c, "lag",
             IF mine THEN [users[c] EXCEPT ![me[c]].lag = lag] ELSE users[c],
             (IF theirs THEN <<[type |-> "AUTOLAG", value |-> 0]>> ELSE <<>>)
             \o <<[type |-> "LAG", lag |-> lag, mine |-> mine, theirs |-> theirs]>>)
  BY DEF LagCommand
<1> DEFINE vs == [users[c] EXCEPT ![me[c]].lag = lag]
           us == IF mine THEN vs ELSE users[c]
           a == [type |-> "AUTOLAG", value |-> 0]
           m == [type |-> "LAG", lag |-> lag, mine |-> mine, theirs |-> theirs]
           as == IF theirs THEN <<a>> ELSE <<>>
           r == [users[c][me[c]] EXCEPT !.lag = lag]
<1>2. Tell(c, "lag", us, as \o <<m>>)
  BY <1>1
<1>3. lag \in Nat
  BY LagAssumption
<1>4. Changes(users[c], vs, me[c], r)
  BY DEF Changes
<1>5. r \in UserInfos /\ r.name = c
  BY <1>3, OwnParts DEF UserInfos
<1>6. Sane(c, a) /\ a.type # "EOF" /\ Sane(c, m) /\ m.type # "EOF"
  BY <1>3 DEF Sane
<1> HIDE DEF vs, a, m, r
<1>7. us \in UserList /\ Len(us) = Len(users[c]) /\ Shape(us) = Shape(users[c])
  BY <1>4, <1>5, OwnChange, OwnParts
<1>8. Sent(c, as \o <<m>>)
  BY <1>6, SentOne, SentNone, SentConcat
<1>9. golf' \in [Client -> BOOLEAN]
  BY DEF LagCommand, RoomInv, RoomTypes
<1> HIDE DEF us, as
<1> QED
  BY <1>2, <1>7, <1>8, <1>9, TellStep

\* A command that leaves the list and the golf flag as they are.
LEMMA PlainCommandStep ==
  ASSUME RoomInv, NEW c \in Client, NEW command, NEW m, Tell(c, command, users[c], <<m>>),
         UNCHANGED golf, Sane(c, m), m.type # "EOF"
  PROVE  RoomInv'
<1>1. Sent(c, <<m>>)
  BY SentOne
<1>2. golf' \in [Client -> BOOLEAN]
  BY DEF RoomInv, RoomTypes
<1> QED
  BY <1>1, <1>2, OwnParts, TellStep

LEMMA AutolagCommandStep ==
  ASSUME RoomInv, NEW c \in Client, AutolagCommand(c) PROVE RoomInv'
<1> DEFINE m == [type |-> "AUTOLAG", value |-> -1]
<1>1. Sane(c, m) /\ m.type # "EOF"
  BY DEF Sane
<1>2. Tell(c, "autolag", users[c], <<m>>) /\ UNCHANGED golf
  BY DEF AutolagCommand
<1> HIDE DEF m
<1> QED
  BY <1>1, <1>2, PlainCommandStep

LEMMA NameCommandStep ==
  ASSUME RoomInv, NEW c \in Client, NameCommand(c) PROVE RoomInv'
<1>1. Sane(c, Message("NAME")) /\ Message("NAME").type # "EOF"
  BY DEF Sane, Message
<1>2. Tell(c, "name", users[c], <<Message("NAME")>>) /\ UNCHANGED golf
  BY DEF NameCommand
<1> QED
  BY <1>1, <1>2, PlainCommandStep

LEMMA StartCommandStep ==
  ASSUME RoomInv, NEW c \in Client, StartCommand(c) PROVE RoomInv'
<1>1. Sane(c, Message("START")) /\ Message("START").type # "EOF"
  BY DEF Sane, Message
<1>2. Tell(c, "start", users[c], <<Message("START")>>) /\ UNCHANGED golf
  BY DEF StartCommand
<1> QED
  BY <1>1, <1>2, PlainCommandStep

\* A command that changes the user's own record.
LEMMA OwnCommandStep ==
  ASSUME RoomInv, NEW c \in Client, NEW command, NEW m, NEW us, Tell(c, command, us, <<m>>),
         UNCHANGED golf, Sane(c, m), m.type # "EOF",
         NEW r \in UserInfos, r.name = c, Changes(users[c], us, me[c], r)
  PROVE  RoomInv'
<1>1. Sent(c, <<m>>)
  BY SentOne
<1>2. golf' \in [Client -> BOOLEAN]
  BY DEF RoomInv, RoomTypes
<1>3. us \in UserList /\ Len(us) = Len(users[c]) /\ Shape(us) = Shape(users[c])
  BY OwnChange
<1> QED
  BY <1>1, <1>2, <1>3, TellStep

LEMMA MapCommandStep ==
  ASSUME RoomInv, NEW c \in Client, MapCommand(c) PROVE RoomInv'
<1> DEFINE m == [type |-> "INPUT_MAP", map |-> Typed]
           us == [users[c] EXCEPT ![me[c]].map = Typed]
           r == [users[c][me[c]] EXCEPT !.map = Typed]
<1>1. Sane(c, m) /\ m.type # "EOF"
  BY DEF Sane, Typed
<1>2. Tell(c, "map", us, <<m>>) /\ UNCHANGED golf
  BY DEF MapCommand
<1>3. Changes(users[c], us, me[c], r)
  BY DEF Changes
<1>4. r \in UserInfos /\ r.name = c
  BY OwnParts DEF UserInfos, Typed
<1> HIDE DEF m, us, r
<1> QED
  BY <1>1, <1>2, <1>3, <1>4, OwnCommandStep

LEMMA PlugControllersStep ==
  ASSUME RoomInv, NEW c \in Client, PlugControllers(c) PROVE RoomInv'
<1> DEFINE now == ~users[c][me[c]].plugged
           m == [type |-> "CONTROLLERS", plugged |-> now]
           us == [users[c] EXCEPT ![me[c]].plugged = now]
           r == [users[c][me[c]] EXCEPT !.plugged = now]
<1>1. Sane(c, m) /\ m.type # "EOF"
  BY DEF Sane
<1>2. Tell(c, "plug", us, <<m>>) /\ UNCHANGED golf
  BY DEF PlugControllers
<1>3. Changes(users[c], us, me[c], r)
  BY DEF Changes
<1>4. r \in UserInfos /\ r.name = c
  BY OwnParts DEF UserInfos
<1> HIDE DEF m, us, r
<1> QED
  BY <1>1, <1>2, <1>3, <1>4, OwnCommandStep

LEMMA AuthCommandStep ==
  ASSUME RoomInv, NEW c \in Client, AuthCommand(c) PROVE RoomInv'
<1>1. PICK u, a \in Range(Live(users[c])) :
        Tell(c, "auth", NewAuthority(users[c], me[c], <<<<u, a>>>>),
             AuthorityMessages(users[c], me[c], <<<<u, a>>>>))
  BY DEF AuthCommand
<1>2. users[c] \in UserList
  BY OwnParts
<1>3. Len(users[c]) \in Nat
  BY <1>2, ListParts
<1>4. IsChannel(Live(users[c])) /\ \A n \in 1..Len(Live(users[c])) : Present(users[c], Live(users[c])[n])
  BY <1>3, LiveParts
<1>5. a \in Nat
  <2>1. PICK n \in 1..Len(Live(users[c])) : a = Live(users[c])[n]
    BY <1>4, ChannelParts DEF Range
  <2> QED
    BY <1>3, <1>4, <2>1 DEF Present
<1> DEFINE pairs == <<<<u, a>>>>
           us == NewAuthority(users[c], me[c], pairs)
           ms == AuthorityMessages(users[c], me[c], pairs)
<1>6. Len(pairs) = 1 /\ DOMAIN pairs = 1..1 /\ pairs[1] = <<u, a>> /\ pairs[1][2] = a
  OBVIOUS
<1> HIDE DEF pairs
<1>7. \A p \in Range(pairs) : p[2] \in Nat
  BY <1>5, <1>6 DEF Range
<1>8. us \in UserList /\ Len(us) = Len(users[c]) /\ Shape(us) = Shape(users[c])
  BY <1>2, <1>7, NewAuthorityShape
<1>9. Sent(c, ms)
  BY <1>5, <1>6, AuthoritySent
<1>10. golf' \in [Client -> BOOLEAN]
  BY DEF AuthCommand, RoomInv, RoomTypes
<1>11. Tell(c, "auth", us, ms)
  BY <1>1 DEF pairs
<1> HIDE DEF us, ms
<1> QED
  BY <1>8, <1>9, <1>10, <1>11, TellStep

LEMMA GolfCommandStep ==
  ASSUME RoomInv, NEW c \in Client, GolfCommand(c) PROVE RoomInv'
<1> DEFINE on == ~golf[c]
           live == Live(users[c])
           pairs == [n \in 1..Len(live) |-> <<live[n], IF on THEN me[c] ELSE live[n]>>]
           us == NewAuthority(users[c], me[c], pairs)
           m == [type |-> "GOLF", golf |-> on]
           ms == <<m>> \o AuthorityMessages(users[c], me[c], pairs)
<1>1. Tell(c, "golf", us, ms) /\ golf' = [golf EXCEPT ![c] = on]
  BY DEF GolfCommand
<1>2. users[c] \in UserList /\ me[c] \in Nat
  BY OwnParts
<1>3. Len(users[c]) \in Nat
  BY <1>2, ListParts
<1>4. Len(live) \in Nat /\ \A n \in 1..Len(live) : live[n] \in Nat
  BY <1>3, LiveParts DEF Present
<1>5. golf[c] \in BOOLEAN /\ golf \in [Client -> BOOLEAN]
  BY DEF RoomInv, RoomTypes
<1>6. golf' \in [Client -> BOOLEAN]
  BY <1>1, <1>5
<1>7. Sane(c, m) /\ m.type # "EOF"
  BY <1>5 DEF Sane
<1> HIDE DEF live
<1>8. /\ Len(pairs) = Len(live) /\ DOMAIN pairs = 1..Len(live)
      /\ \A n \in 1..Len(live) : pairs[n] = <<live[n], IF on THEN me[c] ELSE live[n]>>
  BY <1>4
<1> HIDE DEF pairs
<1>9. \A n \in 1..Len(pairs) : pairs[n][2] \in Nat
  BY <1>2, <1>4, <1>8
<1>10. \A p \in Range(pairs) : p[2] \in Nat
  BY <1>8, <1>9 DEF Range
<1>11. us \in UserList /\ Len(us) = Len(users[c]) /\ Shape(us) = Shape(users[c])
  BY <1>2, <1>10, NewAuthorityShape
<1> HIDE DEF m
<1>12. Sent(c, ms)
  BY <1>4, <1>7, <1>8, <1>9, SentOne, AuthoritySent, SentConcat
<1> HIDE DEF us, ms
<1> QED
  BY <1>1, <1>6, <1>11, <1>12, TellStep

\* A game that is played alone.
LEMMA StartAloneStep ==
  ASSUME RoomInv, NEW c \in Client, StartAlone(c) PROVE RoomInv'
<1> DEFINE us == [users[c] EXCEPT ![1].map = Identity, ![1].lag = 0]
           r == [users[c][1] EXCEPT !.map = Identity, !.lag = 0]
<1>1. /\ link[c] = "closed" /\ started' = [started EXCEPT ![c] = TRUE]
      /\ UNCHANGED <<slots, room, info, serving, link, me, golf, toServer, toClient>>
  BY DEF StartAlone, serverVars
<1>2. Changes(users, users', c, us)
  BY DEF StartAlone, Changes
<1>3. Changes(users[c], us, 1, r)
  BY DEF Changes
<1>4. me[c] = 1 /\ users[c] \in UserList /\ Len(users[c]) = 1
  BY <1>1, OwnParts DEF Present
<1>5. r \in UserInfos /\ r.name = c
  <2>1. users[c][1] \in UserInfos /\ users[c][1].name = c
    BY <1>4, OwnParts
  <2>2. Identity \in Nat
    BY DEF Identity
  <2> QED
    BY <2>1, <2>2 DEF UserInfos
<1> HIDE DEF us, r
<1>6. us \in UserList /\ Len(us) = Len(users[c]) /\ Shape(us) = Shape(users[c])
  BY <1>3, <1>4, <1>5, OwnChange
<1>7. IsTable(users') /\ users'[c] = us /\ \A d \in Client \ {c} : users'[d] = users[d]
  <2>1. IsTable(users)
    BY DEF RoomInv, RoomTypes
  <2> QED
    BY <1>2, <2>1, TableChange
<1>8. Only(c)
  BY <1>1, <1>7 DEF Only, RoomInv, RoomTypes
<1>9. /\ golf' \in [Client -> BOOLEAN] /\ started' \in [Client -> BOOLEAN]
      /\ \A d \in Client \ {c} : started'[d] = started[d]
  BY <1>1 DEF RoomInv, RoomTypes
<1>10. Good(c, link[c], serving[c], toServer[c], toClient[c], users[c], me[c], started[c],
            room.started, slots)
  BY DEF RoomInv, GoodClient
<1>11. Copy(c, "closed", serving[c], toClient[c], us, 1, slots)
  BY <1>1, <1>4, <1>6, <1>10, CopyChanged DEF Good
<1>12. Session("closed", serving[c], toServer[c], toClient[c], started'[c], room.started)
  BY <1>1, <1>10 DEF Good, Session
<1>13. GoodClient(c)'
  BY <1>1, <1>4, <1>7, <1>10, <1>11, <1>12 DEF GoodClient, Good
<1> QED
  BY <1>1, <1>8, <1>9, <1>13, OnlyStep

\* The connection is gone.
LEMMA CloseStep ==
  ASSUME RoomInv, NEW c \in Client, CloseClient(c), UNCHANGED <<slots, room, info, serving>>
  PROVE  RoomInv'
<1> DEFINE mine == users[c][me[c]]
           r == [mine EXCEPT !.lag = 0, !.authority = 1, !.inputs =
                   IF started[c] THEN mine.inputs + 1 ELSE mine.inputs]
           us == <<r>>
<1>1. /\ Changes(link, link', c, "closed") /\ Changes(users, users', c, us)
      /\ Changes(me, me', c, 1) /\ Changes(toClient, toClient', c, <<>>)
      /\ UNCHANGED <<golf, started>>
  <2>1. Changes(users, users', c, us)
    BY DEF CloseClient, Changes
  <2> QED
    BY <2>1 DEF CloseClient, Changes
<1>2. PICK arrives \in {<<>>, toServer[c]} :
        Changes(toServer, toServer', c,
                IF serving[c] = "none" THEN <<>> ELSE Append(arrives, Message("EOF")))
  BY DEF CloseClient, Changes
<1> DEFINE ts == IF serving[c] = "none" THEN <<>> ELSE Append(arrives, Message("EOF"))
<1>3. r \in UserInfos /\ r.name = c
  <2> DEFINE own == users[c][me[c]]
             n == IF started[c] THEN own.inputs + 1 ELSE own.inputs
  <2>1. own \in UserInfos /\ own.name = c
    BY OwnParts
  <2>2. n \in Nat
    BY <2>1 DEF UserInfos
  <2>3. r = [own EXCEPT !.lag = 0, !.authority = 1, !.inputs = n]
    OBVIOUS
  <2> HIDE DEF own, n, r
  <2> QED
    BY <2>1, <2>2, <2>3 DEF UserInfos
<1> HIDE DEF r
<1>4. us \in UserList /\ Len(us) = 1 /\ Present(us, 1) /\ us[1].name = c
  <2>1. r # NoUser
    BY <1>3, NoUserAssumption
  <2> QED
    BY <1>3, <2>1 DEF UserList, Present
<1> HIDE DEF us
<1>5. /\ IsTable(link) /\ IsTable(users) /\ IsTable(me) /\ IsTable(toClient) /\ IsTable(toServer)
      /\ IsTable(serving)
  BY DEF RoomInv, RoomTypes
<1> HIDE DEF ts
<1>6. Changes(toServer, toServer', c, ts)
  BY <1>2 DEF ts
<1>7. /\ IsTable(link') /\ link'[c] = "closed" /\ \A d \in Client \ {c} : link'[d] = link[d]
      /\ IsTable(users') /\ users'[c] = us /\ \A d \in Client \ {c} : users'[d] = users[d]
  BY <1>1, <1>5, TableChange
<1>8. /\ IsTable(me') /\ me'[c] = 1 /\ \A d \in Client \ {c} : me'[d] = me[d]
      /\ IsTable(toClient') /\ toClient'[c] = <<>>
      /\ \A d \in Client \ {c} : toClient'[d] = toClient[d]
  BY <1>1, <1>5, TableChange
<1>9. /\ IsTable(toServer') /\ toServer'[c] = ts
      /\ \A d \in Client \ {c} : toServer'[d] = toServer[d]
  BY <1>5, <1>6, TableChange
<1>10. Only(c)
  BY <1>5, <1>7, <1>8, <1>9 DEF Only
<1>11. Good(c, link[c], serving[c], toServer[c], toClient[c], users[c], me[c], started[c],
            room.started, slots)
  BY DEF RoomInv, GoodClient
<1>12. AllSane(c, ts) /\ (serving[c] = "none" => ts = <<>>)
  <2>1. AllSane(c, arrives)
    BY <1>2, <1>11, SaneNone DEF Good
  <2>2. Message("EOF").type = "EOF" /\ Sane(c, Message("EOF"))
    BY DEF Message, Sane
  <2>3. AllSane(c, <<Message("EOF")>>)
    BY <2>2, SaneOne
  <2>4. Append(arrives, Message("EOF")) = arrives \o <<Message("EOF")>>
    BY <2>1, ChannelAppend DEF AllSane
  <2>5. AllSane(c, Append(arrives, Message("EOF")))
    BY <2>1, <2>3, <2>4, SaneConcat
  <2> QED
    BY <2>5, SaneNone DEF ts
<1>13. Good(c, "closed", serving[c], ts, <<>>, us, 1, started[c], room.started, slots)
  <2>1. us \in UserList /\ Len(us) = 1 /\ Present(us, 1) /\ us[1].name = c
    BY <1>4
  <2> QED
    BY <1>11, <1>12, <2>1, GoodAlone
<1>14. GoodClient(c)'
  BY <1>1, <1>7, <1>8, <1>9, <1>13 DEF GoodClient
<1>15. /\ golf' \in [Client -> BOOLEAN] /\ started' \in [Client -> BOOLEAN]
       /\ \A d \in Client \ {c} : started'[d] = started[d]
  BY <1>1 DEF RoomInv, RoomTypes
<1> QED
  BY <1>10, <1>14, <1>15, OnlyStep

LEMMA ConnectStep ==
  ASSUME RoomInv, NEW c \in Client, Connect(c) PROVE RoomInv'
<1> DEFINE us == [users[c] EXCEPT ![1].lag = 0]
           r == [users[c][1] EXCEPT !.lag = 0]
<1>1. /\ link[c] = "closed" /\ ~started[c] /\ serving[c] = "none"
      /\ UNCHANGED <<slots, room, info, me, golf, started, toServer, toClient>>
  BY DEF Connect, Accept, serverVars
<1>2. /\ Changes(users, users', c, us) /\ Changes(link, link', c, "query")
      /\ Changes(serving, serving', c, "open")
  BY DEF Connect, Accept, Changes
<1>3. Changes(users[c], us, 1, r)
  BY DEF Changes
<1>4. me[c] = 1 /\ users[c] \in UserList /\ Len(users[c]) = 1
  BY <1>1, OwnParts DEF Present
<1>5. r \in UserInfos /\ r.name = c
  BY <1>4, OwnParts DEF UserInfos
<1> HIDE DEF us, r
<1>6. us \in UserList /\ Len(us) = Len(users[c]) /\ Shape(us) = Shape(users[c])
  BY <1>3, <1>4, <1>5, OwnChange
<1>7. IsTable(users) /\ IsTable(link) /\ IsTable(serving)
  BY DEF RoomInv, RoomTypes
<1>8. /\ IsTable(users') /\ users'[c] = us /\ \A d \in Client \ {c} : users'[d] = users[d]
      /\ IsTable(link') /\ link'[c] = "query" /\ \A d \in Client \ {c} : link'[d] = link[d]
  BY <1>2, <1>7, TableChange
<1>9. /\ IsTable(serving') /\ serving'[c] = "open"
      /\ \A d \in Client \ {c} : serving'[d] = serving[d]
  BY <1>2, <1>7, TableChange
<1>10. Only(c)
  BY <1>1, <1>8, <1>9 DEF Only, RoomInv, RoomTypes
<1>11. Good(c, "closed", "none", toServer[c], toClient[c], users[c], me[c], started[c],
            room.started, slots)
  BY <1>1 DEF RoomInv, GoodClient
<1>12. Good(c, "query", "open", toServer[c], toClient[c], us, me[c], started[c],
            room.started, slots)
  BY <1>1, <1>6, <1>11, GoodConnect
<1>13. GoodClient(c)'
  BY <1>1, <1>8, <1>9, <1>12 DEF GoodClient
<1>14. golf' \in [Client -> BOOLEAN] /\ started' \in [Client -> BOOLEAN]
  BY <1>1 DEF RoomInv, RoomTypes
<1> QED
  BY <1>1, <1>10, <1>13, <1>14, OnlyStep

LEMMA SendJoinStep ==
  ASSUME RoomInv, NEW c \in Client, SendJoin(c) PROVE RoomInv'
<1> DEFINE m == [type |-> "JOIN", info |-> users[c][me[c]]]
           ts == Append(toServer[c], m)
<1>1. /\ link[c] = "query"
      /\ UNCHANGED <<slots, room, info, serving, users, me, golf, started, toClient>>
  BY DEF SendJoin, serverVars, clientVars
<1>2. Changes(link, link', c, "joined") /\ Changes(toServer, toServer', c, ts)
  BY DEF SendJoin, Changes
<1>3. IsTable(link) /\ IsTable(toServer)
  BY DEF RoomInv, RoomTypes
<1>4. Good(c, "query", serving[c], toServer[c], toClient[c], users[c], me[c], started[c],
           room.started, slots)
  BY <1>1 DEF RoomInv, GoodClient
<1>5. Good(c, "joined", serving[c], ts, toClient[c], users[c], me[c], started[c],
           room.started, slots)
  <2>1. m = [type |-> "JOIN", info |-> users[c][me[c]]]
    OBVIOUS
  <2> HIDE DEF m
  <2> QED
    BY <1>4, <2>1, GoodJoin
<1> HIDE DEF ts
<1>6. /\ IsTable(link') /\ link'[c] = "joined" /\ \A d \in Client \ {c} : link'[d] = link[d]
      /\ IsTable(toServer') /\ toServer'[c] = ts
      /\ \A d \in Client \ {c} : toServer'[d] = toServer[d]
  BY <1>2, <1>3, TableChange
<1>7. Only(c)
  BY <1>1, <1>6 DEF Only, RoomInv, RoomTypes
<1>8. GoodClient(c)'
  BY <1>1, <1>5, <1>6 DEF GoodClient
<1>9. golf' \in [Client -> BOOLEAN] /\ started' \in [Client -> BOOLEAN]
  BY <1>1 DEF RoomInv, RoomTypes
<1> QED
  BY <1>1, <1>7, <1>8, <1>9, OnlyStep

\* The client handles a message: vs is what becomes of its list beyond what
\* Apply makes of it, and ms what it sends.
LEMMA ReceiveStep ==
  ASSUME RoomInv, NEW c \in Client, NEW types, Receives(c, types), "EOF" \notin types,
         Consume(c), UNCHANGED <<slots, room, info, serving, link>>,
         NEW m, m = Head(toClient[c]),
         NEW vs \in UserList, Len(vs) = Len(Apply(users[c], m)),
         Shape(vs) = Shape(Apply(users[c], m)), Changes(users, users', c, vs),
         NEW ms, Sent(c, ms),
         Changes(toServer, toServer', c, toServer[c] \o ms) \/ UNCHANGED toServer,
         NEW j, IF m.type = "ACCEPT" THEN j = Len(m.users) ELSE j = me[c], Changes(me, me', c, j),
         NEW st, IF m.type = "START" THEN st = TRUE ELSE st = started[c],
         Changes(started, started', c, st), st \in BOOLEAN,
         golf' \in [Client -> BOOLEAN]
  PROVE  RoomInv'
<1>1. link[c] # "closed" /\ toClient[c] # <<>> /\ m.type # "EOF"
  BY DEF Receives
<1>2. Changes(toClient, toClient', c, Tail(toClient[c]))
  BY DEF Consume, Changes
<1>3. /\ IsTable(toClient) /\ IsTable(toServer) /\ IsTable(me) /\ IsTable(users)
      /\ started \in [Client -> BOOLEAN]
  BY DEF RoomInv, RoomTypes
<1>4. /\ IsTable(users') /\ users'[c] = vs /\ \A d \in Client \ {c} : users'[d] = users[d]
      /\ IsTable(toClient') /\ toClient'[c] = Tail(toClient[c])
      /\ \A d \in Client \ {c} : toClient'[d] = toClient[d]
      /\ IsTable(me') /\ me'[c] = j /\ \A d \in Client \ {c} : me'[d] = me[d]
  BY <1>2, <1>3, TableChange
<1>5. /\ IsTable(toServer') /\ toServer'[c] \in {toServer[c] \o ms, toServer[c]}
      /\ \A d \in Client \ {c} : toServer'[d] = toServer[d]
  <2>1. CASE UNCHANGED toServer
    BY <1>3, <2>1
  <2>2. CASE Changes(toServer, toServer', c, toServer[c] \o ms)
    <3> DEFINE ts == toServer[c] \o ms
    <3>1. Changes(toServer, toServer', c, ts)
      BY <2>2
    <3> HIDE DEF ts
    <3>2. /\ IsTable(toServer') /\ toServer'[c] = ts
          /\ \A d \in Client \ {c} : toServer'[d] = toServer[d]
      BY <1>3, <3>1, TableChange
    <3> QED
      BY <3>2 DEF ts
  <2> QED
    BY <2>1, <2>2
<1>6. /\ started' \in [Client -> BOOLEAN] /\ started'[c] = st
      /\ \A d \in Client \ {c} : started'[d] = started[d]
  BY <1>3 DEF Changes
<1>7. Only(c)
  BY <1>4, <1>5 DEF Only, RoomInv, RoomTypes
<1>8. Good(c, link[c], serving[c], toServer[c], toClient[c], users[c], me[c], started[c],
           room.started, slots)
  BY DEF RoomInv, GoodClient
<1>9. Good(c, link[c], serving[c], toServer[c], Tail(toClient[c]), Apply(users[c], m), j, st,
           room.started, slots)
  <2>1. IF Head(toClient[c]).type = "START" THEN st = TRUE ELSE st = started[c]
    OBVIOUS
  <2>2. Good(c, link[c], serving[c], toServer[c], Tail(toClient[c]), Apply(users[c], Head(toClient[c])),
             IF Head(toClient[c]).type = "ACCEPT" THEN Len(Head(toClient[c]).users) ELSE me[c],
             st, room.started, slots)
    BY <1>1, <1>8, <2>1, GoodReceive
  <2> QED
    BY <2>2
<1>10. /\ Good(c, link[c], serving[c], toServer[c] \o ms, Tail(toClient[c]), vs, j, st,
               room.started, slots)
       /\ Good(c, link[c], serving[c], toServer[c], Tail(toClient[c]), vs, j, st,
               room.started, slots)
  BY <1>1, <1>9, GoodSend
<1>11. GoodClient(c)'
  BY <1>4, <1>5, <1>6, <1>10 DEF GoodClient
<1> QED
  BY <1>6, <1>7, <1>11, OnlyStep

LEMMA TableSame ==
  ASSUME NEW f, IsTable(f), NEW c \in Client
  PROVE  Changes(f, f, c, f[c])
BY DEF IsTable, Changes

\* What a client is about to handle, and its list afterwards.
LEMMA HeadParts ==
  ASSUME RoomInv, NEW c \in Client, NEW types, Receives(c, types), "EOF" \notin types,
         NEW m, m = Head(toClient[c])
  PROVE  /\ Fits(c, Shape(users[c]), m) /\ m.type \in types
         /\ Apply(users[c], m) \in UserList
         /\ m.type # "ACCEPT" => /\ Present(Apply(users[c], m), me[c])
                                 /\ Apply(users[c], m)[me[c]].name = c
<1>1. /\ link[c] # "closed" /\ toClient[c] # <<>> /\ Head(toClient[c]).type # "EOF"
      /\ m.type \in types
  BY DEF Receives
<1>2. Good(c, link[c], serving[c], toServer[c], toClient[c], users[c], me[c], started[c],
           room.started, slots)
  BY DEF RoomInv, GoodClient
<1> DEFINE st == IF Head(toClient[c]).type = "START" THEN TRUE ELSE started[c]
           j == IF Head(toClient[c]).type = "ACCEPT" THEN Len(Head(toClient[c]).users) ELSE me[c]
<1>3. IF Head(toClient[c]).type = "START" THEN st = TRUE ELSE st = started[c]
  OBVIOUS
<1> HIDE DEF st
<1>4. /\ Fits(c, Shape(users[c]), Head(toClient[c]))
      /\ Good(c, link[c], serving[c], toServer[c], Tail(toClient[c]),
              Apply(users[c], Head(toClient[c])), j, st, room.started, slots)
  BY <1>1, <1>2, <1>3, GoodReceive
<1>5. /\ Apply(users[c], m) \in UserList /\ Present(Apply(users[c], m), j)
      /\ Apply(users[c], m)[j].name = c
  <2> HIDE DEF j
  <2> QED
    BY <1>4 DEF Good, Copy
<1> QED
  BY <1>1, <1>4, <1>5

\* A message that neither says who the client is nor starts it.
LEMMA ListStep ==
  ASSUME RoomInv, NEW c \in Client, NEW types, Receives(c, types),
         types \cap {"EOF", "ACCEPT", "START"} = {},
         Consume(c), UNCHANGED <<slots, room, info, serving, link, me, started>>,
         NEW m, m = Head(toClient[c]),
         NEW vs \in UserList, Len(vs) = Len(Apply(users[c], m)),
         Shape(vs) = Shape(Apply(users[c], m)), Changes(users, users', c, vs),
         NEW ms, Sent(c, ms),
         Changes(toServer, toServer', c, toServer[c] \o ms) \/ UNCHANGED toServer,
         golf' \in [Client -> BOOLEAN]
  PROVE  RoomInv'
<1>1. m.type \in types
  BY DEF Receives
<1>2. /\ IsTable(me) /\ IsTable(started) /\ started[c] \in BOOLEAN
  BY DEF RoomInv, RoomTypes, IsTable
<1>3. Changes(me, me', c, me[c]) /\ Changes(started, started', c, started[c])
  BY <1>2, TableSame
<1>4. "EOF" \notin types /\ m.type \notin {"ACCEPT", "START"}
  BY <1>1
<1> DEFINE j == me[c]
           st == started[c]
<1>5. /\ IF m.type = "ACCEPT" THEN j = Len(m.users) ELSE j = me[c]
      /\ IF m.type = "START" THEN st = TRUE ELSE st = started[c]
      /\ Changes(me, me', c, j) /\ Changes(started, started', c, st) /\ st \in BOOLEAN
      /\ UNCHANGED <<slots, room, info, serving, link>>
  BY <1>2, <1>3, <1>4
<1> HIDE DEF j, st
<1> QED
  BY <1>4, <1>5, ReceiveStep

LEMMA ReceiveViewStep ==
  ASSUME RoomInv, NEW c \in Client, ReceiveView(c) PROVE RoomInv'
<1> DEFINE m == Head(toClient[c])
           vs == Apply(users[c], m)
           types == {"JOIN", "LAG", "CONTROLLERS", "INPUT_MAP", "LATENCY", "NAME"}
<1>1. /\ Receives(c, types) /\ Consume(c)
      /\ UNCHANGED <<slots, room, info, serving, link, me, started>> /\ UNCHANGED <<golf, toServer>>
  BY DEF ReceiveView, serverVars
<1>2. Changes(users, users', c, vs)
  BY DEF ReceiveView, Changes
<1>3. types \cap {"EOF", "ACCEPT", "START"} = {} /\ "EOF" \notin types
  OBVIOUS
<1>4. golf' \in [Client -> BOOLEAN]
  BY <1>1 DEF RoomInv, RoomTypes
<1>5. m = Head(toClient[c]) /\ vs = Apply(users[c], m)
  OBVIOUS
<1> HIDE DEF m, types
<1>6. vs \in UserList
  BY <1>1, <1>3, <1>5, HeadParts
<1>7. Sent(c, <<>>)
  BY SentNone
<1> HIDE DEF vs
<1> QED
  BY <1>1, <1>2, <1>3, <1>4, <1>5, <1>6, <1>7, ListStep

LEMMA ReceiveAcceptStep ==
  ASSUME RoomInv, NEW c \in Client, ReceiveAccept(c) PROVE RoomInv'
<1> DEFINE m == Head(toClient[c])
           vs == Apply(users[c], m)
           j == Len(m.users)
           st == started[c]
           types == {"ACCEPT"}
<1>1. /\ Receives(c, types) /\ Consume(c)
      /\ UNCHANGED <<slots, room, info, serving, link>> /\ UNCHANGED <<golf, toServer, started>>
  BY DEF ReceiveAccept, serverVars
<1>2. Changes(users, users', c, vs) /\ Changes(me, me', c, j)
  BY DEF ReceiveAccept, Changes
<1>3. "EOF" \notin types
  OBVIOUS
<1>4. golf' \in [Client -> BOOLEAN] /\ IsTable(started) /\ st \in BOOLEAN
  BY <1>1 DEF RoomInv, RoomTypes, IsTable
<1>5. Changes(started, started', c, st)
  BY <1>1, <1>4, TableSame
<1>6. m = Head(toClient[c]) /\ vs = Apply(users[c], m) /\ m.type = "ACCEPT"
  BY <1>1 DEF Receives
<1>7. /\ IF m.type = "ACCEPT" THEN j = Len(m.users) ELSE j = me[c]
      /\ IF m.type = "START" THEN st = TRUE ELSE st = started[c]
  BY <1>6
<1> HIDE DEF m, types, st, j
<1>8. vs \in UserList
  BY <1>1, <1>3, <1>6, HeadParts
<1>9. Sent(c, <<>>)
  BY SentNone
<1> HIDE DEF vs
<1> QED
  BY <1>1, <1>2, <1>3, <1>4, <1>5, <1>6, <1>7, <1>8, <1>9, ReceiveStep

LEMMA ReceiveStartStep ==
  ASSUME RoomInv, NEW c \in Client, ReceiveStart(c) PROVE RoomInv'
<1> DEFINE m == Head(toClient[c])
           vs == Apply(users[c], m)
           us == users[c]
           j == me[c]
           st == TRUE
           types == {"START"}
<1>1. /\ Receives(c, types) /\ Consume(c)
      /\ UNCHANGED <<slots, room, info, serving, link>> /\ UNCHANGED <<golf, toServer, users, me>>
  BY DEF ReceiveStart, serverVars
<1>2. Changes(started, started', c, st)
  BY DEF ReceiveStart, Changes
<1>3. "EOF" \notin types
  OBVIOUS
<1>4. golf' \in [Client -> BOOLEAN] /\ IsTable(users) /\ IsTable(me) /\ st \in BOOLEAN
  BY <1>1 DEF RoomInv, RoomTypes, IsTable
<1>5. Changes(users, users', c, us) /\ Changes(me, me', c, j)
  BY <1>1, <1>4, TableSame
<1>6. m = Head(toClient[c]) /\ m.type = "START"
  BY <1>1 DEF Receives
<1>7. /\ IF m.type = "ACCEPT" THEN j = Len(m.users) ELSE j = me[c]
      /\ IF m.type = "START" THEN st = TRUE ELSE st = started[c]
  BY <1>6
<1>8. us \in UserList /\ Apply(us, m) = us
  BY <1>6, OwnParts DEF Apply
<1>9. Sent(c, <<>>)
  BY SentNone
<1>10. Len(us) = Len(Apply(users[c], m)) /\ Shape(us) = Shape(Apply(users[c], m))
  BY <1>8
<1> HIDE DEF m, types, st, j, us
<1> QED
  BY <1>1, <1>2, <1>3, <1>4, <1>5, <1>6, <1>7, <1>8, <1>9, <1>10, ReceiveStep

LEMMA ReceiveGolfStep ==
  ASSUME RoomInv, NEW c \in Client, ReceiveGolf(c) PROVE RoomInv'
<1> DEFINE m == Head(toClient[c])
           us == users[c]
           types == {"GOLF"}
<1>1. /\ Receives(c, types) /\ Consume(c)
      /\ UNCHANGED <<slots, room, info, serving, link, me, started>> /\ UNCHANGED <<toServer, users>>
      /\ golf' = [golf EXCEPT ![c] = m.golf]
  BY DEF ReceiveGolf, serverVars
<1>2. types \cap {"EOF", "ACCEPT", "START"} = {} /\ "EOF" \notin types
  OBVIOUS
<1>3. m = Head(toClient[c]) /\ m.type = "GOLF"
  BY <1>1 DEF Receives
<1>4. us \in UserList /\ Apply(us, m) = us
  BY <1>3, OwnParts DEF Apply
<1>5. Len(us) = Len(Apply(users[c], m)) /\ Shape(us) = Shape(Apply(users[c], m))
  BY <1>4
<1>6. Changes(users, users', c, us)
  BY <1>1, TableSame DEF RoomInv, RoomTypes
<1>7. Sent(c, <<>>)
  BY SentNone
<1> HIDE DEF m, types
<1>8. Fits(c, Shape(users[c]), m)
  BY <1>1, <1>2, <1>3, HeadParts
<1>9. golf' \in [Client -> BOOLEAN]
  BY <1>1, <1>3, <1>8 DEF Fits, RoomInv, RoomTypes
<1> HIDE DEF us
<1> QED
  BY <1>1, <1>2, <1>3, <1>4, <1>5, <1>6, <1>7, <1>9, ListStep

\* send_input lengthens a user's stream only.
LEMMA ExtendedShape ==
  ASSUME NEW us \in UserList, NEW u, us[u] # NoUser, NEW n \in Nat
  PROVE  /\ Extended(us, u, n) \in UserList /\ Len(Extended(us, u, n)) = Len(us)
         /\ Shape(Extended(us, u, n)) = Shape(us)
<1> DEFINE r == [us[u] EXCEPT !.inputs = us[u].inputs + n]
           vs == Extended(us, u, n)
<1>1. Changes(us, vs, u, r)
  BY DEF Changes, Extended
<1>2. ASSUME Present(us, u) PROVE r \in UserInfos /\ r.name = us[u].name
  <2>1. us[u] \in UserInfos
    BY <1>2, ListParts
  <2>2. us[u].inputs + n \in Nat
    BY <2>1 DEF UserInfos
  <2> QED
    BY <2>1, <2>2 DEF UserInfos
<1> HIDE DEF r, vs
<1>3. vs \in UserList /\ Len(vs) = Len(us) /\ Shape(vs) = Shape(us)
  BY <1>1, <1>2, ShapeOfChange
<1> QED
  BY <1>3 DEF vs

LEMMA AuthorityShape ==
  ASSUME NEW us \in UserList, NEW u, us[u] # NoUser, NEW a \in Nat,
         NEW vs, Changes(us, vs, u, [us[u] EXCEPT !.authority = a])
  PROVE  vs \in UserList /\ Len(vs) = Len(us) /\ Shape(vs) = Shape(us)
<1> DEFINE r == [us[u] EXCEPT !.authority = a]
<1>1. Changes(us, vs, u, r)
  OBVIOUS
<1>2. Present(us, u) => r \in UserInfos /\ r.name = us[u].name
  BY ListParts DEF UserInfos
<1> HIDE DEF r
<1> QED
  BY <1>1, <1>2, ShapeOfChange

\* INPUT_DATA.
LEMMA ReceiveInputStep ==
  ASSUME RoomInv, NEW c \in Client, ReceiveInput(c) PROVE RoomInv'
<1> DEFINE m == Head(toClient[c])
           us == users[c]
           ok == us[m.user] # NoUser /\ us[m.user].inputs = m.first
           vs == IF ok THEN Extended(us, m.user, m.count) ELSE us
           types == {"INPUT_DATA"}
<1>1. /\ Receives(c, types) /\ Consume(c)
      /\ UNCHANGED <<slots, room, info, serving, link, me, started>> /\ UNCHANGED <<toServer, golf>>
  BY DEF ReceiveInput, serverVars
<1>2. Changes(users, users', c, vs)
  BY DEF ReceiveInput, Changes
<1>3. types \cap {"EOF", "ACCEPT", "START"} = {} /\ "EOF" \notin types
  OBVIOUS
<1>4. m = Head(toClient[c]) /\ m.type = "INPUT_DATA"
  BY <1>1 DEF Receives
<1>5. us \in UserList /\ Apply(us, m) = us
  BY <1>4, OwnParts DEF Apply
<1>6. Sent(c, <<>>)
  BY SentNone
<1>7. golf' \in [Client -> BOOLEAN]
  BY <1>1 DEF RoomInv, RoomTypes
<1> HIDE DEF m, types
<1>8. m.count \in Nat
  <2>1. Fits(c, Shape(users[c]), m)
    BY <1>1, <1>3, <1>4, HeadParts
  <2> QED
    BY <1>4, <2>1 DEF Fits
<1> HIDE DEF us
<1>9. vs \in UserList /\ Len(vs) = Len(us) /\ Shape(vs) = Shape(us)
  BY <1>5, <1>8, ExtendedShape
<1> HIDE DEF vs, ok
<1>10. Len(vs) = Len(Apply(users[c], m)) /\ Shape(vs) = Shape(Apply(users[c], m))
  BY <1>5, <1>9 DEF us
<1> QED
  BY <1>1, <1>2, <1>3, <1>4, <1>6, <1>7, <1>9, <1>10, ListStep

\* What a client answers.
LEMMA AnswersSent ==
  ASSUME NEW c, NEW type \in {"REQUEST_AUTHORITY", "DELEGATE_AUTHORITY"}, NEW u, NEW a \in Nat,
         NEW first, NEW n \in Nat
  PROVE  Sent(c, <<Authority(type, u, a)>>) /\ Sent(c, <<Input(u, first, n)>>)
<1>1. Sane(c, Authority(type, u, a)) /\ Authority(type, u, a).type # "EOF"
  BY DEF Sane, Authority
<1>2. Sane(c, Input(u, first, n)) /\ Input(u, first, n).type # "EOF"
  BY DEF Sane, Input
<1> QED
  BY <1>1, <1>2, SentOne

LEMMA ReceiveQuitStep ==
  ASSUME RoomInv, NEW c \in Client, ReceiveQuit(c) PROVE RoomInv'
<1> DEFINE m == Head(toClient[c])
           us == Apply(users[c], m)
           i == me[c]
           n == IF started[c] THEN 1 ELSE 0
           vs == [us EXCEPT ![i].authority = i]
           ws == Extended(vs, i, n)
           ms == <<Authority("DELEGATE_AUTHORITY", i, i)>>
                 \o (IF n = 0 THEN <<>> ELSE <<Input(i, us[i].inputs, n)>>)
           types == {"QUIT"}
<1>1. /\ Receives(c, types) /\ Consume(c)
      /\ UNCHANGED <<slots, room, info, serving, link, me, started>> /\ UNCHANGED golf
  BY DEF ReceiveQuit, serverVars
<1>2. IF us[i].authority # m.user
      THEN users' = [users EXCEPT ![c] = us] /\ UNCHANGED toServer
      ELSE /\ users' = [users EXCEPT ![c] = ws]
           /\ toServer' = [toServer EXCEPT ![c] = toServer[c] \o ms]
  <2>1. toServer[c] \o <<Authority("DELEGATE_AUTHORITY", i, i)>>
           \o (IF n = 0 THEN <<>> ELSE <<Input(i, us[i].inputs, n)>>) = toServer[c] \o ms
    <3> DEFINE a == <<Authority("DELEGATE_AUTHORITY", i, i)>>
               b == IF n = 0 THEN <<>> ELSE <<Input(i, us[i].inputs, n)>>
               ts == toServer[c]
    <3>1. IsChannel(a)
      BY ChannelOne
    <3>2. IsChannel(b)
      BY ChannelOne, ChannelNone
    <3>3. IsChannel(ts)
      BY DEF RoomInv, GoodClient, Good, AllSane
    <3> HIDE DEF a, b, ts
    <3>4. (ts \o a) \o b = ts \o (a \o b)
      BY <3>1, <3>2, <3>3, Joined
    <3> QED
      BY <3>4 DEF a, b, ts
  <2> QED
    BY <2>1 DEF ReceiveQuit
<1>3. types \cap {"EOF", "ACCEPT", "START"} = {} /\ "EOF" \notin types
  OBVIOUS
<1>4. m = Head(toClient[c]) /\ m.type = "QUIT"
  BY <1>1 DEF Receives
<1>5. golf' \in [Client -> BOOLEAN] /\ n \in Nat /\ i \in Nat
  BY <1>1, OwnParts DEF RoomInv, RoomTypes
<1> HIDE DEF m, types
<1>6. us \in UserList /\ Present(us, i)
  BY <1>1, <1>3, <1>4, HeadParts
<1>7. us[i] # NoUser /\ i \in 1..Len(us)
  BY <1>6 DEF Present
<1>8. Sent(c, ms) /\ Sent(c, <<>>)
  <2> DEFINE a == <<Authority("DELEGATE_AUTHORITY", i, i)>>
             b == IF n = 0 THEN <<>> ELSE <<Input(i, us[i].inputs, n)>>
  <2>1. Sent(c, a) /\ Sent(c, b) /\ Sent(c, <<>>)
    BY <1>5, AnswersSent, SentNone
  <2> HIDE DEF a, b
  <2>2. Sent(c, a \o b)
    BY <2>1, SentConcat
  <2> QED
    BY <2>1, <2>2 DEF a, b
<1> DEFINE as == Apply(users[c], m)
<1>9. us = as
  OBVIOUS
<1> HIDE DEF us, n, ms, i
<1>10. vs \in UserList /\ Len(vs) = Len(us) /\ Shape(vs) = Shape(us) /\ vs[i] # NoUser
  <2> DEFINE r == [us[i] EXCEPT !.authority = i]
  <2>1. Changes(us, vs, i, r)
    BY DEF Changes
  <2>2. vs \in UserList /\ Len(vs) = Len(us) /\ Shape(vs) = Shape(us)
    <3> HIDE DEF vs
    <3> QED
      BY <1>5, <1>6, <1>7, <2>1, AuthorityShape DEF r
  <2>3. Present(vs, i)
    <3> HIDE DEF vs
    <3> QED
      BY <1>6, <2>2, ShapeParts
  <2> QED
    BY <2>2, <2>3 DEF Present
<1> HIDE DEF vs
<1>11. ws \in UserList /\ Len(ws) = Len(us) /\ Shape(ws) = Shape(us)
  BY <1>5, <1>10, ExtendedShape
<1> HIDE DEF ws
<1>12. CASE us[i].authority # m.user
  <2>1. Changes(users, users', c, us) /\ UNCHANGED toServer
    BY <1>2, <1>12 DEF Changes
  <2>2. Len(us) = Len(as) /\ Shape(us) = Shape(as)
    BY <1>9
  <2> QED
    BY <1>1, <1>3, <1>4, <1>5, <1>6, <1>8, <2>1, <2>2, ListStep
<1>13. CASE ~(us[i].authority # m.user)
  <2>1. Changes(users, users', c, ws) /\ Changes(toServer, toServer', c, toServer[c] \o ms)
    BY <1>2, <1>13 DEF Changes
  <2>2. Len(ws) = Len(as) /\ Shape(ws) = Shape(as)
    BY <1>9, <1>11
  <2> QED
    BY <1>1, <1>3, <1>4, <1>5, <1>8, <1>11, <2>1, <2>2, ListStep
<1> QED
  BY <1>12, <1>13

LEMMA ReceiveAuthorityStep ==
  ASSUME RoomInv, NEW c \in Client, ReceiveAuthority(c) PROVE RoomInv'
<1> DEFINE m == Head(toClient[c])
           u == m.user
           own == users[c]
           us == [own EXCEPT ![u].authority = m.authority]
           ws == Extended(us, u, 2)
           a == Authority("DELEGATE_AUTHORITY", u, m.authority)
           b == Input(u, us[u].inputs, 2)
           types == {"REQUEST_AUTHORITY", "DELEGATE_AUTHORITY"}
           ts == toServer[c]
<1>1. /\ Receives(c, types) /\ Consume(c)
      /\ UNCHANGED <<slots, room, info, serving, link, me, started>> /\ UNCHANGED golf
  BY DEF ReceiveAuthority, serverVars
<1>2. \/ UNCHANGED <<users, toServer>>
      \/ /\ Present(own, u) /\ Present(own, m.authority)
         /\ \/ /\ Changes(users, users', c, us) /\ Changes(toServer, toServer', c, Append(ts, a))
            \/ /\ Changes(users, users', c, us) /\ UNCHANGED toServer
            \/ /\ Changes(users, users', c, ws) /\ Changes(toServer, toServer', c, Append(ts, b))
  BY DEF ReceiveAuthority, Changes
<1>3. types \cap {"EOF", "ACCEPT", "START"} = {} /\ "EOF" \notin types
  OBVIOUS
<1>4. m = Head(toClient[c]) /\ m.type \in types
  BY <1>1 DEF Receives
<1>5. own \in UserList /\ Apply(own, m) = own
  BY <1>4, OwnParts DEF Apply
<1>6. golf' \in [Client -> BOOLEAN] /\ IsTable(users)
  BY <1>1 DEF RoomInv, RoomTypes
<1>7. Append(ts, a) = ts \o <<a>> /\ Append(ts, b) = ts \o <<b>>
  <2>1. IsChannel(ts)
    BY DEF RoomInv, GoodClient, Good, AllSane
  <2> HIDE DEF a, b, ts
  <2> QED
    BY <2>1, ChannelAppend
<1>8. CASE UNCHANGED <<users, toServer>>
  <2>1. Sent(c, <<>>) /\ Changes(users, users', c, own) /\ UNCHANGED toServer
    BY <1>6, <1>8, SentNone, TableSame
  <2>2. Len(own) = Len(Apply(users[c], m)) /\ Shape(own) = Shape(Apply(users[c], m))
    BY <1>5
  <2> HIDE DEF m, types, own
  <2> QED
    BY <1>1, <1>3, <1>4, <1>5, <1>6, <2>1, <2>2, ListStep
<1>9. CASE Present(own, u) /\ Present(own, m.authority)
  <2>1. u \in 1..Len(own) /\ own[u] # NoUser /\ m.authority \in Nat
    <3>1. Len(own) \in Nat
      BY <1>5, ListParts
    <3> QED
      BY <1>9, <3>1 DEF Present
  <2>2. us \in UserList /\ Len(us) = Len(own) /\ Shape(us) = Shape(own)
    <3> DEFINE v == m.authority
               r == [own[u] EXCEPT !.authority = v]
    <3>1. Changes(own, us, u, r)
      BY DEF Changes
    <3>2. v \in Nat
      BY <2>1
    <3> HIDE DEF us, own, u, v
    <3> QED
      BY <1>5, <2>1, <3>1, <3>2, AuthorityShape DEF r
  <2>3. us[u] # NoUser
    <3>1. Present(us, u)
      <4> HIDE DEF us, own, u
      <4> QED
        BY <1>5, <1>9, <2>2, ShapeParts
    <3> QED
      BY <3>1 DEF Present
  <2>4. ws \in UserList /\ Len(ws) = Len(own) /\ Shape(ws) = Shape(own)
    <3> HIDE DEF us, own, u
    <3> QED
      BY <2>2, <2>3, ExtendedShape
  <2>5. Sent(c, <<a>>) /\ Sent(c, <<b>>) /\ Sent(c, <<>>)
    <3>1. m.authority \in Nat /\ 2 \in Nat
      BY <2>1
    <3> HIDE DEF m, us
    <3> QED
      BY <3>1, AnswersSent, SentNone
  <2> DEFINE as == Apply(users[c], m)
  <2>6. as = own
    BY <1>5
  <2> HIDE DEF us, ws, a, b, u, own
  <2>7. /\ Len(us) = Len(as) /\ Shape(us) = Shape(as)
        /\ Len(ws) = Len(as) /\ Shape(ws) = Shape(as)
    BY <2>2, <2>4, <2>6
  <2> HIDE DEF m, types
  <2>8. CASE Changes(users, users', c, us) /\ Changes(toServer, toServer', c, Append(ts, a))
    <3>1. Changes(toServer, toServer', c, ts \o <<a>>)
      BY <1>7, <2>8
    <3> QED
      BY <1>1, <1>3, <1>4, <1>6, <2>2, <2>5, <2>7, <2>8, <3>1, ListStep
  <2>9. CASE Changes(users, users', c, us) /\ UNCHANGED toServer
    BY <1>1, <1>3, <1>4, <1>6, <2>2, <2>5, <2>7, <2>9, ListStep
  <2>10. CASE Changes(users, users', c, ws) /\ Changes(toServer, toServer', c, Append(ts, b))
    <3>1. Changes(toServer, toServer', c, ts \o <<b>>)
      BY <1>7, <2>10
    <3> QED
      BY <1>1, <1>3, <1>4, <1>6, <2>4, <2>5, <2>7, <2>10, <3>1, ListStep
  <2>11. CASE UNCHANGED <<users, toServer>>
    BY <1>8, <2>11
  <2> QED
    BY <1>2, <2>8, <2>9, <2>10, <2>11
<1> QED
  BY <1>2, <1>8, <1>9

-----------------------------------------------------------------------------
(* The server's steps.                                                      *)

\* The server sends ms to the members to, which leaves the list as it is.
Tells(to, ms) ==
    /\ toClient' = SendAll(to, ms) /\ to \subseteq Members
    /\ IsChannel(ms) /\ ~Has(ms, "ACCEPT")
    /\ \A d \in to : Reads(d, slots, ms, slots)
    /\ IF Has(ms, "START") THEN to = Members /\ room'.started = TRUE
       ELSE room'.started = room.started

LEMMA GoodTells ==
  ASSUME RoomInv, NEW to, NEW ms, Tells(to, ms), NEW d \in Client
  PROVE  Good(d, link[d], serving[d], toServer[d], toClient'[d], users[d], me[d], started[d],
              room'.started, slots)
<1>1. Good(d, link[d], serving[d], toServer[d], toClient[d], users[d], me[d], started[d],
           room.started, slots)
  BY DEF RoomInv, GoodClient
<1>2. toClient'[d] = IF d \in to THEN toClient[d] \o ms ELSE toClient[d]
  BY DEF Tells, SendAll
<1>3. slots \in Seq(Slot)
  BY DEF RoomInv, Seated
<1>4. CASE d \in to
  <2>1. serving[d] = "member"
    BY <1>4 DEF Tells, Members
  <2>2. /\ IsChannel(ms) /\ ~Has(ms, "ACCEPT") /\ Reads(d, slots, ms, slots)
        /\ IF Has(ms, "START") THEN room'.started = TRUE ELSE room'.started = room.started
    BY <1>4 DEF Tells
  <2> DEFINE rs == room'.started
  <2>3. IF Has(ms, "START") THEN rs = TRUE ELSE rs = room.started
    BY <2>2
  <2> HIDE DEF rs
  <2>4. Good(d, link[d], "member", toServer[d], toClient[d], users[d], me[d], started[d],
             room.started, slots)
    BY <1>1, <2>1
  <2>5. Good(d, link[d], "member", toServer[d], toClient[d] \o ms, users[d], me[d], started[d],
             rs, slots)
    BY <1>3, <2>2, <2>3, <2>4, GoodTold
  <2> QED
    BY <1>2, <1>4, <2>1, <2>5 DEF rs
<1>5. CASE d \notin to /\ serving[d] = "member"
  <2>1. d \in Members
    BY <1>5 DEF Members
  <2>2. room'.started = room.started
    BY <1>5, <2>1 DEF Tells
  <2> QED
    BY <1>1, <1>2, <1>5, <2>2
<1>6. CASE d \notin to /\ serving[d] # "member"
  <2> DEFINE rs == room'.started
  <2>1. toClient'[d] = toClient[d]
    BY <1>2, <1>6
  <2> HIDE DEF rs
  <2>2. Good(d, link[d], serving[d], toServer[d], toClient[d], users[d], me[d], started[d],
             rs, slots)
    BY <1>1, <1>6, GoodElsewhere
  <2> QED
    BY <2>1, <2>2 DEF rs
<1> QED
  BY <1>4, <1>5, <1>6

RoomRecords == [started : BOOLEAN, lag : Nat, autolag : BOOLEAN, golf : BOOLEAN]

\* A packet of a member is handled.
LEMMA HandlesStep ==
  ASSUME RoomInv, NEW c \in Client, NEW type, Handles(c, type), type # "JOIN",
         slots' = slots, Infos(info'), room' \in RoomRecords,
         NEW to, NEW ms, Tells(to, ms)
  PROVE  RoomInv'
<1>1. /\ serving[c] = "member" /\ toServer[c] # <<>>
      /\ UNCHANGED <<users, me, golf, started, serving, link>>
  BY DEF Handles, clientVars
<1>2. Changes(toServer, toServer', c, Tail(toServer[c]))
  BY DEF Handles, Changes
<1>3. IsTable(toServer)
  BY DEF RoomInv, RoomTypes
<1>4. /\ IsTable(toServer') /\ toServer'[c] = Tail(toServer[c])
      /\ \A d \in Client \ {c} : toServer'[d] = toServer[d]
  BY <1>2, <1>3, TableChange
<1>5. toClient' = [d \in Client |-> toClient'[d]]
  BY DEF Tells, SendAll
<1>6. RoomTypes'
  BY <1>1, <1>4, <1>5 DEF RoomInv, RoomTypes, RoomRecords, IsTable
<1>7. Seated(slots, serving)'
  BY <1>1 DEF RoomInv
<1>8. ASSUME NEW d \in Client PROVE GoodClient(d)'
  <2> DEFINE tc == toClient'[d]
             rs == room'.started
  <2>1. Good(d, link[d], serving[d], toServer[d], tc, users[d], me[d], started[d], rs, slots)
    BY GoodTells
  <2> HIDE DEF tc, rs
  <2>2. CASE d = c
    <3>1. Good(d, link[d], serving[d], Tail(toServer[d]), tc, users[d], me[d], started[d], rs, slots)
      BY <1>1, <2>1, <2>2, GoodHandled
    <3> QED
      BY <1>1, <1>4, <2>2, <3>1 DEF GoodClient, tc, rs
  <2>3. CASE d # c
    BY <1>1, <1>4, <2>1, <2>3 DEF GoodClient, tc, rs
  <2> QED
    BY <2>2, <2>3
<1> QED
  BY <1>6, <1>7, <1>8 DEF RoomInv

LEMMA HandledSane ==
  ASSUME RoomInv, NEW c \in Client, NEW type, Handles(c, type)
  PROVE  /\ Sane(c, Head(toServer[c])) /\ Head(toServer[c]).type = type
         /\ serving[c] = "member" /\ c \in Members
<1>1. AllSane(c, toServer[c]) /\ toServer[c] # <<>> /\ Head(toServer[c]).type = type
      /\ serving[c] = "member"
  BY DEF RoomInv, GoodClient, Good, Handles
<1> QED
  BY <1>1, SaneTail DEF Members

\* Nothing is sent, or the same to all members, or to the others.
LEMMA TellsNobody ==
  ASSUME RoomInv, UNCHANGED toClient, room'.started = room.started
  PROVE  Tells({}, <<>>)
<1>1. toClient' = SendAll({}, <<>>)
  BY DEF RoomInv, RoomTypes, IsTable, SendAll
<1> QED
  BY <1>1, ChannelNone, HasNone DEF Tells

LEMMA TellsKeeping ==
  ASSUME NEW to, NEW ms, toClient' = SendAll(to, ms), to \subseteq Members,
         IsChannel(ms), ~Has(ms, "ACCEPT"), ~Has(ms, "START"),
         \A d \in to : Keeps(d, slots, ms),
         room'.started = room.started
  PROVE  Tells(to, ms)
BY DEF Tells, Keeps

\* A message whose handlers need nothing but the user it names.
LEMMA TellsOne ==
  ASSUME RoomInv, NEW to, NEW m, toClient' = SendAll(to, <<m>>), to \subseteq Members,
         m.type \notin {"ACCEPT", "JOIN", "QUIT", "START"},
         \A d \in to : Fits(d, slots, m), room'.started = room.started
  PROVE  Tells(to, <<m>>)
<1>1. slots \in Seq(Slot)
  BY DEF RoomInv, Seated
<1>2. \A d \in to : Keeps(d, slots, <<m>>)
  BY <1>1, KeepsOne
<1>3. IsChannel(<<m>>) /\ ~Has(<<m>>, "ACCEPT") /\ ~Has(<<m>>, "START")
  BY ChannelOne, HasOne
<1> QED
  BY <1>2, <1>3, TellsKeeping

LEMMA ServerLagStep ==
  ASSUME RoomInv, NEW c \in Client, ServerLag(c) PROVE RoomInv'
<1> DEFINE m == Head(toServer[c])
           mine == IF m.mine THEN [info EXCEPT ![c].lag = m.lag] ELSE info
           own == {Pos(slots, c)}
           others == {Pos(slots, d) : d \in Members \ {c}}
           a == IF m.mine THEN <<Lag(m.lag, own)>> ELSE <<>>
           b == IF m.theirs THEN <<Lag(m.lag, others)>> ELSE <<>>
<1>1. /\ Handles(c, "LAG") /\ slots' = slots
      /\ info' = IF m.theirs THEN SetRoomLag(mine, m.lag, {c}) ELSE mine
      /\ room' = IF m.theirs THEN [room EXCEPT !.lag = m.lag] ELSE room
      /\ toClient' = SendAll(Members, a \o b)
  BY DEF ServerLag
<1>2. m.lag \in Nat /\ c \in Members
  BY <1>1, HandledSane DEF Sane
<1>3. Infos(info) /\ room \in RoomRecords /\ Seated(slots, serving) /\ slots \in Seq(Slot)
  BY DEF RoomInv, RoomTypes, RoomRecords, Seated
<1> DEFINE lag == m.lag
<1>4. Infos(mine)
  <2> DEFINE r == [info[c] EXCEPT !.lag = lag]
             inf == [info EXCEPT ![c] = r]
  <2>1. r \in UserInfos /\ r.name = c
    <3>1. info[c] \in UserInfos /\ info[c].name = c /\ lag \in Nat
      BY <1>2, <1>3 DEF Infos
    <3> HIDE DEF lag
    <3> QED
      BY <3>1 DEF UserInfos
  <2>2. inf = [info EXCEPT ![c] = r]
    OBVIOUS
  <2>3. mine = IF m.mine THEN inf ELSE info
    OBVIOUS
  <2> HIDE DEF r, inf, mine
  <2>4. Infos(inf)
    BY <1>3, <2>1, <2>2, InfosChange
  <2> QED
    BY <1>3, <2>3, <2>4
<1>5. Infos(info')
  <2> HIDE DEF mine, m
  <2> QED
    BY <1>1, <1>2, <1>4, InfosLag
<1>6. room' \in RoomRecords /\ room'.started = room.started
  BY <1>1, <1>2, <1>3 DEF RoomRecords
<1>7. /\ \A i \in own : Present(slots, i)
      /\ \A i \in others : Present(slots, i)
  BY <1>2, <1>3, PosParts DEF Members
<1> HIDE DEF own, others
<1>8. ASSUME NEW d PROVE Keeps(d, slots, a) /\ Keeps(d, slots, b)
  <2>1. Keeps(d, slots, <<>>)
    BY <1>3, KeepsNone
  <2>2. Keeps(d, slots, <<Lag(lag, own)>>) /\ Keeps(d, slots, <<Lag(lag, others)>>)
    <3> HIDE DEF lag
    <3>1. lag \in Nat
      BY <1>2 DEF lag
    <3> QED
      BY <1>3, <1>7, <3>1, KeepsLag
  <2> QED
    BY <2>1, <2>2
<1> HIDE DEF a, b
<1> DEFINE ms == a \o b
<1>9. \A d : Keeps(d, slots, ms)
  BY <1>8, KeepsConcat
<1> HIDE DEF ms
<1>10. IsChannel(ms) /\ ~Has(ms, "ACCEPT") /\ ~Has(ms, "START")
  BY <1>9 DEF Keeps
<1>11. Tells(Members, ms)
  <2>1. toClient' = SendAll(Members, ms)
    BY <1>1 DEF ms
  <2> QED
    BY <1>6, <1>9, <1>10, <2>1, TellsKeeping
<1> QED
  BY <1>1, <1>5, <1>6, <1>11, HandlesStep

LEMMA ServerAutolagStep ==
  ASSUME RoomInv, NEW c \in Client, ServerAutolag(c) PROVE RoomInv'
<1>1. /\ Handles(c, "AUTOLAG") /\ UNCHANGED <<slots, info, toClient>>
      /\ room' = [room EXCEPT !.autolag = IF Head(toServer[c]).value = 0 THEN FALSE ELSE ~room.autolag]
  BY DEF ServerAutolag
<1>2. room' \in RoomRecords /\ room'.started = room.started /\ Infos(info')
  BY <1>1 DEF RoomInv, RoomTypes, RoomRecords
<1>3. Tells({}, <<>>)
  BY <1>1, <1>2, TellsNobody
<1> QED
  BY <1>1, <1>2, <1>3, HandlesStep

LEMMA ServerControllersStep ==
  ASSUME RoomInv, NEW c \in Client, ServerControllers(c) PROVE RoomInv'
<1> DEFINE v == Head(toServer[c]).plugged
           r == [info[c] EXCEPT !.plugged = v]
           inf == [info EXCEPT ![c].plugged = v]
           m == Controllers(slots, info')
<1>1. /\ Handles(c, "CONTROLLERS") /\ UNCHANGED <<slots, room>>
      /\ info' = IF room.started THEN inf ELSE ControllerMap(slots, inf, manual)
      /\ toClient' = SendAll(Members, <<m>>)
  BY DEF ServerControllers
<1>2. Infos(info) /\ room \in RoomRecords /\ slots \in Seq(Slot)
  BY DEF RoomInv, RoomTypes, RoomRecords, Seated
<1>3. v \in BOOLEAN
  BY <1>1, HandledSane DEF Sane
<1>4. Infos(inf)
  <2>1. r \in UserInfos /\ r.name = c
    BY <1>2, <1>3 DEF Infos, UserInfos
  <2>2. inf = [info EXCEPT ![c] = r]
    OBVIOUS
  <2> HIDE DEF r, inf, v
  <2> QED
    BY <1>2, <2>1, <2>2, InfosChange
<1> HIDE DEF inf
<1>5. Infos(info')
  BY <1>1, <1>2, <1>4, InfosMapped
<1>6. \A d : Keeps(d, slots, <<m>>)
  BY <1>2, <1>5, KeepsControllers
<1> DEFINE ms == <<m>>
<1> HIDE DEF m
<1>7. toClient' = SendAll(Members, ms) /\ room'.started = room.started /\ room' \in RoomRecords
  BY <1>1, <1>2
<1>8. \A d : Keeps(d, slots, ms)
  BY <1>6
<1> HIDE DEF ms
<1>9. IsChannel(ms) /\ ~Has(ms, "ACCEPT") /\ ~Has(ms, "START")
  BY <1>8 DEF Keeps
<1>10. Tells(Members, ms)
  BY <1>7, <1>8, <1>9, TellsKeeping
<1> QED
  BY <1>1, <1>5, <1>7, <1>10, HandlesStep

LEMMA ServerStartStep ==
  ASSUME RoomInv, NEW c \in Client, ServerStart(c) PROVE RoomInv'
<1> DEFINE ms == <<Message("START")>>
<1>1. /\ Handles(c, "START") /\ UNCHANGED <<slots, info>>
      /\ room' = [room EXCEPT !.started = TRUE]
      /\ toClient' = IF room.started THEN toClient ELSE SendAll(Members, ms)
  BY DEF ServerStart
<1>2. room \in RoomRecords /\ slots \in Seq(Slot) /\ Infos(info')
  BY <1>1 DEF RoomInv, RoomTypes, RoomRecords, Seated
<1>3. room' \in RoomRecords /\ room'.started = TRUE
  BY <1>1, <1>2 DEF RoomRecords
<1>4. CASE room.started
  <2>1. Tells({}, <<>>)
    BY <1>1, <1>2, <1>3, <1>4, TellsNobody DEF RoomRecords
  <2> QED
    BY <1>1, <1>2, <1>3, <2>1, HandlesStep
<1>5. CASE ~room.started
  <2> DEFINE m == Message("START")
  <2>1. m.type = "START"
    BY DEF Message
  <2>2. \A d : Fits(d, slots, m)
    BY <2>1 DEF Fits
  <2> HIDE DEF m
  <2>3. \A d : Reads(d, slots, <<m>>, slots) /\ IsChannel(<<m>>) /\ ~Has(<<m>>, "ACCEPT")
    BY <1>2, <2>1, <2>2, ReadsKeeps
  <2>4. Has(<<m>>, "START")
    BY <2>1, HasOne
  <2>5. Tells(Members, <<m>>)
    BY <1>1, <1>3, <1>5, <2>3, <2>4 DEF Tells, m
  <2> QED
    BY <1>1, <1>2, <1>3, <2>5, HandlesStep
<1> QED
  BY <1>4, <1>5

LEMMA ServerGolfStep ==
  ASSUME RoomInv, NEW c \in Client, ServerGolf(c) PROVE RoomInv'
<1> DEFINE on == Head(toServer[c]).golf
           m == [type |-> "GOLF", golf |-> on]
<1>1. /\ Handles(c, "GOLF") /\ UNCHANGED <<slots, info>>
      /\ room' = [room EXCEPT !.golf = on]
      /\ toClient' = IF on = room.golf THEN toClient ELSE SendAll(Members \ {c}, <<m>>)
  BY DEF ServerGolf
<1>2. on \in BOOLEAN
  BY <1>1, HandledSane DEF Sane
<1>3. room' \in RoomRecords /\ room'.started = room.started /\ Infos(info')
  BY <1>1, <1>2 DEF RoomInv, RoomTypes, RoomRecords
<1>4. \A d : Fits(d, slots, m) /\ m.type = "GOLF"
  BY <1>2 DEF Fits
<1>5. CASE on = room.golf
  <2>1. Tells({}, <<>>)
    BY <1>1, <1>3, <1>5, TellsNobody
  <2> QED
    BY <1>1, <1>3, <2>1, HandlesStep
<1>6. CASE on # room.golf
  <2> DEFINE to == Members \ {c}
  <2>1. toClient' = SendAll(to, <<m>>) /\ to \subseteq Members
    BY <1>1, <1>6
  <2> HIDE DEF m, to
  <2>2. Tells(to, <<m>>)
    BY <1>3, <1>4, <2>1, TellsOne
  <2> QED
    BY <1>1, <1>3, <2>2, HandlesStep
<1> QED
  BY <1>5, <1>6

LEMMA ServerMapStep ==
  ASSUME RoomInv, NEW c \in Client, ServerMap(c) PROVE RoomInv'
<1> DEFINE v == Head(toServer[c]).map
           r == [info[c] EXCEPT !.map = v]
           m == [type |-> "INPUT_MAP", user |-> Pos(slots, c), map |-> v]
           to == Members \ {c}
<1>1. /\ Handles(c, "INPUT_MAP") /\ UNCHANGED <<slots, room>>
      /\ info' = [info EXCEPT ![c] = r] /\ toClient' = SendAll(to, <<m>>)
  BY DEF ServerMap
<1>2. v \in Nat /\ serving[c] = "member"
  BY <1>1, HandledSane DEF Sane
<1>3. Infos(info) /\ room' \in RoomRecords /\ room'.started = room.started /\ Seated(slots, serving)
  BY <1>1 DEF RoomInv, RoomTypes, RoomRecords
<1>4. r \in UserInfos /\ r.name = c
  BY <1>2, <1>3 DEF Infos, UserInfos
<1>5. Infos(info')
  <2> HIDE DEF r
  <2> QED
    BY <1>1, <1>3, <1>4, InfosChange
<1>6. Present(slots, Pos(slots, c))
  BY <1>2, <1>3, PosParts
<1>7. \A d : Fits(d, slots, m) /\ m.type = "INPUT_MAP"
  BY <1>2, <1>6 DEF Fits
<1>8. to \subseteq Members
  OBVIOUS
<1> HIDE DEF m, to
<1>9. Tells(to, <<m>>)
  BY <1>1, <1>3, <1>7, <1>8, TellsOne
<1> QED
  BY <1>1, <1>3, <1>5, <1>9, HandlesStep

LEMMA ServerNameStep ==
  ASSUME RoomInv, NEW c \in Client, ServerName(c) PROVE RoomInv'
<1> DEFINE m == [type |-> "NAME", user |-> Pos(slots, c)]
           to == Members \ {c}
<1>1. /\ Handles(c, "NAME") /\ UNCHANGED <<slots, room, info>> /\ toClient' = SendAll(to, <<m>>)
  BY DEF ServerName, serverVars
<1>2. serving[c] = "member"
  BY <1>1, HandledSane
<1>3. /\ Infos(info') /\ room' \in RoomRecords /\ room'.started = room.started
      /\ Seated(slots, serving)
  BY <1>1 DEF RoomInv, RoomTypes, RoomRecords
<1>4. Present(slots, Pos(slots, c))
  BY <1>2, <1>3, PosParts
<1>5. \A d : Fits(d, slots, m) /\ m.type = "NAME"
  BY <1>4 DEF Fits
<1>6. to \subseteq Members
  OBVIOUS
<1> HIDE DEF m, to
<1>7. Tells(to, <<m>>)
  BY <1>1, <1>3, <1>5, <1>6, TellsOne
<1> QED
  BY <1>1, <1>3, <1>7, HandlesStep

LEMMA ServerInputStep ==
  ASSUME RoomInv, NEW c \in Client, ServerInput(c) PROVE RoomInv'
<1> DEFINE m == Head(toServer[c])
           u == slots[m.user]
           n == info[u].inputs + m.count
           r == [info[u] EXCEPT !.inputs = n]
           to == Members \ {c}
<1>1. /\ Handles(c, "INPUT_DATA") /\ UNCHANGED <<slots, room>>
      /\ \/ UNCHANGED <<info, toClient>>
         \/ info' = [info EXCEPT ![u] = r] /\ toClient' = SendAll(to, <<m>>)
  BY DEF ServerInput
<1>2. m.count \in Nat /\ m.type = "INPUT_DATA"
  BY <1>1, HandledSane DEF Sane
<1>3. Infos(info) /\ room' \in RoomRecords /\ room'.started = room.started
  BY <1>1 DEF RoomInv, RoomTypes, RoomRecords
<1>4. CASE UNCHANGED <<info, toClient>>
  <2>1. Tells({}, <<>>) /\ Infos(info')
    BY <1>3, <1>4, TellsNobody
  <2> QED
    BY <1>1, <1>3, <2>1, HandlesStep
<1>5. CASE info' = [info EXCEPT ![u] = r] /\ toClient' = SendAll(to, <<m>>)
  <2>1. u \in Client => r \in UserInfos /\ r.name = u
    <3>1. SUFFICES ASSUME u \in Client PROVE r \in UserInfos /\ r.name = u
      OBVIOUS
    <3>2. info[u] \in UserInfos /\ info[u].name = u
      BY <1>3, <3>1 DEF Infos
    <3>3. n \in Nat
      BY <1>2, <3>2 DEF UserInfos
    <3> HIDE DEF u, n
    <3> QED
      BY <3>2, <3>3 DEF UserInfos
  <2>2. Infos(info')
    <3> HIDE DEF r, u
    <3> QED
      BY <1>3, <1>5, <2>1, InfosChange
  <2>3. \A d : Fits(d, slots, m)
    BY <1>2 DEF Fits
  <2>4. to \subseteq Members
    OBVIOUS
  <2> HIDE DEF m, to
  <2>5. Tells(to, <<m>>)
    BY <1>2, <1>3, <1>5, <2>3, <2>4, TellsOne
  <2> QED
    BY <1>1, <1>3, <2>2, <2>5, HandlesStep
<1> QED
  BY <1>1, <1>4, <1>5

LEMMA ServerAuthorityStep ==
  ASSUME RoomInv, NEW c \in Client, NEW type \in {"REQUEST_AUTHORITY", "DELEGATE_AUTHORITY"},
         ServerAuthority(c, type)
  PROVE  RoomInv'
<1> DEFINE m == Head(toServer[c])
           u == slots[m.user]
           a == m.authority
           r == [info[u] EXCEPT !.authority = a]
           to == Members \ {c}
<1>1. /\ Handles(c, type) /\ UNCHANGED <<slots, room>>
      /\ \/ UNCHANGED <<info, toClient>>
         \/ UNCHANGED info /\ toClient' = SendAll(to, <<m>>)
         \/ info' = [info EXCEPT ![u] = r] /\ toClient' = SendAll(to, <<m>>)
  BY DEF ServerAuthority
<1>2. a \in Nat /\ m.type = type
  BY <1>1, HandledSane DEF Sane
<1>3. Infos(info) /\ room' \in RoomRecords /\ room'.started = room.started
  BY <1>1 DEF RoomInv, RoomTypes, RoomRecords
<1>4. CASE UNCHANGED <<info, toClient>>
  <2>1. Tells({}, <<>>) /\ Infos(info')
    BY <1>3, <1>4, TellsNobody
  <2> QED
    BY <1>1, <1>3, <2>1, HandlesStep
<1>5. CASE /\ UNCHANGED info \/ info' = [info EXCEPT ![u] = r]
           /\ toClient' = SendAll(to, <<m>>)
  <2>1. u \in Client => r \in UserInfos /\ r.name = u
    <3>1. SUFFICES ASSUME u \in Client PROVE r \in UserInfos /\ r.name = u
      OBVIOUS
    <3>2. info[u] \in UserInfos /\ info[u].name = u
      BY <1>3, <3>1 DEF Infos
    <3> HIDE DEF u, a
    <3> QED
      BY <1>2, <3>2 DEF UserInfos
  <2>2. Infos(info')
    <3>1. CASE UNCHANGED info
      BY <1>3, <3>1
    <3>2. CASE info' = [info EXCEPT ![u] = r]
      <4> HIDE DEF r, u
      <4> QED
        BY <1>3, <2>1, <3>2, InfosChange
    <3> QED
      BY <1>5, <3>1, <3>2
  <2>3. \A d : Fits(d, slots, m)
    BY <1>2 DEF Fits
  <2>4. to \subseteq Members /\ m.type \notin {"ACCEPT", "JOIN", "QUIT", "START"}
    BY <1>2
  <2> HIDE DEF m, to
  <2>5. Tells(to, <<m>>)
    BY <1>3, <1>5, <2>3, <2>4, TellsOne
  <2>6. type # "JOIN"
    OBVIOUS
  <2> QED
    BY <1>1, <1>3, <2>2, <2>5, <2>6, HandlesStep
<1> QED
  BY <1>1, <1>4, <1>5

LEMMA PairConcat ==
  ASSUME NEW x, NEW y
  PROVE  <<x, y>> = <<x>> \o <<y>>
<1>1. <<x>> \in Seq({x, y}) /\ <<y>> \in Seq({x, y})
  OBVIOUS
<1>2. <<x>> \o <<y>> \in Seq({x, y}) /\ Len(<<x>> \o <<y>>) = 2
  BY <1>1
<1>3. (<<x>> \o <<y>>)[1] = x /\ (<<x>> \o <<y>>)[2] = y
  BY <1>1
<1> DEFINE s == <<x>> \o <<y>>
<1>4. s = [i \in 1..2 |-> s[i]]
  BY <1>2
<1>5. <<x, y>> = [i \in 1..2 |-> <<x, y>>[i]]
  OBVIOUS
<1>6. \A i \in 1..2 : s[i] = <<x, y>>[i]
  BY <1>3
<1> HIDE DEF s
<1>7. s = <<x, y>>
  BY <1>4, <1>5, <1>6
<1> QED
  BY <1>7 DEF s

LEMMA TickStep ==
  ASSUME RoomInv, Tick PROVE RoomInv'
<1>1. PICK lag \in {room.lag - 1, room.lag, room.lag + 1} \cap Nat :
        IF lag = room.lag
        THEN toClient' = SendAll(Members, <<Latency(slots)>>) /\ UNCHANGED <<room, info>>
        ELSE /\ room' = [room EXCEPT !.lag = lag]
             /\ info' = SetRoomLag(info, lag, {})
             /\ toClient' = SendAll(Members, <<Latency(slots),
                                               Lag(lag, {Pos(slots, d) : d \in Members})>>)
  BY DEF Tick
<1>2. UNCHANGED <<slots, users, me, golf, started, serving, link, toServer>>
  BY DEF Tick, clientVars
<1>3. Infos(info) /\ room \in RoomRecords /\ Seated(slots, serving) /\ slots \in Seq(Slot)
  BY DEF RoomInv, RoomTypes, RoomRecords, Seated
<1> DEFINE ids == {Pos(slots, d) : d \in Members}
           a == <<Latency(slots)>>
           b == <<Lag(lag, ids)>>
<1>4. \A i \in ids : Present(slots, i)
  BY <1>3, PosParts DEF Members
<1>5. room' \in RoomRecords /\ room'.started = room.started
  BY <1>1, <1>3 DEF RoomRecords
<1>6. Infos(info')
  BY <1>1, <1>3, InfosLag
<1> HIDE DEF ids
<1>7. \A d : Keeps(d, slots, a) /\ Keeps(d, slots, b)
  BY <1>3, <1>4, KeepsLatency, KeepsLag
<1>8. <<Latency(slots), Lag(lag, ids)>> = a \o b
  BY PairConcat
<1> DEFINE ms == IF lag = room.lag THEN a ELSE a \o b
<1>9. toClient' = SendAll(Members, ms)
  BY <1>1, <1>8 DEF ids
<1> HIDE DEF a, b
<1>10. \A d : Keeps(d, slots, ms)
  BY <1>7, KeepsConcat
<1> HIDE DEF ms
<1>11. IsChannel(ms) /\ ~Has(ms, "ACCEPT") /\ ~Has(ms, "START")
  BY <1>10 DEF Keeps
<1>12. Tells(Members, ms)
  BY <1>5, <1>9, <1>10, <1>11, TellsKeeping
<1>13. toClient' = [d \in Client |-> toClient'[d]]
  BY <1>9 DEF SendAll
<1>14. RoomTypes'
  BY <1>2, <1>5, <1>13 DEF RoomInv, RoomTypes, RoomRecords, IsTable
<1>15. ASSUME NEW d \in Client PROVE GoodClient(d)'
  BY <1>2, <1>12, GoodTells DEF GoodClient
<1>16. Seated(slots, serving)'
  BY <1>2, <1>3
<1> QED
  BY <1>6, <1>14, <1>15, <1>16 DEF RoomInv

LEMMA ServerJoinStep ==
  ASSUME RoomInv, NEW c \in Client, ServerJoin(c) PROVE RoomInv'
<1> DEFINE ts == toServer[c]
           new == Head(ts).info
           r == [new EXCEPT !.inputs = 0]
<1>1. /\ serving[c] = "open" /\ ts # <<>> /\ Head(ts).type = "JOIN"
      /\ Changes(serving, serving', c, "query") /\ Changes(toServer, toServer', c, Tail(ts))
      /\ info' = [info EXCEPT ![c] = r]
      /\ UNCHANGED <<slots, room, users, me, golf, started, link, toClient>>
  BY DEF ServerJoin, Changes, clientVars
<1>2. /\ RoomTypes /\ Infos(info)
      /\ Good(c, link[c], "open", ts, toClient[c], users[c], me[c], started[c],
              room.started, slots)
  BY <1>1 DEF RoomInv, GoodClient
<1>3. IsTable(serving) /\ IsTable(toServer)
  BY <1>2 DEF RoomTypes
<1>4. /\ IsTable(serving') /\ serving'[c] = "query"
      /\ \A d \in Client \ {c} : serving'[d] = serving[d]
  BY <1>1, <1>3, TableChange
<1>5. /\ IsTable(toServer') /\ toServer'[c] = Tail(ts)
      /\ \A d \in Client \ {c} : toServer'[d] = toServer[d]
  <2> DEFINE x == Tail(ts)
  <2>1. Changes(toServer, toServer', c, x)
    BY <1>1
  <2> HIDE DEF x
  <2>2. /\ IsTable(toServer') /\ toServer'[c] = x
        /\ \A d \in Client \ {c} : toServer'[d] = toServer[d]
    BY <1>3, <2>1, TableChange
  <2> QED
    BY <2>2 DEF x
<1>6. /\ Sane(c, Head(ts))
      /\ Good(c, link[c], "query", Tail(ts), toClient[c], users[c], me[c], started[c],
              room.started, slots)
  <2> DEFINE sv == "open"
             sv2 == "query"
             rs == room.started
  <2>1. Good(c, link[c], sv, ts, toClient[c], users[c], me[c], started[c], rs, slots)
    BY <1>2
  <2>2. (sv = "member" /\ sv2 = "member") \/ (sv = "open" /\ sv2 = "query")
    OBVIOUS
  <2>3. ts # <<>>
    BY <1>1
  <2> HIDE DEF ts, sv, sv2, rs
  <2>4. Sane(c, Head(ts)) /\ Good(c, link[c], sv2, Tail(ts), toClient[c], users[c], me[c],
                                 started[c], rs, slots)
    BY <2>1, <2>2, <2>3, GoodHandled
  <2> QED
    BY <2>4 DEF sv2, rs
<1>7. Infos(info')
  <2>1. new \in UserInfos /\ new.name = c
    BY <1>1, <1>6 DEF Sane
  <2> HIDE DEF new
  <2>2. r \in UserInfos /\ r.name = c
    BY <2>1 DEF UserInfos
  <2> HIDE DEF r
  <2> QED
    BY <1>1, <1>2, <2>2, InfosChange
<1>8. Only(c)
  BY <1>1, <1>2, <1>4, <1>5 DEF Only, RoomTypes, IsTable
<1>9. GoodClient(c)'
  BY <1>1, <1>4, <1>5, <1>6 DEF GoodClient
<1>10. golf' \in [Client -> BOOLEAN] /\ started' \in [Client -> BOOLEAN]
       /\ \A d \in Client \ {c} : started'[d] = started[d]
  BY <1>1, <1>2 DEF RoomTypes
<1> HIDE DEF ts, r
<1> QED
  BY <1>1, <1>7, <1>8, <1>9, <1>10, OnlyInfoStep

-----------------------------------------------------------------------------
(* A user leaves the server, or is turned away.                             *)

\* Only c and its user take part, but the list of the room may change.
LEMMA MembersStep ==
  ASSUME RoomInv, room' \in RoomRecords, Infos(info'), Seated(slots', serving'),
         UNCHANGED <<users, me, golf, started, link>>,
         IsTable(serving'), IsTable(toServer'), IsTable(toClient'),
         \A d \in Client : GoodClient(d)'
  PROVE  RoomInv'
<1>1. RoomTypes'
  BY DEF RoomInv, RoomTypes, RoomRecords, IsTable
<1> QED
  BY <1>1 DEF RoomInv

\* The list without c.
LEMMA SeatedWithout ==
  ASSUME NEW sl, NEW sv, Seated(sl, sv), NEW c \in Client, sv[c] = "member",
         NEW sv2, Changes(sv, sv2, c, "none"), IsTable(sv),
         NEW sl2, sl2 = [i \in 1..Len(sl) |-> IF sl[i] = c THEN NoUser ELSE sl[i]]
  PROVE  Seated(sl2, sv2) /\ Changes(sl, sl2, Pos(sl, c), NoUser) /\ Len(sl2) = Len(sl)
<1>1. /\ Pos(sl, c) \in 1..Len(sl) /\ Len(sl) \in Nat /\ sl[Pos(sl, c)] = c
      /\ \A j \in 1..Len(sl) : sl[j] = c => j = Pos(sl, c)
  BY PosParts
<1>2. sl \in Seq(Slot) /\ NoUser \notin Client
  BY NoUserAssumption DEF Seated
<1>3. sl2 \in Seq(Slot) /\ Len(sl2) = Len(sl)
  <2>1. \A i \in 1..Len(sl) : sl2[i] \in Slot
    BY <1>2 DEF Slot
  <2>2. sl2 = [i \in 1..Len(sl) |-> sl2[i]]
    OBVIOUS
  <2> QED
    BY <1>1, <2>1, <2>2, SequenceOf
<1>4. sl2 = [sl EXCEPT ![Pos(sl, c)] = NoUser]
  BY <1>1, <1>2
<1>5. \A d \in Client : sv2[d] = IF d = c THEN "none" ELSE sv[d]
  BY TableChange
<1>6. ASSUME NEW d \in Client
      PROVE  sv2[d] = "member" <=> \E i \in 1..Len(sl2) : sl2[i] = d
  <2>1. CASE d = c
    BY <1>2, <1>3, <1>5, <2>1
  <2>2. CASE d # c
    BY <1>2, <1>3, <1>5, <2>2 DEF Seated
  <2> QED
    BY <2>1, <2>2
<1>7. \A i, j \in 1..Len(sl2) : sl2[i] = sl2[j] /\ sl2[i] # NoUser => i = j
  BY <1>3 DEF Seated
<1> QED
  BY <1>3, <1>4, <1>6, <1>7 DEF Seated, Changes

LEMMA SeatedNobody ==
  ASSUME NEW sv, \A d \in Client : sv[d] # "member" PROVE Seated(<<>>, sv)
BY DEF Seated

LEMMA SeatedOther ==
  ASSUME NEW sl, NEW sv, Seated(sl, sv), NEW sv2,
         \A d \in Client : sv2[d] = "member" <=> sv[d] = "member"
  PROVE  Seated(sl, sv2)
BY DEF Seated

LEMMA DropStep ==
  ASSUME RoomInv, NEW c \in Client, NEW down, Drop(c, down),
         down = IF link[c] = "closed" THEN <<>> ELSE Append(toClient[c], Message("EOF")),
         UNCHANGED <<users, me, golf, started, link>>
  PROVE  RoomInv'
<1> DEFINE left == Members \ {c}
           s == [i \in 1..Len(slots) |-> IF slots[i] = c THEN NoUser ELSE slots[i]]
           inf == IF room.started THEN info ELSE ControllerMap(s, info, manual)
           words == Farewell(Pos(slots, c), s, inf)
<1>1. /\ Changes(serving, serving', c, "none") /\ Changes(toServer, toServer', c, <<>>)
      /\ c \notin Members => /\ Changes(toClient, toClient', c, down)
                             /\ UNCHANGED <<slots, room, info>>
      /\ c \in Members /\ left = {} => /\ slots' = <<>> /\ room' = NewRoom /\ info' = info
                                       /\ Changes(toClient, toClient', c, down)
      /\ c \in Members /\ left # {} =>
            /\ slots' = s /\ info' = inf /\ room' = room
            /\ Changes(SendAll(left, words), toClient', c, down)
  BY DEF Drop, CloseRoom, Changes
<1>2. /\ RoomTypes /\ Infos(info) /\ Seated(slots, serving)
      /\ \A d \in Client : Good(d, link[d], serving[d], toServer[d], toClient[d], users[d], me[d],
                                started[d], room.started, slots)
  BY DEF RoomInv, GoodClient
<1>3. /\ IsTable(serving) /\ IsTable(toServer) /\ IsTable(toClient) /\ room \in RoomRecords
      /\ golf \in [Client -> BOOLEAN] /\ started \in [Client -> BOOLEAN]
  BY <1>2 DEF RoomTypes, RoomRecords
<1> HIDE DEF s, inf, words, left
<1>4. /\ IsTable(serving') /\ serving'[c] = "none"
      /\ \A d \in Client \ {c} : serving'[d] = serving[d]
  BY <1>1, <1>3, TableChange
<1>5. /\ IsTable(toServer') /\ toServer'[c] = <<>>
      /\ \A d \in Client \ {c} : toServer'[d] = toServer[d]
  BY <1>1, <1>3, TableChange
<1>6. ASSUME NEW rs, NEW sl
      PROVE  Good(c, link[c], "none", <<>>, down, users[c], me[c], started[c], rs, sl)
  BY <1>2, GoodDropped
<1>7. ASSUME Changes(toClient, toClient', c, down)
      PROVE  /\ IsTable(toClient') /\ toClient'[c] = down
             /\ \A d \in Client \ {c} : toClient'[d] = toClient[d]
  BY <1>3, <1>7, TableChange
<1>8. CASE c \notin Members
  <2>1. toClient'[c] = down /\ IsTable(toClient')
        /\ \A d \in Client \ {c} : toClient'[d] = toClient[d]
    BY <1>1, <1>7, <1>8
  <2>2. GoodClient(c)'
    BY <1>1, <1>4, <1>5, <1>6, <1>8, <2>1 DEF GoodClient
  <2>3. Only(c)
    BY <1>2, <1>4, <1>5, <1>8, <2>1 DEF Only, RoomTypes, Members, IsTable
  <2>4. golf' \in [Client -> BOOLEAN] /\ started' \in [Client -> BOOLEAN]
        /\ \A d \in Client \ {c} : started'[d] = started[d]
    BY <1>3
  <2>5. UNCHANGED <<slots, room, info>>
    BY <1>1, <1>8
  <2> QED
    BY <2>2, <2>3, <2>4, <2>5, OnlyStep
<1>9. CASE c \in Members /\ left = {}
  <2>1. toClient'[c] = down /\ IsTable(toClient')
        /\ \A d \in Client \ {c} : toClient'[d] = toClient[d]
    BY <1>1, <1>7, <1>9
  <2>2. \A d \in Client : serving'[d] # "member"
    BY <1>4, <1>9 DEF Members, left
  <2>3. slots' = <<>> /\ room' = NewRoom /\ info' = info
    BY <1>1, <1>9
  <2>4. Seated(slots', serving')
    BY <2>2, <2>3, SeatedNobody
  <2>5. room' \in RoomRecords
    BY <2>3, LagAssumption DEF NewRoom, RoomRecords
  <2>6. ASSUME NEW d \in Client PROVE GoodClient(d)'
    <3> DEFINE rs == room'.started
               sl == slots'
    <3> HIDE DEF rs, sl
    <3>1. CASE d = c
      <4>1. Good(c, link[c], "none", <<>>, down, users[c], me[c], started[c], rs, sl)
        BY <1>6
      <4> QED
        BY <1>4, <1>5, <2>1, <3>1, <4>1 DEF GoodClient, rs, sl
    <3>2. CASE d # c
      <4>1. serving[d] # "member" /\ serving'[d] = serving[d]
        BY <1>4, <2>2, <3>2
      <4>2. Good(d, link[d], serving[d], toServer[d], toClient[d], users[d], me[d], started[d],
                 rs, sl)
        BY <1>2, <4>1, GoodElsewhere
      <4> QED
        BY <1>5, <2>1, <3>2, <4>1, <4>2 DEF GoodClient, rs, sl
    <3> QED
      BY <3>1, <3>2
  <2> QED
    BY <1>2, <1>4, <1>5, <2>1, <2>3, <2>4, <2>5, <2>6, MembersStep
<1>10. CASE c \in Members /\ left # {}
  <2>1. slots' = s /\ info' = inf /\ room' = room
    BY <1>1, <1>10
  <2>2. IsTable(SendAll(left, words))
    BY DEF SendAll, IsTable
  <2>3. /\ IsTable(toClient') /\ toClient'[c] = down
        /\ \A d \in Client \ {c} : toClient'[d] = SendAll(left, words)[d]
    <3> DEFINE f == SendAll(left, words)
    <3>1. IsTable(f) /\ Changes(f, toClient', c, down)
      BY <1>1, <1>10, <2>2
    <3> HIDE DEF f
    <3>2. /\ IsTable(toClient') /\ toClient'[c] = down
          /\ \A d \in Client \ {c} : toClient'[d] = f[d]
      BY <3>1, TableChange
    <3> QED
      BY <3>2 DEF f
  <2>4. serving[c] = "member"
    BY <1>10 DEF Members
  <2>5. Seated(s, serving') /\ Len(s) = Len(slots)
    BY <1>1, <1>2, <1>3, <2>4, SeatedWithout DEF s
  <2>6. Changes(slots, s, Pos(slots, c), NoUser)
    BY <1>1, <1>2, <1>3, <2>4, SeatedWithout DEF s
  <2>7. Infos(inf)
    <3>1. s \in Seq(Slot)
      BY <2>5 DEF Seated
    <3> QED
      BY <1>2, <3>1, InfosMapped DEF inf
  <2>8. Present(slots, Pos(slots, c)) /\ slots[Pos(slots, c)] = c /\ slots \in Seq(Slot)
    BY <1>2, <2>4, PosParts DEF Seated
  <2>9. ASSUME NEW d \in Client, d # c
        PROVE  /\ s \in Seq(Slot) /\ Reads(d, slots, words, s)
               /\ IsChannel(words) /\ ~Has(words, "ACCEPT") /\ ~Has(words, "START")
    <3>1. room.started \in BOOLEAN
      BY <1>3 DEF RoomRecords
    <3> DEFINE i == Pos(slots, c)
    <3>2. Present(slots, i) /\ slots[i] # d /\ slots \in Seq(Slot)
          /\ s = [slots EXCEPT ![i] = NoUser] /\ words = Farewell(i, s, inf)
      BY <2>6, <2>8, <2>9 DEF words, Changes
    <3> HIDE DEF i
    <3> QED
      BY <2>7, <3>1, <3>2, FarewellParts
  <2>10. ASSUME NEW d \in Client PROVE GoodClient(d)'
    <3> DEFINE rs == room.started
    <3> HIDE DEF rs
    <3>1. CASE d = c
      <4>1. Good(c, link[c], "none", <<>>, down, users[c], me[c], started[c], rs, s)
        BY <1>6
      <4> QED
        BY <1>4, <1>5, <2>1, <2>3, <3>1, <4>1 DEF GoodClient, rs
    <3>2. CASE d # c /\ serving[d] # "member"
      <4>1. toClient'[d] = toClient[d]
        BY <2>3, <3>2 DEF SendAll, left, Members
      <4>2. Good(d, link[d], serving[d], toServer[d], toClient[d], users[d], me[d], started[d],
                 rs, s)
        BY <1>2, <3>2, GoodElsewhere
      <4> QED
        BY <1>4, <1>5, <2>1, <3>2, <4>1, <4>2 DEF GoodClient, rs
    <3>3. CASE d # c /\ serving[d] = "member"
      <4>1. toClient'[d] = toClient[d] \o words
        BY <2>3, <3>3 DEF SendAll, left, Members
      <4>2. Good(d, link[d], "member", toServer[d], toClient[d], users[d], me[d], started[d],
                 rs, slots)
        BY <1>2, <3>3 DEF rs
      <4>3. \A j \in 1..Len(slots) : slots[j] = d => j \in 1..Len(s) /\ s[j] = d
        BY <2>5, <3>3 DEF s
      <4>4. /\ s \in Seq(Slot) /\ Reads(d, slots, words, s)
            /\ IsChannel(words) /\ ~Has(words, "ACCEPT") /\ ~Has(words, "START")
        BY <2>9, <3>3
      <4>5. Good(d, link[d], "member", toServer[d], toClient[d] \o words, users[d], me[d],
                 started[d], rs, s)
        BY <4>2, <4>3, <4>4, GoodTold
      <4> QED
        BY <1>4, <1>5, <2>1, <3>3, <4>1, <4>5 DEF GoodClient, rs
    <3> QED
      BY <3>1, <3>2, <3>3
  <2> QED
    BY <1>2, <1>3, <1>4, <1>5, <2>1, <2>3, <2>5, <2>7, <2>10, MembersStep
<1> QED
  BY <1>8, <1>9, <1>10

LEMMA ServerEofStep ==
  ASSUME RoomInv, NEW c \in Client, ServerEof(c) PROVE RoomInv'
<1>1. /\ toServer[c] # <<>> /\ Head(toServer[c]).type = "EOF" /\ Drop(c, <<>>)
      /\ UNCHANGED <<users, me, golf, started, link>>
  BY DEF ServerEof, clientVars
<1>2. /\ IsChannel(toServer[c]) /\ (Has(toServer[c], "EOF") => link[c] = "closed")
  BY DEF RoomInv, GoodClient, Good, Session, AllSane
<1>3. link[c] = "closed"
  BY <1>1, <1>2, HasTail
<1> DEFINE down == <<>>
<1>4. down = IF link[c] = "closed" THEN <<>> ELSE Append(toClient[c], Message("EOF"))
  BY <1>3
<1>5. Drop(c, down)
  BY <1>1
<1> HIDE DEF down
<1> QED
  BY <1>1, <1>4, <1>5, DropStep

LEMMA HangupStep ==
  ASSUME RoomInv, NEW c \in Client, Drop(c, Hangup(c)),
         UNCHANGED <<users, me, golf, started, link>>
  PROVE  RoomInv'
BY DropStep DEF Hangup

LEMMA ServerNotJoinedStep ==
  ASSUME RoomInv, NEW c \in Client, ServerNotJoined(c) PROVE RoomInv'
<1>1. Drop(c, Hangup(c)) /\ UNCHANGED <<users, me, golf, started, link>>
  BY DEF ServerNotJoined, clientVars
<1> QED
  BY <1>1, HangupStep

-----------------------------------------------------------------------------
(* A user enters the room.                                                  *)

\* The list with c behind all there ever were.
LEMMA SeatedWith ==
  ASSUME NEW sl, NEW sv, Seated(sl, sv), NEW c \in Client, sv[c] # "member",
         NEW sv2, Changes(sv, sv2, c, "member"), IsTable(sv),
         NEW sl2, sl2 = Append(sl, c)
  PROVE  Seated(sl2, sv2)
<1>1. sl \in Seq(Slot) /\ c \in Slot /\ NoUser \notin Client
  BY NoUserAssumption DEF Seated, Slot
<1>3. sl2 \in Seq(Slot)
  BY <1>1
<1>4. Len(sl2) = Len(sl) + 1 /\ Len(sl) \in Nat
  BY <1>1
<1>5. sl2[Len(sl2)] = c /\ \A j \in 1..Len(sl) : sl2[j] = sl[j]
  BY <1>1, <1>4
<1>6. \A d \in Client : sv2[d] = IF d = c THEN "member" ELSE sv[d]
  BY TableChange
<1>7. ASSUME NEW d \in Client
      PROVE  sv2[d] = "member" <=> \E i \in 1..Len(sl2) : sl2[i] = d
  <2>1. CASE d = c
    BY <1>4, <1>5, <1>6, <2>1
  <2>2. CASE d # c
    <3>1. sv2[d] = "member" <=> \E i \in 1..Len(sl) : sl[i] = d
      BY <1>6, <2>2 DEF Seated
    <3>2. \A i \in 1..Len(sl2) : i \in 1..Len(sl) \/ i = Len(sl2)
      BY <1>4
    <3>3. \A i \in 1..Len(sl) : i \in 1..Len(sl2)
      BY <1>4
    <3> QED
      BY <1>5, <2>2, <3>1, <3>2, <3>3
  <2> QED
    BY <2>1, <2>2
<1>8. \A i \in 1..Len(sl) : sl[i] # c
  BY DEF Seated
<1>9. \A i, j \in 1..Len(sl2) : sl2[i] = sl2[j] /\ sl2[i] # NoUser => i = j
  <2>1. \A i \in 1..Len(sl2) : i \in 1..Len(sl) \/ i = Len(sl2)
    BY <1>4
  <2>2. \A i, j \in 1..Len(sl) : sl[i] = sl[j] /\ sl[i] # NoUser => i = j
    BY DEF Seated
  <2> QED
    BY <1>5, <1>8, <2>1, <2>2
<1> QED
  BY <1>3, <1>7, <1>9 DEF Seated

\* The users that a new user c with the record new is sent.
Greeted(sl, c, new, inf) ==
    [i \in 1..Len(sl) |->
        IF sl[i] = NoUser THEN NoUser
        ELSE [(IF sl[i] = c THEN new ELSE inf[sl[i]]) EXCEPT !.inputs = 0]]

LEMMA GreetedUsers ==
  ASSUME NEW inf, Infos(inf), NEW sl \in Seq(Slot), NEW c \in Client,
         NEW new \in UserInfos, new.name = c,
         NEW all, all = Greeted(sl, c, new, inf)
  PROVE  all \in UserList /\ Len(all) = Len(sl) /\ Shape(all) = sl
<1>1. Len(sl) \in Nat /\ NoUser \notin Client /\ NoUser \notin UserInfos
  BY NoUserAssumption
<1>2. ASSUME NEW i \in 1..Len(sl), sl[i] # NoUser
      PROVE  all[i] \in UserInfos /\ all[i].name = sl[i]
  <2> DEFINE r == IF sl[i] = c THEN new ELSE inf[sl[i]]
  <2>1. sl[i] \in Client
    BY <1>1, <1>2 DEF Slot
  <2>2. r \in UserInfos /\ r.name = sl[i]
    BY <2>1 DEF Infos
  <2>3. all[i] = [r EXCEPT !.inputs = 0]
    BY <1>2 DEF Greeted
  <2> HIDE DEF r
  <2>4. [r EXCEPT !.inputs = 0] \in UserInfos /\ [r EXCEPT !.inputs = 0].name = r.name
    BY <2>2 DEF UserInfos
  <2> QED
    BY <2>2, <2>3, <2>4
<1>3. \A i \in 1..Len(sl) : sl[i] = NoUser => all[i] = NoUser
  BY DEF Greeted
<1>4. all = [i \in 1..Len(sl) |-> all[i]]
  BY DEF Greeted
<1> DEFINE S == UserInfos \cup {NoUser}
<1>5. \A i \in 1..Len(sl) : all[i] \in S
  BY <1>2, <1>3
<1> HIDE DEF S
<1>6. all \in Seq(S) /\ Len(all) = Len(sl)
  BY <1>1, <1>4, <1>5, SequenceOf
<1>7. \A i \in 1..Len(sl) : (IF all[i] = NoUser THEN NoUser ELSE all[i].name) = sl[i]
  BY <1>1, <1>2, <1>3
<1>8. sl = [i \in 1..Len(sl) |-> sl[i]]
  OBVIOUS
<1>9. Shape(all) = sl
  BY <1>6, <1>7, <1>8 DEF Shape
<1> QED
  BY <1>6, <1>9 DEF UserList, S

LEMMA EnterRoomStep ==
  ASSUME RoomInv, NEW c \in Client, NEW other, EnterRoom(c, other), serving[c] = "query",
         UNCHANGED <<users, me, golf, started, link>>
  PROVE  RoomInv'
<1>1. CASE Refuses(other)
  <2>1. Drop(c, Hangup(c))
    BY <1>1 DEF EnterRoom, Refuse
  <2> QED
    BY <2>1, HangupStep
<1>2. CASE ~Refuses(other)
  <2> DEFINE s == Append(slots, c)
             new == [info[c] EXCEPT !.authority = Len(s)]
             mine == [new EXCEPT !.lag = room.lag]
             inf0 == [info EXCEPT ![c] = mine]
             inf == ControllerMap(s, inf0, manual)
             all == Greeted(s, c, new, info)
             common == <<Lag(room.lag, {Len(s)}), Controllers(s, inf)>>
             on == room.golf \/ GolfRom
             news == Announcement(new, common)
             hello == Greeting(all, common, on)
             f == SendAll(Members, news)
  <2>1. /\ slots' = s /\ info' = inf /\ room' = [room EXCEPT !.golf = on]
        /\ Changes(serving, serving', c, "member") /\ UNCHANGED toServer
        /\ Changes(f, toClient', c, f[c] \o hello)
    BY <1>2 DEF EnterRoom, Entered, Changes, Greeted
  <2>2. /\ RoomTypes /\ Infos(info) /\ Seated(slots, serving)
        /\ \A d \in Client : Good(d, link[d], serving[d], toServer[d], toClient[d], users[d], me[d],
                                  started[d], room.started, slots)
    BY DEF RoomInv, GoodClient
  <2>3. /\ IsTable(serving) /\ IsTable(toServer) /\ IsTable(toClient) /\ room \in RoomRecords
    BY <2>2 DEF RoomTypes, RoomRecords
  <2>4. room.started = FALSE /\ room.lag \in Nat /\ on \in BOOLEAN
    BY <1>2, <2>3, GolfRomAssumption DEF Refuses, RoomRecords
  <2>5. room' \in RoomRecords /\ room'.started = room.started
    BY <2>1, <2>3, <2>4 DEF RoomRecords
  <2>6. serving[c] # "member"
    OBVIOUS
  <2>7. /\ Seated(s, serving') /\ Len(s) = Len(slots) + 1 /\ Len(slots) \in Nat
        /\ s[Len(s)] = c /\ Present(s, Len(s)) /\ \A j \in 1..Len(slots) : s[j] = slots[j]
    <3>1. s = Append(slots, c)
      OBVIOUS
    <3>2. Changes(serving, serving', c, "member") /\ IsTable(serving) /\ Seated(slots, serving)
      BY <2>1, <2>2, <2>3
    <3> HIDE DEF s, f, hello
    <3>3. Seated(s, serving')
      BY <2>6, <3>1, <3>2, SeatedWith
    <3>4. /\ Len(s) = Len(slots) + 1 /\ Len(slots) \in Nat
          /\ s[Len(s)] = c /\ Present(s, Len(s)) /\ \A j \in 1..Len(slots) : s[j] = slots[j]
      <4>1. slots \in Seq(Slot) /\ NoUser \notin Client
        BY <3>2, NoUserAssumption DEF Seated
      <4>2. Len(s) = Len(slots) + 1 /\ Len(slots) \in Nat
        BY <3>1, <4>1
      <4>3. s[Len(s)] = c /\ \A j \in 1..Len(slots) : s[j] = slots[j]
        BY <3>1, <4>1, <4>2
      <4> QED
        BY <4>1, <4>2, <4>3 DEF Present
    <3> QED
      BY <3>3, <3>4
  <2>8. s \in Seq(Slot) /\ slots \in Seq(Slot)
    BY <2>2, <2>7 DEF Seated
  <2>9. info[c] \in UserInfos /\ info[c].name = c
    BY <2>2 DEF Infos
  <2>10. new \in UserInfos /\ new.name = c /\ new.authority = Len(slots) + 1
    <3> DEFINE n == Len(s)
    <3>1. n \in Nat
      BY <2>7
    <3> HIDE DEF n, s
    <3>2. [info[c] EXCEPT !.authority = n] \in UserInfos
          /\ [info[c] EXCEPT !.authority = n].name = c
          /\ [info[c] EXCEPT !.authority = n].authority = n
      BY <2>9, <3>1 DEF UserInfos
    <3> QED
      BY <2>7, <3>2 DEF n, s
  <2>11. Infos(inf)
    <3> HIDE DEF new
    <3>1. mine \in UserInfos /\ mine.name = c
      BY <2>4, <2>10 DEF UserInfos
    <3> HIDE DEF mine
    <3>2. Infos(inf0)
      BY <2>2, <3>1, InfosChange
    <3> HIDE DEF inf0, s
    <3> QED
      BY <2>8, <3>2, InfosMapped
  <2>12. all \in UserList /\ Len(all) = Len(s) /\ Shape(all) = s
    <3> HIDE DEF new, s
    <3>1. all = Greeted(s, c, new, info)
      OBVIOUS
    <3> HIDE DEF all
    <3> QED
      BY <2>2, <2>8, <2>10, <3>1, GreetedUsers
  <2> HIDE DEF s, new, mine, inf0, inf, all, on, news, hello, f
  <2>13. ASSUME NEW d PROVE Keeps(d, s, common)
    <3> DEFINE lag == room.lag
               ids == {Len(s)}
               a == <<Lag(lag, ids)>>
               b == <<Controllers(s, inf)>>
    <3>1. \A i \in ids : Present(s, i)
      BY <2>7
    <3>2. lag \in Nat
      BY <2>4
    <3>3. common = a \o b
      <4> DEFINE x == Lag(lag, ids)
                 y == Controllers(s, inf)
      <4>1. common = <<x, y>> /\ a = <<x>> /\ b = <<y>>
        OBVIOUS
      <4> HIDE DEF x, y, a, b, common
      <4> QED
        BY <4>1, PairConcat
    <3> HIDE DEF lag, ids
    <3>4. Keeps(d, s, a) /\ Keeps(d, s, b)
      BY <2>8, <2>11, <3>1, <3>2, KeepsLag, KeepsControllers
    <3> HIDE DEF a, b, common
    <3> QED
      BY <3>3, <3>4, KeepsConcat
  <2> HIDE DEF common
  <2>14. ASSUME NEW d
         PROVE  /\ Reads(d, slots, news, s)
                /\ IsChannel(news) /\ ~Has(news, "ACCEPT") /\ ~Has(news, "START")
    <3>1. s = Append(slots, new.name)
      BY <2>10 DEF s
    <3> QED
      BY <2>8, <2>10, <2>13, <3>1, AnnouncementParts DEF news
  <2>15. /\ IsChannel(hello) /\ ~Has(hello, "START") /\ Has(hello, "ACCEPT")
         /\ \A sh \in Seq(Slot) : Reads(c, sh, hello, s)
         /\ \A k \in 1..Len(hello) : hello[k].type = "ACCEPT" =>
              Len(hello[k].users) \in 1..Len(s) /\ s[Len(hello[k].users)] = c
    <3>1. all # <<>>
      BY <2>7, <2>12
    <3>2. s = Shape(all) /\ s[Len(all)] = c /\ Keeps(c, s, common)
      BY <2>7, <2>12, <2>13
    <3>3. hello = Greeting(all, common, on) /\ on \in BOOLEAN /\ all \in UserList
      BY <2>4, <2>12 DEF hello
    <3> QED
      BY <3>1, <3>2, <3>3, GreetingParts
  <2>16. /\ IsTable(toClient') /\ toClient'[c] = toClient[c] \o hello
         /\ \A d \in Client \ {c} : toClient'[d] = f[d]
    <3> DEFINE x == f[c] \o hello
    <3>1. IsTable(f) /\ Changes(f, toClient', c, x)
      BY <2>1 DEF SendAll, IsTable, f
    <3>2. f[c] = toClient[c]
      BY DEF SendAll, f, Members
    <3> HIDE DEF x
    <3>3. /\ IsTable(toClient') /\ toClient'[c] = x
          /\ \A d \in Client \ {c} : toClient'[d] = f[d]
      BY <3>1, TableChange
    <3> QED
      BY <3>2, <3>3 DEF x
  <2>17. /\ IsTable(serving') /\ serving'[c] = "member"
         /\ \A d \in Client \ {c} : serving'[d] = serving[d]
    BY <2>1, <2>3, TableChange
  <2>18. ASSUME NEW d \in Client PROVE GoodClient(d)'
    <3>1. slots' = s /\ room'.started = room.started /\ toServer'[d] = toServer[d]
      BY <2>1, <2>5
    <3> DEFINE rs == room.started
    <3>2. Good(d, link[d], serving[d], toServer[d], toClient[d], users[d], me[d], started[d],
               rs, slots)
      BY <2>2
    <3> HIDE DEF rs
    <3>3. CASE d = c
      <4>1. Good(c, link[c], "query", toServer[c], toClient[c], users[c], me[c], started[c],
                 FALSE, slots)
        BY <2>4, <3>2, <3>3 DEF rs
      <4>2. Good(c, link[c], "member", toServer[c], toClient[c] \o hello, users[c], me[c],
                 started[c], FALSE, s)
        BY <2>8, <2>15, <4>1, GoodEnter
      <4> QED
        BY <2>4, <2>16, <2>17, <3>1, <3>3, <4>2 DEF GoodClient
    <3>4. CASE d # c /\ serving[d] # "member"
      <4>1. toClient'[d] = toClient[d]
        BY <2>16, <3>4 DEF SendAll, f, Members
      <4>2. Good(d, link[d], serving[d], toServer[d], toClient[d], users[d], me[d], started[d],
                 rs, s)
        BY <3>2, <3>4, GoodElsewhere
      <4> QED
        BY <2>17, <3>1, <3>4, <4>1, <4>2 DEF GoodClient, rs
    <3>5. CASE d # c /\ serving[d] = "member"
      <4>1. toClient'[d] = toClient[d] \o news
        BY <2>16, <3>5 DEF SendAll, f, Members
      <4>2. Good(d, link[d], "member", toServer[d], toClient[d], users[d], me[d], started[d],
                 rs, slots)
        BY <3>2, <3>5
      <4>3. \A j \in 1..Len(slots) : slots[j] = d => j \in 1..Len(s) /\ s[j] = d
        BY <2>7
      <4>4. Good(d, link[d], "member", toServer[d], toClient[d] \o news, users[d], me[d],
                 started[d], rs, s)
        BY <2>8, <2>14, <4>2, <4>3, GoodTold
      <4> QED
        BY <2>17, <3>1, <3>5, <4>1, <4>4 DEF GoodClient, rs
    <3> QED
      BY <3>3, <3>4, <3>5
  <2>19. /\ slots' = s /\ info' = inf /\ IsTable(toServer')
         /\ Seated(slots', serving') /\ Infos(info')
    BY <2>1, <2>3, <2>7, <2>11
  <2> QED
    BY <2>5, <2>16, <2>17, <2>18, <2>19, MembersStep
<1> QED
  BY <1>1, <1>2

LEMMA JoinRoomStep ==
  ASSUME RoomInv, NEW c \in Client, JoinRoom(c) PROVE RoomInv'
<1>1. PICK other : EnterRoom(c, other)
  BY DEF JoinRoom
<1>2. serving[c] = "query" /\ UNCHANGED <<users, me, golf, started, link>>
  BY DEF JoinRoom, clientVars
<1> QED
  BY <1>1, <1>2, EnterRoomStep

-----------------------------------------------------------------------------
(* Every step keeps the invariant.                                          *)

LEMMA LeaveStep ==
  ASSUME RoomInv, NEW c \in Client, Leave(c) PROVE RoomInv'
<1>1. CloseClient(c) /\ UNCHANGED <<slots, room, info, serving>>
  BY DEF Leave, serverVars
<1> QED
  BY <1>1, CloseStep

LEMMA ReceiveEofStep ==
  ASSUME RoomInv, NEW c \in Client, ReceiveEof(c) PROVE RoomInv'
<1>1. CloseClient(c) /\ UNCHANGED <<slots, room, info, serving>>
  BY DEF ReceiveEof, serverVars
<1> QED
  BY <1>1, CloseStep

LEMMA CommandStep ==
  ASSUME RoomInv, NEW c \in Client, Command(c) PROVE RoomInv'
BY LagCommandStep, AutolagCommandStep, GolfCommandStep, MapCommandStep, AuthCommandStep,
   NameCommandStep, PlugControllersStep, StartCommandStep, StartAloneStep, LeaveStep
   DEF Command

LEMMA ReceivesStep ==
  ASSUME RoomInv, NEW c \in Client, Receive(c) PROVE RoomInv'
BY ReceiveEofStep, ReceiveViewStep, ReceiveAcceptStep, ReceiveQuitStep, ReceiveStartStep,
   ReceiveGolfStep, ReceiveInputStep, ReceiveAuthorityStep DEF Receive

LEMMA ServeStep ==
  ASSUME RoomInv, NEW c \in Client, Serve(c) PROVE RoomInv'
<1>1. CASE ServerAuthority(c, "REQUEST_AUTHORITY")
  <2> DEFINE type == "REQUEST_AUTHORITY"
  <2>1. type \in {"REQUEST_AUTHORITY", "DELEGATE_AUTHORITY"} /\ ServerAuthority(c, type)
    BY <1>1
  <2> HIDE DEF type
  <2> QED
    BY <2>1, ServerAuthorityStep
<1>2. CASE ServerAuthority(c, "DELEGATE_AUTHORITY")
  <2> DEFINE type == "DELEGATE_AUTHORITY"
  <2>1. type \in {"REQUEST_AUTHORITY", "DELEGATE_AUTHORITY"} /\ ServerAuthority(c, type)
    BY <1>2
  <2> HIDE DEF type
  <2> QED
    BY <2>1, ServerAuthorityStep
<1> QED
  BY <1>1, <1>2, ServerEofStep, ServerNotJoinedStep, ServerJoinStep, ServerLagStep,
     ServerAutolagStep, ServerControllersStep, ServerStartStep, ServerGolfStep, ServerMapStep,
     ServerNameStep, ServerInputStep DEF Serve

LEMMA RoomInvNext == RoomInv /\ [Next]_vars => RoomInv'
<1> SUFFICES ASSUME RoomInv, [Next]_vars PROVE RoomInv'
  OBVIOUS
<1>1. ASSUME NEW c \in Client,
             Connect(c) \/ SendJoin(c) \/ Command(c) \/ Receive(c) \/ Serve(c) \/ JoinRoom(c)
      PROVE  RoomInv'
  BY <1>1, ConnectStep, SendJoinStep, CommandStep, ReceivesStep, ServeStep, JoinRoomStep
<1>2. CASE Tick
  BY <1>2, TickStep
<1>3. CASE UNCHANGED vars
  BY <1>3 DEF vars, RoomInv, RoomTypes, GoodClient, Seated, Infos
<1> QED
  BY <1>1, <1>2, <1>3 DEF Next

THEOREM RoomInvAlways == Spec => []RoomInv
<1>1. RoomInv /\ [Next]_vars => RoomInv'
  BY RoomInvNext
<1> QED
  BY <1>1, RoomInvInit, PTL DEF Spec

-----------------------------------------------------------------------------
(* What follows from it.                                                    *)

\* Whoever has asked to join is a member, is being served, or will see the
\* connection closed: server::accept, room::on_user_join and user::close never
\* leave a client waiting for an answer that does not come.
THEOREM JoinAnsweredAlways == Spec => []JoinAnswered
<1>1. RoomInv => JoinAnswered
  BY DEF RoomInv, GoodClient, Good, Session, JoinAnswered, Pending, Announced, Has
<1> QED
  BY <1>1, RoomInvAlways, PTL

\* A game starts for all members of a room or for none, and a member starts
\* only with its room: room::on_user_join turns away whoever comes after the
\* START that room::on_game_start sends to everybody.
THEOREM StartedTogetherAlways == Spec => []StartedTogether
<1>1. RoomInv => StartedTogether
  <2> SUFFICES ASSUME RoomInv, NEW c \in Listed
               PROVE  room.started <=> (started[c] \/ Announced(c, "START"))
    BY DEF StartedTogether
  <2>1. c \in Client /\ serving[c] = "member" /\ link[c] # "closed"
    BY DEF Listed, Members
  <2>2. Session(link[c], serving[c], toServer[c], toClient[c], started[c], room.started)
    BY <2>1 DEF RoomInv, GoodClient, Good
  <2> QED
    BY <2>1, <2>2 DEF Session, Announced, Has
<1> QED
  BY <1>1, RoomInvAlways, PTL

\* No message names a user that its handler would not find in user_map: the
\* LAG, NAME and QUIT cases of client::on_receive use the pointer untested.
THEOREM NamedUsersPresentAlways == Spec => []NamedUsersPresent
<1>1. RoomInv => NamedUsersPresent
  <2> DEFINE types == {"LAG", "NAME", "QUIT", "INPUT_MAP"}
  <2> SUFFICES ASSUME RoomInv, NEW c \in Listed, Receives(c, types),
                      NEW i \in NamedBy(Head(toClient[c]))
               PROVE  Present(users[c], i)
    BY DEF NamedUsersPresent
  <2> DEFINE m == Head(toClient[c])
  <2>1. c \in Client
    BY DEF Listed, Members
  <2>2. "EOF" \notin types
    OBVIOUS
  <2>3. m = Head(toClient[c])
    OBVIOUS
  <2>4. i \in NamedBy(m)
    OBVIOUS
  <2> HIDE DEF types, m
  <2>5. Fits(c, Shape(users[c]), m) /\ m.type \in types
    BY <2>1, <2>2, <2>3, HeadParts
  <2>6. Present(Shape(users[c]), i)
    BY <2>4, <2>5 DEF Fits, NamedBy, types
  <2>7. users[c] \in UserList
    BY <2>1, OwnParts
  <2> QED
    BY <2>6, <2>7, ShapeParts
<1> QED
  BY <1>1, RoomInvAlways, PTL

\* The records of CONTROLLERS and LATENCY, which client::on_receive gives out by
\* position, are read by a client whose list has the users that they were
\* written for, in that order.
THEOREM PositionsMatchAlways == Spec => []PositionsMatch
<1>1. RoomInv => PositionsMatch
  <2> DEFINE types == {"CONTROLLERS", "LATENCY"}
  <2> DEFINE m(c) == Head(toClient[c])
  <2> SUFFICES ASSUME RoomInv, NEW c \in Listed, Receives(c, types)
               PROVE  /\ Len(users[c]) = Len(m(c).list)
                      /\ \A i \in 1..Len(m(c).list) :
                            IF m(c).list[i] = NoUser THEN users[c][i] = NoUser
                            ELSE users[c][i] # NoUser /\ users[c][i].name = m(c).list[i]
    BY DEF PositionsMatch
  <2>1. c \in Client
    BY DEF Listed, Members
  <2>2. "EOF" \notin types
    OBVIOUS
  <2>3. m(c) = Head(toClient[c])
    OBVIOUS
  <2> HIDE DEF types, m
  <2>4. Fits(c, Shape(users[c]), m(c)) /\ m(c).type \in types
    BY <2>1, <2>2, <2>3, HeadParts
  <2>5. m(c).list = Shape(users[c])
    BY <2>4 DEF Fits, types
  <2>6. users[c] \in UserList
    BY <2>1, OwnParts
  <2> QED
    BY <2>5, <2>6, ShapeParts, ListParts DEF Present
<1> QED
  BY <1>1, RoomInvAlways, PTL

-----------------------------------------------------------------------------
(* The list that a client ends with.                                        *)

\* f has the lists that us becomes, one message of t after another, up to the
\* n-th.
Lists(f, us, t, n) ==
    f = [k \in 0..n |-> IF k = 0 THEN us ELSE Apply(f[k - 1], t[k])]

LEMMA ListsExist ==
  ASSUME NEW us, NEW t
  PROVE  \A n \in Nat : \E f : Lists(f, us, t, n)
<1> DEFINE S == {n \in Nat : \E f : Lists(f, us, t, n)}
<1>1. 0 \in S
  <2> DEFINE f == [k \in 0..0 |-> us]
  <2>1. f = [k \in 0..0 |-> IF k = 0 THEN us ELSE Apply(f[k - 1], t[k])]
    OBVIOUS
  <2> HIDE DEF f
  <2>2. Lists(f, us, t, 0)
    BY <2>1 DEF Lists
  <2> QED
    BY <2>2
<1>2. ASSUME NEW n \in Nat, n \in S PROVE n + 1 \in S
  <2>1. PICK f : Lists(f, us, t, n)
    BY <1>2
  <2> DEFINE g == [k \in 0..n + 1 |-> IF k = n + 1 THEN Apply(f[n], t[n + 1]) ELSE f[k]]
  <2>2. ASSUME NEW k \in 0..n + 1
        PROVE  g[k] = IF k = 0 THEN us ELSE Apply(g[k - 1], t[k])
    <3>1. CASE k = 0
      BY <2>1, <3>1 DEF Lists
    <3>2. CASE k = n + 1
      BY <3>2
    <3>3. CASE k \in 1..n
      <4>1. g[k] = f[k] /\ g[k - 1] = f[k - 1]
        BY <3>3
      <4> HIDE DEF g
      <4> QED
        BY <2>1, <3>3, <4>1 DEF Lists
    <3> QED
      BY <3>1, <3>2, <3>3
  <2>3. g = [k \in 0..n + 1 |-> g[k]]
    OBVIOUS
  <2> HIDE DEF g
  <2>4. g = [k \in 0..n + 1 |-> IF k = 0 THEN us ELSE Apply(g[k - 1], t[k])]
    BY <2>2, <2>3
  <2>5. Lists(g, us, t, n + 1)
    BY <2>4 DEF Lists
  <2> QED
    BY <2>5
<1> HIDE DEF S
<1>3. \A n \in Nat : n \in S
  BY <1>1, <1>2, Induction
<1> QED
  BY <1>3 DEF S

LEMMA ViewParts ==
  ASSUME NEW c, Len(toClient[c]) \in Nat
  PROVE  \E f : Lists(f, users[c], toClient[c], Len(toClient[c])) /\ View(c) = f[Len(toClient[c])]
<1> DEFINE L == Len(toClient[c])
           f == CHOOSE g : g = [k \in 0..L |-> IF k = 0 THEN users[c]
                                               ELSE Apply(g[k - 1], toClient[c][k])]
<1>1. View(c) = f[L]
  BY DEF View
<1>2. \E g : g = [k \in 0..L |-> IF k = 0 THEN users[c] ELSE Apply(g[k - 1], toClient[c][k])]
  <2>1. \E g : Lists(g, users[c], toClient[c], L)
    BY ListsExist
  <2> QED
    BY <2>1 DEF Lists
<1>3. f = [k \in 0..L |-> IF k = 0 THEN users[c] ELSE Apply(f[k - 1], toClient[c][k])]
  BY <1>2
<1> HIDE DEF f
<1> QED
  BY <1>1, <1>3 DEF Lists

\* The lists f, from us to one of shape e, are such that c can handle each
\* message of t with the one before it.
Through(c, f, us, t, e) ==
    /\ \A k \in 0..Len(t) : f[k] \in UserList
    /\ \A k \in 1..Len(t) : f[k] = Apply(f[k - 1], t[k]) /\ Fits(c, Shape(f[k - 1]), t[k])
    /\ f[0] = us /\ Shape(f[Len(t)]) = e

\* What is on its way makes the list what Reads says.
LEMMA ListsRead ==
  ASSUME NEW c, NEW us \in UserList, NEW t, Len(t) \in Nat, NEW e, Reads(c, Shape(us), t, e),
         NEW f, Lists(f, us, t, Len(t))
  PROVE  Through(c, f, us, t, e)
<1>1. PICK h \in [0..Len(t) -> Seq(Slot)] :
        /\ h[0] = Shape(us) /\ h[Len(t)] = e
        /\ \A k \in 1..Len(t) : h[k] = Place(h[k - 1], t[k]) /\ Fits(c, h[k - 1], t[k])
  BY DEF Reads
<1> DEFINE S == {k \in Nat : k <= Len(t) => f[k] \in UserList /\ Shape(f[k]) = h[k]}
<1>2. 0 \in S
  BY <1>1 DEF Lists
<1>3. ASSUME NEW n \in Nat, n \in S PROVE n + 1 \in S
  <2> SUFFICES ASSUME n + 1 <= Len(t) PROVE f[n + 1] \in UserList /\ Shape(f[n + 1]) = h[n + 1]
    BY DEF S
  <2>1. f[n] \in UserList /\ Shape(f[n]) = h[n]
    BY <1>3
  <2>2. n + 1 \in 1..Len(t) /\ (n + 1) - 1 = n
    OBVIOUS
  <2>3. h[n + 1] = Place(h[n], t[n + 1]) /\ Fits(c, h[n], t[n + 1])
    BY <1>1, <2>2
  <2>4. f[n + 1] = Apply(f[n], t[n + 1])
    BY <2>2 DEF Lists
  <2> QED
    BY <2>1, <2>3, <2>4, ApplyShape
<1> HIDE DEF S
<1>4. \A n \in Nat : n \in S
  BY <1>2, <1>3, Induction
<1>5. \A k \in 0..Len(t) : f[k] \in UserList /\ Shape(f[k]) = h[k]
  BY <1>4 DEF S
<1>6. f[0] = us /\ Shape(f[Len(t)]) = e
  BY <1>1, <1>5 DEF Lists
<1>7. ASSUME NEW k \in 1..Len(t)
      PROVE  f[k] = Apply(f[k - 1], t[k]) /\ Fits(c, Shape(f[k - 1]), t[k])
  <2>1. k \in 0..Len(t) /\ k - 1 \in 0..Len(t) /\ k # 0
    OBVIOUS
  <2>2. f[k] = Apply(f[k - 1], t[k])
    BY <2>1 DEF Lists
  <2> QED
    BY <1>1, <1>5, <2>1, <2>2
<1> QED
  BY <1>5, <1>6, <1>7 DEF Through

\* Once it has handled what is on its way, every member's user_map has the
\* room's users in the room's places, and me is the member itself: the ids of
\* room::on_user_join and of client::on_receive mean the same.
THEOREM UserMapsAgreeAlways == Spec => []UserMapsAgree
<1>1. RoomInv => UserMapsAgree
  <2> SUFFICES ASSUME RoomInv, NEW c \in Listed
               PROVE  /\ Len(View(c)) = Len(slots)
                      /\ \A i \in 1..Len(View(c)) :
                            IF slots[i] = NoUser THEN View(c)[i] = NoUser
                            ELSE View(c)[i].name = slots[i]
                      /\ me[c] = Pos(slots, c) \/ Announced(c, "ACCEPT")
    BY DEF UserMapsAgree
  <2>1. c \in Client /\ serving[c] = "member" /\ link[c] # "closed"
    BY DEF Listed, Members
  <2>2. /\ IsChannel(toClient[c]) /\ Seated(slots, serving)
        /\ Copy(c, link[c], serving[c], toClient[c], users[c], me[c], slots)
    BY <2>1 DEF RoomInv, GoodClient, Good
  <2>3. /\ users[c] \in UserList /\ Reads(c, Shape(users[c]), toClient[c], slots)
        /\ (me[c] \in 1..Len(slots) /\ slots[me[c]] = c) \/ Has(toClient[c], "ACCEPT")
    BY <2>1, <2>2 DEF Copy
  <2>4. Len(toClient[c]) \in Nat
    BY <2>2, ChannelParts
  <2>5. PICK f : Lists(f, users[c], toClient[c], Len(toClient[c]))
                 /\ View(c) = f[Len(toClient[c])]
    BY <2>4, ViewParts
  <2>6. View(c) \in UserList /\ Shape(View(c)) = slots
    <3>1. Len(toClient[c]) \in 0..Len(toClient[c])
      BY <2>4
    <3>2. Through(c, f, users[c], toClient[c], slots)
      BY <2>3, <2>4, <2>5, ListsRead
    <3> QED
      BY <2>5, <3>1, <3>2 DEF Through
  <2> DEFINE v == View(c)
  <2> HIDE DEF v
  <2>7. v \in UserList /\ Shape(v) = slots
    BY <2>6 DEF v
  <2>8. /\ Len(Shape(v)) = Len(v) /\ Len(v) \in Nat
        /\ \A i : Present(v, i) <=> Present(Shape(v), i)
        /\ \A i : Present(v, i) => v[i].name = Shape(v)[i]
        /\ \A i \in 1..Len(v) : v[i] = NoUser <=> Shape(v)[i] = NoUser
    BY <2>7, ShapeParts, ListParts
  <2>9. /\ Len(v) = Len(slots)
        /\ \A i \in 1..Len(v) : IF slots[i] = NoUser THEN v[i] = NoUser ELSE v[i].name = slots[i]
    BY <2>7, <2>8 DEF Present
  <2>10. me[c] = Pos(slots, c) \/ Announced(c, "ACCEPT")
    <3>1. CASE Has(toClient[c], "ACCEPT")
      BY <3>1 DEF Has, Announced
    <3>2. CASE me[c] \in 1..Len(slots) /\ slots[me[c]] = c
      BY <2>1, <2>2, <3>2, PosParts
    <3> QED
      BY <2>3, <3>1, <3>2
  <2> QED
    BY <2>9, <2>10 DEF v
<1> QED
  BY <1>1, RoomInvAlways, PTL

-----------------------------------------------------------------------------
(* What a client ends with: some f, which is the lag, the map or the        *)
(* plugged controllers of the user at position i, or the golf flag.         *)

Fields == {"lag", "map", "plugged"}
Of(r, f) == IF f = "lag" THEN r.lag ELSE IF f = "map" THEN r.map ELSE r.plugged

\* How many users a list has up to position i.
Rank(us, i) == Cardinality({j \in 1..i : us[j] # NoUser})

\* Whoever handles m has from it what f is.
Says(m, f, i) ==
    \/ f = "golf" /\ m.type = "GOLF"
    \/ f \in Fields /\ m.type = "ACCEPT" /\ Present(m.users, i)
    \/ f \in Fields /\ m.type = "JOIN" /\ m.info.authority = i
    \/ f = "lag" /\ m.type = "LAG" /\ i \in m.ids
    \/ f = "map" /\ m.type = "INPUT_MAP" /\ m.user = i
    \/ f \in {"map", "plugged"} /\ m.type = "CONTROLLERS" /\ Present(m.list, i)

Said(m, f, i) ==
    CASE m.type = "ACCEPT" -> Of(m.users[i], f)
      [] m.type = "JOIN" -> Of(m.info, f)
      [] m.type = "LAG" -> m.lag
      [] m.type = "INPUT_MAP" -> m.map
      [] m.type = "GOLF" -> m.golf
      [] OTHER -> IF f = "map" THEN m.records[Rank(m.list, i)].map
                  ELSE m.records[Rank(m.list, i)].plugged

\* With f one of X now, y is what it is once the messages t have been handled.
\* (X is empty if the list has no user at i.)
Ends(t, f, i, X, y) ==
    \/ y \in X /\ \A n \in 1..Len(t) : ~Says(t[n], f, i)
    \/ \E n \in 1..Len(t) : /\ Says(t[n], f, i) /\ Said(t[n], f, i) = y
                            /\ \A k \in 1..Len(t) : k > n => ~Says(t[k], f, i)

LEMMA EndsNone ==
  ASSUME NEW f, NEW i, NEW X, NEW y \in X
  PROVE  Ends(<<>>, f, i, X, y)
BY ChannelNone DEF Ends

LEMMA EndsOne ==
  ASSUME NEW f, NEW i, NEW X, NEW y, NEW m, Says(m, f, i) => Said(m, f, i) = y,
         ~Says(m, f, i) => y \in X
  PROVE  Ends(<<m>>, f, i, X, y)
<1>1. Len(<<m>>) = 1 /\ <<m>>[1] = m
  BY ChannelOne
<1> QED
  BY <1>1 DEF Ends

\* s makes f one of Y, unless t says it anyway.
LEMMA EndsConcat ==
  ASSUME NEW f, NEW i, NEW X, NEW Y, NEW z, NEW s, NEW t, IsChannel(s), IsChannel(t),
         \A y \in Y : Ends(s, f, i, X, y), Ends(t, f, i, Y, z)
  PROVE  Ends(s \o t, f, i, X, z)
<1>1. /\ Len(s \o t) = Len(s) + Len(t) /\ Len(s) \in Nat /\ Len(t) \in Nat
      /\ \A k \in 1..Len(s) : (s \o t)[k] = s[k]
      /\ \A k \in 1..Len(t) : (s \o t)[Len(s) + k] = t[k]
  BY ChannelConcat, ChannelParts
<1>2. ASSUME NEW k \in 1..Len(s) + Len(t), k > Len(s)
      PROVE  k - Len(s) \in 1..Len(t) /\ (s \o t)[k] = t[k - Len(s)]
  <2>1. k - Len(s) \in 1..Len(t) /\ Len(s) + (k - Len(s)) = k
    BY <1>1, <1>2
  <2> QED
    BY <1>1, <2>1
<1>3. \A k \in 1..Len(s) + Len(t) : ~(k > Len(s)) => k \in 1..Len(s)
  BY <1>1
<1>4. CASE z \in Y /\ \A n \in 1..Len(t) : ~Says(t[n], f, i)
  <2>1. \A k \in 1..Len(s) + Len(t) : k > Len(s) => ~Says((s \o t)[k], f, i)
    BY <1>2, <1>4
  <2>2. CASE z \in X /\ \A n \in 1..Len(s) : ~Says(s[n], f, i)
    BY <1>1, <1>3, <1>4, <2>1, <2>2 DEF Ends
  <2>3. CASE \E n \in 1..Len(s) : /\ Says(s[n], f, i) /\ Said(s[n], f, i) = z
                                  /\ \A k \in 1..Len(s) : k > n => ~Says(s[k], f, i)
    <3>1. PICK n \in 1..Len(s) : /\ Says(s[n], f, i) /\ Said(s[n], f, i) = z
                                 /\ \A k \in 1..Len(s) : k > n => ~Says(s[k], f, i)
      BY <2>3
    <3>2. n \in 1..Len(s) + Len(t) /\ (s \o t)[n] = s[n]
      BY <1>1
    <3>3. \A k \in 1..Len(s) + Len(t) : k > n => ~Says((s \o t)[k], f, i)
      BY <1>1, <1>3, <2>1, <3>1
    <3> QED
      BY <1>1, <1>4, <3>1, <3>2, <3>3 DEF Ends
  <2>4. Ends(s, f, i, X, z)
    BY <1>4
  <2> QED
    BY <2>2, <2>3, <2>4 DEF Ends
<1>5. CASE \E n \in 1..Len(t) : /\ Says(t[n], f, i) /\ Said(t[n], f, i) = z
                                /\ \A k \in 1..Len(t) : k > n => ~Says(t[k], f, i)
  <2>1. PICK n \in 1..Len(t) : /\ Says(t[n], f, i) /\ Said(t[n], f, i) = z
                               /\ \A k \in 1..Len(t) : k > n => ~Says(t[k], f, i)
    BY <1>5
  <2>2. Len(s) + n \in 1..Len(s) + Len(t) /\ (s \o t)[Len(s) + n] = t[n]
    BY <1>1
  <2>3. ASSUME NEW k \in 1..Len(s) + Len(t), k > Len(s) + n
        PROVE  ~Says((s \o t)[k], f, i)
    <3>1. k > Len(s) /\ k - Len(s) > n
      BY <1>1, <2>3
    <3> QED
      BY <1>2, <2>1, <3>1
  <2> QED
    BY <1>1, <2>1, <2>2, <2>3 DEF Ends
<1> QED
  BY <1>4, <1>5 DEF Ends

\* The first message has been handled; what it says is then there.
LEMMA EndsTail ==
  ASSUME NEW f, NEW i, NEW X, NEW y, NEW t, IsChannel(t), t # <<>>, Ends(t, f, i, X, y),
         NEW Z, \/ \E n \in 1..Len(Tail(t)) : Says(Tail(t)[n], f, i)
                \/ IF Says(Head(t), f, i) THEN Said(Head(t), f, i) \in Z ELSE X \subseteq Z
  PROVE  Ends(Tail(t), f, i, Z, y)
<1>1. /\ Len(Tail(t)) = Len(t) - 1 /\ Len(t) >= 1 /\ Head(t) = t[1]
      /\ \A k \in 1..Len(t) - 1 : Tail(t)[k] = t[k + 1]
      /\ Len(t) \in Nat
  BY ChannelTail, ChannelParts
<1>2. CASE y \in X /\ \A n \in 1..Len(t) : ~Says(t[n], f, i)
  <2>1. \A k \in 1..Len(t) - 1 : k + 1 \in 1..Len(t)
    BY <1>1
  <2>2. 1 \in 1..Len(t)
    BY <1>1
  <2>3. ~Says(Head(t), f, i) /\ \A k \in 1..Len(Tail(t)) : ~Says(Tail(t)[k], f, i)
    BY <1>1, <1>2, <2>1, <2>2
  <2> QED
    BY <1>2, <2>3 DEF Ends
<1>3. CASE \E n \in 1..Len(t) : /\ Says(t[n], f, i) /\ Said(t[n], f, i) = y
                                /\ \A k \in 1..Len(t) : k > n => ~Says(t[k], f, i)
  <2>1. PICK n \in 1..Len(t) : /\ Says(t[n], f, i) /\ Said(t[n], f, i) = y
                               /\ \A k \in 1..Len(t) : k > n => ~Says(t[k], f, i)
    BY <1>3
  <2>2. ASSUME NEW k \in 1..Len(Tail(t)), k > n - 1 PROVE ~Says(Tail(t)[k], f, i)
    <3>1. k + 1 \in 1..Len(t) /\ k + 1 > n
      BY <1>1, <2>2
    <3> QED
      BY <1>1, <2>1, <3>1
  <2>3. CASE n = 1
    <3>1. \A k \in 1..Len(Tail(t)) : ~Says(Tail(t)[k], f, i)
      BY <1>1, <2>2, <2>3
    <3> QED
      BY <1>1, <2>1, <2>3, <3>1 DEF Ends
  <2>4. CASE n # 1
    <3>1. n - 1 \in 1..Len(Tail(t)) /\ Tail(t)[n - 1] = t[n]
      BY <1>1, <2>4
    <3> QED
      BY <2>1, <2>2, <3>1 DEF Ends
  <2> QED
    BY <2>3, <2>4
<1> QED
  BY <1>2, <1>3 DEF Ends

\* What the client has now does not matter if a message will say it.
LEMMA EndsAnyway ==
  ASSUME NEW f, NEW i, NEW X, NEW y, NEW t, Ends(t, f, i, X, y),
         NEW Z, X \subseteq Z \/ \E n \in 1..Len(t) : Says(t[n], f, i)
  PROVE  Ends(t, f, i, Z, y)
BY DEF Ends

Held(us, f, i) == IF Present(us, i) THEN {Of(us[i], f)} ELSE {}

\* The n-th user of a list is where n of them have been counted.
LEMMA LiveRank ==
  ASSUME NEW us, Len(us) \in Nat, NEW i, Present(us, i)
  PROVE  Live(us)[Rank(us, i)] = i /\ Rank(us, i) \in 1..Len(Live(us))
<1> DEFINE at == {j \in 1..Len(us) : us[j] # NoUser}
<1>1. at \in SUBSET (1..Len(us)) /\ i \in at /\ i \in Nat
  BY DEF Present
<1>2. Live(us) = Ordered(at)
  BY DEF Live
<1>3. Rank(us, i) = Cardinality(Upto(at, i))
  <2>1. \A j : j \in 1..i <=> j \in 1..Len(us) /\ j <= i
    BY <1>1
  <2>2. {j \in 1..i : us[j] # NoUser} = Upto(at, i)
    BY <2>1 DEF Upto
  <2> QED
    BY <2>2 DEF Rank
<1>4. Rank(us, i) \in 1..Len(Live(us))
  BY LiveCount DEF Rank
<1> HIDE DEF at
<1>5. Len(Ordered(at)) = Cardinality(at) /\ Cardinality(at) \in Nat
  BY <1>1, OrderedParts
<1>6. ASSUME NEW j \in at, NEW k \in at, j < k
      PROVE  Cardinality(Upto(at, j)) # Cardinality(Upto(at, k))
  <2> DEFINE l == k - 1
  <2>1. j \in Nat /\ l \in Nat /\ k = l + 1 /\ j <= l
    BY <1>1, <1>6
  <2> HIDE DEF l
  <2>2. Upto(at, j) \subseteq Upto(at, l)
    <3>1. ASSUME NEW x \in Upto(at, j) PROVE x \in Upto(at, l)
      <4>1. x \in at /\ x <= j
        BY <3>1 DEF Upto
      <4>2. x \in Nat
        BY <1>1, <4>1
      <4>3. x <= l
        BY <2>1, <4>1, <4>2
      <4> QED
        BY <4>1, <4>3 DEF Upto
    <3> QED
      BY <3>1
  <2>3. /\ IsFiniteSet(Upto(at, l)) /\ Cardinality(Upto(at, l)) \in Nat
        /\ Cardinality(Upto(at, l + 1)) = Cardinality(Upto(at, l)) + 1
        /\ Cardinality(Upto(at, j)) \in Nat
    BY <1>1, <1>6, <2>1, UptoParts
  <2>4. Cardinality(Upto(at, j)) <= Cardinality(Upto(at, l))
    BY <2>2, <2>3, FS_Subset
  <2> QED
    BY <2>1, <2>3, <2>4
<1>7. \A k \in at : Cardinality(Upto(at, k)) = Cardinality(Upto(at, i)) => k = i
  <2>1. \A k \in at : k \in Nat
    BY <1>1
  <2>2. \A k \in at : k < i \/ k = i \/ i < k
    BY <1>1, <2>1
  <2> QED
    BY <1>1, <1>6, <2>2
<1> DEFINE n == Cardinality(Upto(at, i))
<1>8. n \in 1..Cardinality(at)
  BY <1>2, <1>3, <1>4, <1>5
<1>9. Ordered(at)[n] = CHOOSE k \in at : Cardinality(Upto(at, k)) = n
  <2> HIDE DEF n
  <2> QED
    BY <1>8 DEF Ordered, Upto
<1>10. Ordered(at)[n] = i
  BY <1>1, <1>7, <1>9
<1> QED
  BY <1>2, <1>3, <1>4, <1>10

\* A handler makes f what its message says, and keeps it if it says nothing.
LEMMA ApplySays ==
  ASSUME NEW c, NEW us \in UserList, NEW m, Fits(c, Shape(us), m), NEW f \in Fields, NEW i,
         Present(Apply(us, m), i)
  PROVE  IF Says(m, f, i) THEN Of(Apply(us, m)[i], f) = Said(m, f, i)
         ELSE Present(us, i) /\ Of(Apply(us, m)[i], f) = Of(us[i], f)
<1>1. /\ Len(us) \in Nat /\ us = [j \in 1..Len(us) |-> us[j]]
      /\ \A j : Present(us, j) => us[j] \in UserInfos
  BY ListParts
<1>2. /\ Len(Shape(us)) = Len(us)
      /\ \A j : Present(us, j) <=> Present(Shape(us), j)
  BY ShapeParts
<1>3. f \in {"lag", "map", "plugged"} /\ f # "golf"
  BY DEF Fields
<1>4. CASE m.type = "ACCEPT"
  <2>1. Apply(us, m) = m.users
    BY <1>4 DEF Apply
  <2> QED
    BY <1>4, <2>1 DEF Says, Said
<1>5. CASE m.type = "JOIN"
  <2>1. m.info \in UserInfos /\ m.info.authority = Len(us) + 1
    BY <1>2, <1>5 DEF Fits
  <2>2. Apply(us, m) = Append(us, m.info)
    BY <1>5 DEF Apply
  <2>3. /\ Len(Append(us, m.info)) = Len(us) + 1
        /\ \A j \in 1..Len(us) : Append(us, m.info)[j] = us[j]
        /\ Append(us, m.info)[Len(us) + 1] = m.info
    BY <2>1, AppendProperties DEF UserList
  <2>4. Says(m, f, i) <=> i = Len(us) + 1
    BY <1>5, <2>1 DEF Says
  <2>5. i \in 1..Len(us) + 1
    BY <2>2, <2>3 DEF Present
  <2>6. CASE i = Len(us) + 1
    BY <1>5, <2>2, <2>3, <2>4, <2>6 DEF Said
  <2>7. CASE i # Len(us) + 1
    <3>1. i \in 1..Len(us)
      BY <1>1, <2>5, <2>7
    <3> QED
      BY <2>2, <2>3, <2>4, <2>7, <3>1 DEF Present
  <2> QED
    BY <2>6, <2>7
<1>6. CASE m.type = "QUIT"
  <2>1. Present(us, m.user)
    BY <1>2, <1>6 DEF Fits
  <2>2. Apply(us, m) = [j \in 1..Len(us) |-> IF j = m.user THEN NoUser ELSE us[j]]
    BY <1>1, <1>6, <2>1 DEF Apply, Present
  <2>3. Len(Apply(us, m)) = Len(us)
    BY <1>1, <2>2
  <2>4. i \in 1..Len(us) /\ i # m.user
    BY <2>2, <2>3 DEF Present
  <2>5. Apply(us, m)[i] = us[i]
    BY <2>2, <2>4
  <2> QED
    BY <1>6, <2>4, <2>5 DEF Says, Present
<1>7. CASE m.type = "LAG"
  <2> DEFINE g == [j \in 1..Len(us) |-> IF j \in m.ids THEN [us[j] EXCEPT !.lag = m.lag] ELSE us[j]]
  <2>1. Apply(us, m) = g /\ \A j \in m.ids : Present(us, j)
    BY <1>2, <1>7 DEF Apply, Fits
  <2>2. Len(g) = Len(us)
    BY <1>1
  <2>3. i \in 1..Len(us) /\ g[i] = IF i \in m.ids THEN [us[i] EXCEPT !.lag = m.lag] ELSE us[i]
    BY <2>1, <2>2 DEF Present
  <2>4. g[i] # NoUser
    BY <2>1 DEF Present
  <2> HIDE DEF g
  <2>5. Present(us, i) /\ us[i] \in UserInfos
    BY <1>1, <2>1, <2>3, <2>4 DEF Present
  <2>6. Says(m, f, i) <=> f = "lag" /\ i \in m.ids
    BY <1>7 DEF Says
  <2>7. Said(m, f, i) = m.lag
    BY <1>7 DEF Said
  <2> QED
    BY <1>3, <2>1, <2>3, <2>5, <2>6, <2>7 DEF Of, UserInfos
<1>8. CASE m.type = "INPUT_MAP"
  <2> DEFINE u == m.user
             r == [us[u] EXCEPT !.map = m.map]
             g == [us EXCEPT ![u] = r]
  <2>1. Present(us, u) /\ us[u] # NoUser
    BY <1>2, <1>8 DEF Fits, Present
  <2>2. Apply(us, m) = g
    BY <1>8, <2>1 DEF Apply
  <2>3. g = [j \in 1..Len(us) |-> IF j = u THEN r ELSE us[j]]
    BY <1>1, <2>1 DEF Present
  <2>4. Len(g) = Len(us)
    BY <1>1, <2>3
  <2>5. i \in 1..Len(us) /\ g[i] = IF i = u THEN r ELSE us[i]
    BY <2>2, <2>3, <2>4 DEF Present
  <2>6. g[i] # NoUser
    BY <2>2 DEF Present
  <2> HIDE DEF g
  <2>7. Present(us, i) /\ us[i] \in UserInfos
    BY <1>1, <2>1, <2>5, <2>6 DEF Present
  <2>8. Says(m, f, i) <=> f = "map" /\ i = u
    BY <1>8 DEF Says
  <2>9. Said(m, f, i) = m.map
    BY <1>8 DEF Said
  <2> QED
    BY <1>3, <2>2, <2>5, <2>7, <2>8, <2>9 DEF Of, UserInfos
<1>9. CASE m.type = "CONTROLLERS"
  <2> DEFINE g == [j \in 1..Len(us) |->
                     IF us[j] = NoUser THEN NoUser
                     ELSE [us[j] EXCEPT !.plugged = m.records[Rank(us, j)].plugged,
                                        !.map = m.records[Rank(us, j)].map]]
  <2>1. Apply(us, m) = g /\ m.list = Shape(us)
    BY <1>9 DEF Apply, Fits, Rank
  <2>2. Len(g) = Len(us)
    BY <1>1
  <2>3. i \in 1..Len(us) /\ us[i] # NoUser
    BY <2>1, <2>2 DEF Present
  <2>4. g[i] = [us[i] EXCEPT !.plugged = m.records[Rank(us, i)].plugged,
                             !.map = m.records[Rank(us, i)].map]
    BY <2>3
  <2> HIDE DEF g
  <2>5. Present(us, i) /\ us[i] \in UserInfos /\ Present(m.list, i)
    BY <1>1, <1>2, <2>1, <2>3 DEF Present
  <2>6. Rank(m.list, i) = Rank(us, i)
    <3>1. \A j \in 1..i : us[j] # NoUser <=> m.list[j] # NoUser
      <4>1. \A j \in 1..i : j \in 1..Len(us)
        BY <1>1, <2>3
      <4> QED
        BY <1>2, <2>1, <4>1 DEF Present
    <3> QED
      BY <3>1 DEF Rank
  <2>7. Says(m, f, i) <=> f \in {"map", "plugged"}
    BY <1>9, <2>5 DEF Says
  <2>8. Said(m, f, i) = IF f = "map" THEN m.records[Rank(us, i)].map
                        ELSE m.records[Rank(us, i)].plugged
    BY <1>9, <2>6 DEF Said
  <2> QED
    BY <1>3, <2>1, <2>4, <2>5, <2>7, <2>8 DEF Of, UserInfos
<1>10. CASE m.type \notin {"ACCEPT", "JOIN", "QUIT", "LAG", "INPUT_MAP", "CONTROLLERS"}
  <2>1. Apply(us, m) = us
    BY <1>10 DEF Apply
  <2> QED
    BY <1>3, <1>10, <2>1 DEF Says
<1> QED
  BY <1>4, <1>5, <1>6, <1>7, <1>8, <1>9, <1>10

LEMMA PlaceSays ==
  ASSUME NEW c, NEW sh \in Seq(Slot), NEW m, Fits(c, sh, m), NEW f \in Fields, NEW i,
         Present(Place(sh, m), i), ~Says(m, f, i)
  PROVE  Present(sh, i) /\ m.type # "ACCEPT"
<1>1. Len(sh) \in Nat /\ sh = [j \in 1..Len(sh) |-> sh[j]]
  BY LenProperties
<1>2. m.type # "ACCEPT"
  <2>1. SUFFICES ASSUME m.type = "ACCEPT" PROVE FALSE
    OBVIOUS
  <2>2. Place(sh, m) = Shape(m.users) /\ m.users \in UserList
    BY <2>1 DEF Place, Fits
  <2>3. Present(m.users, i)
    BY <2>2, ShapeParts
  <2> QED
    BY <2>1, <2>3 DEF Says
<1>3. CASE m.type = "JOIN"
  <2>1. m.info \in UserInfos /\ m.info.authority = Len(sh) + 1
    BY <1>3 DEF Fits
  <2>2. m.info.name \in Slot
    BY <2>1 DEF UserInfos, Slot
  <2>3. /\ Len(Place(sh, m)) = Len(sh) + 1
        /\ \A j \in 1..Len(sh) : Place(sh, m)[j] = sh[j]
    BY <1>3, <2>2, AppendProperties DEF Place
  <2>4. i \in 1..Len(sh) + 1 /\ i # Len(sh) + 1
    BY <1>3, <2>1, <2>3 DEF Says, Present
  <2>5. i \in 1..Len(sh)
    BY <1>1, <2>4
  <2> QED
    BY <1>2, <2>3, <2>5 DEF Present
<1>4. CASE m.type = "QUIT"
  <2>1. Present(sh, m.user)
    BY <1>4 DEF Fits
  <2>2. Place(sh, m) = [j \in 1..Len(sh) |-> IF j = m.user THEN NoUser ELSE sh[j]]
    BY <1>1, <1>4, <2>1 DEF Place, Present
  <2>3. Len(Place(sh, m)) = Len(sh)
    BY <1>1, <2>2
  <2> QED
    BY <1>2, <2>2, <2>3 DEF Present
<1>5. CASE m.type \notin {"ACCEPT", "JOIN", "QUIT"}
  BY <1>2, <1>5 DEF Place
<1> QED
  BY <1>2, <1>3, <1>4, <1>5

\* Of whoever is there in the end something is said, or the user was there all
\* the time.
LEMMA ReadsSays ==
  ASSUME NEW c, NEW sh, NEW t, Len(t) \in Nat, NEW e, Reads(c, sh, t, e),
         NEW f \in Fields, NEW i, Present(e, i), \A n \in 1..Len(t) : ~Says(t[n], f, i)
  PROVE  Present(sh, i) /\ \A n \in 1..Len(t) : t[n].type # "ACCEPT"
<1>1. PICK h \in [0..Len(t) -> Seq(Slot)] :
        /\ h[0] = sh /\ h[Len(t)] = e
        /\ \A k \in 1..Len(t) : h[k] = Place(h[k - 1], t[k]) /\ Fits(c, h[k - 1], t[k])
  BY DEF Reads
<1> DEFINE S == {k \in Nat : k <= Len(t) /\ Present(h[k], i) =>
                               Present(sh, i) /\ \A n \in 1..k : t[n].type # "ACCEPT"}
<1>2. 0 \in S
  BY <1>1
<1>3. ASSUME NEW k \in Nat, k \in S PROVE k + 1 \in S
  <2> SUFFICES ASSUME k + 1 <= Len(t), Present(h[k + 1], i)
               PROVE  Present(sh, i) /\ \A n \in 1..k + 1 : t[n].type # "ACCEPT"
    BY DEF S
  <2>1. k + 1 \in 1..Len(t) /\ (k + 1) - 1 = k /\ k \in 0..Len(t)
    OBVIOUS
  <2>2. /\ h[k + 1] = Place(h[k], t[k + 1]) /\ Fits(c, h[k], t[k + 1])
        /\ h[k] \in Seq(Slot) /\ ~Says(t[k + 1], f, i)
    BY <1>1, <2>1
  <2>3. Present(h[k], i) /\ t[k + 1].type # "ACCEPT"
    BY <2>2, PlaceSays
  <2>4. Present(sh, i) /\ \A n \in 1..k : t[n].type # "ACCEPT"
    BY <1>3, <2>3
  <2>5. \A n \in 1..k + 1 : n \in 1..k \/ n = k + 1
    OBVIOUS
  <2> QED
    BY <2>3, <2>4, <2>5
<1> HIDE DEF S
<1>4. \A k \in Nat : k \in S
  BY <1>2, <1>3, Induction
<1> QED
  BY <1>1, <1>4 DEF S

\* A client handles what comes first.
LEMMA EndsReceive ==
  ASSUME NEW c, NEW us \in UserList, NEW t, IsChannel(t), t # <<>>, NEW e,
         Reads(c, Shape(us), t, e), NEW f \in Fields, NEW i, Present(e, i), NEW y,
         Ends(t, f, i, Held(us, f, i), y)
  PROVE  Ends(Tail(t), f, i, Held(Apply(us, Head(t)), f, i), y)
<1> DEFINE m == Head(t)
           vs == Apply(us, m)
<1>1. Fits(c, Shape(us), m) /\ Reads(c, Place(Shape(us), m), Tail(t), e)
  BY ReadsTail
<1>2. vs \in UserList /\ Shape(vs) = Place(Shape(us), m)
  BY <1>1, ApplyShape
<1>3. Len(Tail(t)) \in Nat
  BY ChannelTail, ChannelParts
<1>4. CASE Present(vs, i)
  <2>1. IF Says(m, f, i) THEN Of(vs[i], f) = Said(m, f, i)
        ELSE Present(us, i) /\ Of(vs[i], f) = Of(us[i], f)
    BY <1>1, <1>4, ApplySays
  <2>2. IF Says(m, f, i) THEN Said(m, f, i) \in Held(vs, f, i)
        ELSE Held(us, f, i) \subseteq Held(vs, f, i)
    BY <1>4, <2>1 DEF Held
  <2> HIDE DEF vs
  <2> QED
    BY <2>2, EndsTail DEF vs
<1>5. CASE ~Present(vs, i)
  <2>1. ~Present(Shape(vs), i)
    BY <1>2, <1>5, ShapeParts
  <2>2. Reads(c, Shape(vs), Tail(t), e)
    BY <1>1, <1>2
  <2> HIDE DEF vs
  <2>3. \E n \in 1..Len(Tail(t)) : Says(Tail(t)[n], f, i)
    <3> DEFINE r == Tail(t)
    <3>1. Len(r) \in Nat /\ Reads(c, Shape(vs), r, e)
      BY <1>3, <2>2
    <3> HIDE DEF r
    <3>2. \E n \in 1..Len(r) : Says(r[n], f, i)
      BY <2>1, <3>1, ReadsSays
    <3> QED
      BY <3>2 DEF r
  <2> QED
    BY <2>3, EndsTail DEF vs
<1> QED
  BY <1>4, <1>5

\* A client changes its list, but not f of the user at i, or gets a new one.
LEMMA EndsChange ==
  ASSUME NEW c, NEW us, NEW vs, NEW t, IsChannel(t), NEW sh, NEW e, Reads(c, sh, t, e),
         NEW f \in Fields, NEW i, Present(e, i), NEW y, Ends(t, f, i, Held(us, f, i), y),
         Held(vs, f, i) = Held(us, f, i) \/ Has(t, "ACCEPT")
  PROVE  Ends(t, f, i, Held(vs, f, i), y)
<1>1. CASE Has(t, "ACCEPT")
  <2>1. \E n \in 1..Len(t) : Says(t[n], f, i)
    BY <1>1, ChannelParts, ReadsSays DEF Has
  <2> QED
    BY <2>1, EndsAnyway
<1> QED
  BY <1>1

\* What Ends says is what the client's list has in the end.
LEMMA ListsEnd ==
  ASSUME NEW c, NEW us \in UserList, NEW t, Len(t) \in Nat, NEW e, Reads(c, Shape(us), t, e),
         NEW g, Lists(g, us, t, Len(t)), NEW f \in Fields, NEW i, Present(e, i), NEW y,
         Ends(t, f, i, Held(us, f, i), y)
  PROVE  Of(g[Len(t)][i], f) = y
<1> DEFINE L == Len(t)
<1>1. /\ \A k \in 0..L : g[k] \in UserList
      /\ \A k \in 1..L : g[k] = Apply(g[k - 1], t[k]) /\ Fits(c, Shape(g[k - 1]), t[k])
      /\ g[0] = us /\ Shape(g[L]) = e
  <2>1. Through(c, g, us, t, e)
    BY ListsRead
  <2> QED
    BY <2>1 DEF Through
<1>2. Present(g[L], i)
  BY <1>1, ShapeParts
<1>3. ASSUME NEW n \in 0..L, \A k \in 1..L : k > n => ~Says(t[k], f, i)
      PROVE  Present(g[n], i) /\ Of(g[n][i], f) = Of(g[L][i], f)
  <2> DEFINE S == {d \in Nat : d <= L - n =>
                      Present(g[L - d], i) /\ Of(g[L - d][i], f) = Of(g[L][i], f)}
  <2>1. 0 \in S
    BY <1>2
  <2>2. ASSUME NEW d \in Nat, d \in S PROVE d + 1 \in S
    <3> SUFFICES ASSUME d + 1 <= L - n
                 PROVE  /\ Present(g[L - (d + 1)], i)
                        /\ Of(g[L - (d + 1)][i], f) = Of(g[L][i], f)
      BY DEF S
    <3> DEFINE k == L - d
    <3>1. k \in 1..L /\ k > n /\ k - 1 = L - (d + 1) /\ k - 1 \in 0..L
      OBVIOUS
    <3>2. Present(g[k], i) /\ Of(g[k][i], f) = Of(g[L][i], f)
      BY <2>2
    <3> HIDE DEF k, L
    <3>3. /\ g[k] = Apply(g[k - 1], t[k]) /\ Fits(c, Shape(g[k - 1]), t[k])
          /\ ~Says(t[k], f, i) /\ g[k - 1] \in UserList
      BY <1>1, <1>3, <3>1
    <3>4. Present(g[k - 1], i) /\ Of(g[k][i], f) = Of(g[k - 1][i], f)
      BY <3>2, <3>3, ApplySays
    <3> QED
      BY <3>1, <3>2, <3>4
  <2> HIDE DEF S
  <2>3. \A d \in Nat : d \in S
    BY <2>1, <2>2, Induction
  <2>4. L - n \in Nat /\ L - (L - n) = n
    OBVIOUS
  <2>5. L - n \in S
    BY <2>3, <2>4
  <2> QED
    BY <2>4, <2>5 DEF S
<1>4. CASE y \in Held(us, f, i) /\ \A n \in 1..L : ~Says(t[n], f, i)
  <2>1. Present(us, i) /\ Of(us[i], f) = Of(g[L][i], f)
    BY <1>1, <1>3, <1>4
  <2> QED
    BY <1>4, <2>1 DEF Held
<1>5. CASE \E n \in 1..L : /\ Says(t[n], f, i) /\ Said(t[n], f, i) = y
                           /\ \A k \in 1..L : k > n => ~Says(t[k], f, i)
  <2>1. PICK n \in 1..L : /\ Says(t[n], f, i) /\ Said(t[n], f, i) = y
                          /\ \A k \in 1..L : k > n => ~Says(t[k], f, i)
    BY <1>5
  <2>2. n \in 0..L /\ n - 1 \in 0..L
    OBVIOUS
  <2>3. Present(g[n], i) /\ Of(g[n][i], f) = Of(g[L][i], f)
    BY <1>3, <2>1, <2>2
  <2>4. g[n] = Apply(g[n - 1], t[n]) /\ Fits(c, Shape(g[n - 1]), t[n]) /\ g[n - 1] \in UserList
    BY <1>1, <2>2
  <2>5. Of(g[n][i], f) = Said(t[n], f, i)
    BY <2>1, <2>3, <2>4, ApplySays
  <2> QED
    BY <2>1, <2>3, <2>5
<1> QED
  BY <1>4, <1>5 DEF Ends

-----------------------------------------------------------------------------
(* The invariant: every member ends with what the server has, or it has     *)
(* asked for something else itself.                                         *)

\* m asks the server to change f of its sender.
Asks(m, f) == IF f = "lag" THEN m.type = "LAG" /\ m.mine ELSE m.type = "CONTROLLERS"

\* A client with ts on the way to the server, which has typed ty, may have f of
\* itself as it wants it.
Own(ts, ty, f) ==
    \/ \E n \in 1..Len(ts) : Asks(ts[n], f)
    \/ f # "lag" /\ "map" \in ty

LEMMA OwnConcat ==
  ASSUME NEW s, NEW t, IsChannel(s), IsChannel(t), NEW ty, NEW ty2, ty \subseteq ty2, NEW f,
         Own(s, ty, f) \/ Own(t, ty2, f)
  PROVE  Own(s \o t, ty2, f)
<1>1. /\ Len(s \o t) = Len(s) + Len(t) /\ Len(s) \in Nat /\ Len(t) \in Nat
      /\ \A k \in 1..Len(s) : (s \o t)[k] = s[k]
      /\ \A k \in 1..Len(t) : (s \o t)[Len(s) + k] = t[k]
  BY ChannelConcat, ChannelParts
<1>2. ASSUME NEW n \in 1..Len(s), Asks(s[n], f) PROVE Own(s \o t, ty2, f)
  BY <1>1, <1>2 DEF Own
<1>3. ASSUME NEW n \in 1..Len(t), Asks(t[n], f) PROVE Own(s \o t, ty2, f)
  <2>1. Len(s) + n \in 1..Len(s \o t) /\ (s \o t)[Len(s) + n] = t[n]
    BY <1>1
  <2> QED
    BY <1>3, <2>1 DEF Own
<1>4. ASSUME f # "lag", "map" \in ty2 PROVE Own(s \o t, ty2, f)
  BY <1>4 DEF Own
<1> QED
  BY <1>2, <1>3, <1>4 DEF Own

LEMMA OwnTail ==
  ASSUME NEW s, IsChannel(s), s # <<>>, NEW ty, NEW f, Own(s, ty, f), ~Asks(Head(s), f)
  PROVE  Own(Tail(s), ty, f)
<1>1. /\ Len(Tail(s)) = Len(s) - 1 /\ Head(s) = s[1] /\ Len(s) \in Nat
      /\ \A k \in 1..Len(s) - 1 : Tail(s)[k] = s[k + 1]
  BY ChannelTail, ChannelParts
<1>2. CASE \E n \in 1..Len(s) : Asks(s[n], f)
  <2>1. PICK n \in 1..Len(s) : Asks(s[n], f)
    BY <1>2
  <2>2. n # 1
    BY <1>1, <2>1
  <2>3. n - 1 \in 1..Len(Tail(s)) /\ Tail(s)[n - 1] = s[n]
    BY <1>1, <2>2
  <2> QED
    BY <2>1, <2>3 DEF Own
<1> QED
  BY <1>2 DEF Own

\* Member c, with the channels ts to the server and tc to the client, the list
\* us and the golf flag g, has typed ty; the room has the golf flag rg, the list
\* sl and the records inf of its users.
Told(c, ts, tc, us, g, ty, rg, sl, inf) ==
    /\ ~GolfRom /\ "golf" \notin ty => Ends(tc, "golf", 0, {g}, rg)
    /\ \A i, f : Present(sl, i) /\ f \in Fields =>
         \/ Ends(tc, f, i, Held(us, f, i), Of(inf[sl[i]], f))
         \/ sl[i] = c /\ Own(ts, ty, f)

\* Only who has typed it sends a golf flag or a map.
Typing(ts, ty) ==
    /\ Has(ts, "GOLF") => "golf" \in ty
    /\ Has(ts, "INPUT_MAP") => "map" \in ty

ToldClient(c) ==
    link[c] # "closed" =>
        /\ Typing(toServer[c], typed[c])
        /\ serving[c] = "member" =>
             Told(c, toServer[c], toClient[c], users[c], golf[c], typed[c], room.golf, slots, info)

ToldInv ==
    /\ IsTable(typed)
    /\ \A c \in Client : ToldClient(c)

LEMMA TypingConcat ==
  ASSUME NEW s, NEW t, IsChannel(s), IsChannel(t), NEW ty, NEW ty2, ty \subseteq ty2,
         Typing(s, ty), Typing(t, ty2)
  PROVE  Typing(s \o t, ty2)
BY HasConcat DEF Typing

LEMMA TypingTail ==
  ASSUME NEW s, IsChannel(s), s # <<>>, NEW ty, Typing(s, ty)
  PROVE  Typing(Tail(s), ty)
BY HasTail DEF Typing

LEMMA TypingNone == ASSUME NEW ty PROVE Typing(<<>>, ty)
BY HasNone DEF Typing

LEMMA TypingOne ==
  ASSUME NEW m, NEW ty, m.type = "GOLF" => "golf" \in ty, m.type = "INPUT_MAP" => "map" \in ty
  PROVE  Typing(<<m>>, ty)
BY HasOne DEF Typing

\* c changes its own list, sends ms, and has typed ty2.  Who awaits ACCEPT may
\* do anything to the list it has.
LEMMA ToldSend ==
  ASSUME NEW c, NEW ts, NEW tc, NEW us, NEW g, NEW ty, NEW rg, NEW sl, NEW inf,
         Told(c, ts, tc, us, g, ty, rg, sl, inf), IsChannel(ts), IsChannel(tc),
         NEW sh, Reads(c, sh, tc, sl),
         NEW ms, IsChannel(ms), NEW ty2, ty \subseteq ty2,
         NEW g2, g2 = g \/ "golf" \in ty2,
         NEW vs, \A i, f : Present(sl, i) /\ f \in Fields =>
                   \/ Held(vs, f, i) = Held(us, f, i) \/ Has(tc, "ACCEPT")
                   \/ sl[i] = c /\ Own(ms, ty2, f)
  PROVE  Told(c, ts \o ms, tc, vs, g2, ty2, rg, sl, inf)
<1>1. ~GolfRom /\ "golf" \notin ty2 => Ends(tc, "golf", 0, {g2}, rg)
  BY DEF Told
<1>2. ASSUME NEW i, NEW f, Present(sl, i), f \in Fields
      PROVE  \/ Ends(tc, f, i, Held(vs, f, i), Of(inf[sl[i]], f))
             \/ sl[i] = c /\ Own(ts \o ms, ty2, f)
  <2>1. \/ Ends(tc, f, i, Held(us, f, i), Of(inf[sl[i]], f))
        \/ sl[i] = c /\ Own(ts, ty, f)
    BY <1>2 DEF Told
  <2>2. CASE sl[i] = c /\ (Own(ts, ty, f) \/ Own(ms, ty2, f))
    BY <2>2, OwnConcat
  <2>3. CASE /\ Ends(tc, f, i, Held(us, f, i), Of(inf[sl[i]], f))
             /\ Held(vs, f, i) = Held(us, f, i) \/ Has(tc, "ACCEPT")
    BY <1>2, <2>3, EndsChange
  <2> QED
    BY <1>2, <2>1, <2>2, <2>3
<1> QED
  BY <1>1, <1>2 DEF Told

\* c handles what comes first; what else it does to its list is nothing of this.
LEMMA ToldReceive ==
  ASSUME NEW c, NEW ts, NEW tc, NEW us \in UserList, NEW g, NEW ty, NEW rg, NEW sl, NEW inf,
         Told(c, ts, tc, us, g, ty, rg, sl, inf), IsChannel(tc), tc # <<>>,
         Reads(c, Shape(us), tc, sl),
         NEW m, m = Head(tc),
         NEW vs, \A i, f : f \in Fields => Held(vs, f, i) = Held(Apply(us, m), f, i),
         NEW g2, IF m.type = "GOLF" THEN g2 = m.golf ELSE g2 = g
  PROVE  Told(c, ts, Tail(tc), vs, g2, ty, rg, sl, inf)
<1>1. ASSUME ~GolfRom, "golf" \notin ty PROVE Ends(Tail(tc), "golf", 0, {g2}, rg)
  <2>1. Ends(tc, "golf", 0, {g}, rg)
    BY <1>1 DEF Told
  <2>2. Says(m, "golf", 0) <=> m.type = "GOLF"
    BY DEF Says, Fields
  <2>3. m.type = "GOLF" => Said(m, "golf", 0) = m.golf
    BY DEF Said
  <2>4. IF Says(m, "golf", 0) THEN Said(m, "golf", 0) \in {g2} ELSE {g} \subseteq {g2}
    BY <2>2, <2>3
  <2> QED
    BY <2>1, <2>4, EndsTail
<1>2. ASSUME NEW i, NEW f, Present(sl, i), f \in Fields
      PROVE  \/ Ends(Tail(tc), f, i, Held(vs, f, i), Of(inf[sl[i]], f))
             \/ sl[i] = c /\ Own(ts, ty, f)
  <2> DEFINE y == Of(inf[sl[i]], f)
  <2>1. Ends(tc, f, i, Held(us, f, i), y) \/ (sl[i] = c /\ Own(ts, ty, f))
    BY <1>2 DEF Told
  <2> HIDE DEF y
  <2>2. ASSUME Ends(tc, f, i, Held(us, f, i), y) PROVE Ends(Tail(tc), f, i, Held(vs, f, i), y)
    <3>1. Ends(Tail(tc), f, i, Held(Apply(us, Head(tc)), f, i), y)
      BY <1>2, <2>2, EndsReceive
    <3> QED
      BY <1>2, <3>1
  <2> QED
    BY <2>1, <2>2 DEF y
<1> QED
  BY <1>1, <1>2 DEF Told

\* What d is sent, ms, tells it what changes with the server: the golf flag from
\* rg to rg2, the list from sl to sl2 and the records from inf to inf2; ts2 is
\* what is left of ts on the way to the server.
Informs(d, ms, ts, ts2, ty, rg, rg2, sl, sl2, inf, inf2) ==
    /\ ~GolfRom /\ "golf" \notin ty => Ends(ms, "golf", 0, {rg}, rg2)
    /\ \A i, f : Present(sl2, i) /\ f \in Fields =>
         \/ Ends(ms, f, i, {}, Of(inf2[sl2[i]], f))
         \/ sl2[i] = d /\ Own(ts2, ty, f)
         \/ /\ Present(sl, i) /\ sl[i] = sl2[i]
            /\ Ends(ms, f, i, {Of(inf[sl[i]], f)}, Of(inf2[sl2[i]], f))
            /\ sl[i] = d /\ Own(ts, ty, f) => Own(ts2, ty, f)

LEMMA ToldInforms ==
  ASSUME NEW d, NEW ts, NEW tc, NEW us, NEW g, NEW ty, NEW rg, NEW sl, NEW inf,
         Told(d, ts, tc, us, g, ty, rg, sl, inf), IsChannel(tc),
         NEW ms, IsChannel(ms), NEW ts2, NEW rg2, NEW sl2, NEW inf2,
         Informs(d, ms, ts, ts2, ty, rg, rg2, sl, sl2, inf, inf2)
  PROVE  Told(d, ts2, tc \o ms, us, g, ty, rg2, sl2, inf2)
<1>1. ASSUME ~GolfRom, "golf" \notin ty PROVE Ends(tc \o ms, "golf", 0, {g}, rg2)
  <2>1. Ends(tc, "golf", 0, {g}, rg) /\ Ends(ms, "golf", 0, {rg}, rg2)
    BY <1>1 DEF Told, Informs
  <2>2. \A y \in {rg} : Ends(tc, "golf", 0, {g}, y)
    BY <2>1
  <2> QED
    BY <2>1, <2>2, EndsConcat
<1>2. ASSUME NEW i, NEW f, Present(sl2, i), f \in Fields
      PROVE  \/ Ends(tc \o ms, f, i, Held(us, f, i), Of(inf2[sl2[i]], f))
             \/ sl2[i] = d /\ Own(ts2, ty, f)
  <2> DEFINE new == Of(inf2[sl2[i]], f)
             old == Of(inf[sl[i]], f)
             X == Held(us, f, i)
  <2>1. \/ Ends(ms, f, i, {}, new)
        \/ sl2[i] = d /\ Own(ts2, ty, f)
        \/ /\ Present(sl, i) /\ sl[i] = sl2[i] /\ Ends(ms, f, i, {old}, new)
           /\ sl[i] = d /\ Own(ts, ty, f) => Own(ts2, ty, f)
    BY <1>2 DEF Informs
  <2>2. Present(sl, i) => Ends(tc, f, i, X, old) \/ (sl[i] = d /\ Own(ts, ty, f))
    BY <1>2 DEF Told
  <2> HIDE DEF new, old, X
  <2>3. CASE Ends(ms, f, i, {}, new)
    <3>1. \A y \in {} : Ends(tc, f, i, X, y)
      OBVIOUS
    <3>2. Ends(tc \o ms, f, i, X, new)
      BY <2>3, <3>1, EndsConcat
    <3> QED
      BY <3>2 DEF new, X
  <2>4. CASE Ends(tc, f, i, X, old) /\ Ends(ms, f, i, {old}, new)
    <3>1. \A y \in {old} : Ends(tc, f, i, X, y)
      BY <2>4
    <3>2. Ends(tc \o ms, f, i, X, new)
      BY <2>4, <3>1, EndsConcat
    <3> QED
      BY <3>2 DEF new, X
  <2> QED
    BY <2>1, <2>2, <2>3, <2>4
<1> QED
  BY <1>1, <1>2 DEF Told

\* The server handles a packet of c, which changes no list; ms is what d is sent.
Passes(c, d, ms) ==
    /\ ~GolfRom /\ "golf" \notin typed[d] => Ends(ms, "golf", 0, {room.golf}, room'.golf)
    /\ \A i, f : Present(slots, i) /\ f \in Fields =>
         \/ Ends(ms, f, i, {}, Of(info'[slots[i]], f))
         \/ slots[i] = d /\ f # "lag" /\ "map" \in typed[d]
         \/ /\ Ends(ms, f, i, {Of(info[slots[i]], f)}, Of(info'[slots[i]], f))
            /\ slots[i] = c => ~Asks(Head(toServer[c]), f)

LEMMA ToldHandles ==
  ASSUME RoomInv, ToldInv, NEW c \in Client, NEW type, Handles(c, type), slots' = slots,
         NEW to, NEW ms, IsChannel(ms), toClient' = SendAll(to, ms),
         \A d \in Client : link[d] # "closed" /\ serving[d] = "member" =>
            Passes(c, d, IF d \in to THEN ms ELSE <<>>)
  PROVE  ToldInv'
<1>1. /\ toServer[c] # <<>> /\ UNCHANGED <<users, golf, typed, serving, link>>
      /\ Changes(toServer, toServer', c, Tail(toServer[c]))
  BY DEF Handles, clientVars, Changes
<1>2. IsTable(toServer)
  BY DEF RoomInv, RoomTypes
<1> DEFINE tail == Tail(toServer[c])
<1>3. toServer'[c] = tail /\ \A d \in Client \ {c} : toServer'[d] = toServer[d]
  <2>1. Changes(toServer, toServer', c, tail)
    BY <1>1
  <2> HIDE DEF tail
  <2> QED
    BY <1>2, <2>1, TableChange
<1>4. ASSUME NEW d \in Client, link[d] # "closed" PROVE ToldClient(d)'
  <2>1. IsChannel(toServer[d]) /\ IsChannel(toClient[d])
    BY DEF RoomInv, GoodClient, Good, AllSane
  <2>2. Typing(toServer[d], typed[d])
    BY <1>4 DEF ToldInv, ToldClient
  <2>3. Typing(toServer'[d], typed[d])
    <3>1. CASE d = c
      BY <1>1, <1>3, <2>1, <2>2, <3>1, TypingTail
    <3>2. CASE d # c
      BY <1>3, <2>2, <3>2
    <3> QED
      BY <3>1, <3>2
  <2>4. ASSUME serving[d] = "member"
        PROVE  Told(d, toServer'[d], toClient'[d], users[d], golf[d], typed[d], room'.golf,
                    slots, info')
    <3> DEFINE mine == IF d \in to THEN ms ELSE <<>>
               ts2 == toServer'[d]
               rg2 == room'.golf
               inf2 == info'
    <3>1. IsChannel(mine)
      BY ChannelNone
    <3>2. toClient'[d] = toClient[d] \o mine
      <4>1. toClient'[d] = IF d \in to THEN toClient[d] \o ms ELSE toClient[d]
        BY DEF SendAll
      <4>2. toClient[d] \o <<>> = toClient[d]
        BY <2>1, ConcatEmptySeq DEF IsChannel
      <4> QED
        BY <4>1, <4>2
    <3>3. Passes(c, d, mine)
      BY <1>4, <2>4
    <3> HIDE DEF mine
    <3>4. Told(d, toServer[d], toClient[d], users[d], golf[d], typed[d], room.golf, slots, info)
      BY <1>4, <2>4 DEF ToldInv, ToldClient
    <3>5. ASSUME NEW f, Own(toServer[d], typed[d], f), d = c => ~Asks(Head(toServer[c]), f)
          PROVE  Own(ts2, typed[d], f)
      BY <1>1, <1>3, <2>1, <3>5, OwnTail
    <3>6. slots \in Seq(Slot)
      BY DEF RoomInv, Seated
    <3>7. Informs(d, mine, toServer[d], ts2, typed[d], room.golf, rg2, slots, slots, info, inf2)
      <4>1. ~GolfRom /\ "golf" \notin typed[d] => Ends(mine, "golf", 0, {room.golf}, rg2)
        BY <3>3 DEF Passes
      <4>2. ASSUME NEW i, NEW f, Present(slots, i), f \in Fields
            PROVE  \/ Ends(mine, f, i, {}, Of(inf2[slots[i]], f))
                   \/ slots[i] = d /\ Own(ts2, typed[d], f)
                   \/ /\ Ends(mine, f, i, {Of(info[slots[i]], f)}, Of(inf2[slots[i]], f))
                      /\ slots[i] = d /\ Own(toServer[d], typed[d], f) => Own(ts2, typed[d], f)
        <5>1. \/ Ends(mine, f, i, {}, Of(inf2[slots[i]], f))
              \/ slots[i] = d /\ f # "lag" /\ "map" \in typed[d]
              \/ /\ Ends(mine, f, i, {Of(info[slots[i]], f)}, Of(inf2[slots[i]], f))
                 /\ slots[i] = c => ~Asks(Head(toServer[c]), f)
          BY <3>3, <4>2 DEF Passes
        <5>2. ASSUME slots[i] = c => ~Asks(Head(toServer[c]), f)
              PROVE  slots[i] = d /\ Own(toServer[d], typed[d], f) => Own(ts2, typed[d], f)
          BY <3>5, <5>2
        <5>3. f # "lag" /\ "map" \in typed[d] => Own(ts2, typed[d], f)
          BY DEF Own
        <5> HIDE DEF ts2, inf2
        <5> QED
          BY <5>1, <5>2, <5>3
      <4> QED
        BY <4>1, <4>2 DEF Informs
    <3> HIDE DEF ts2, rg2, inf2
    <3>8. Told(d, ts2, toClient[d] \o mine, users[d], golf[d], typed[d], rg2, slots, inf2)
      BY <2>1, <3>1, <3>4, <3>7, ToldInforms
    <3> QED
      BY <3>2, <3>8 DEF ts2, rg2, inf2
  <2> QED
    BY <1>1, <2>3, <2>4 DEF ToldClient
<1>5. ASSUME NEW d \in Client, link[d] = "closed" PROVE ToldClient(d)'
  BY <1>1, <1>5 DEF ToldClient
<1>6. IsTable(typed')
  BY <1>1 DEF ToldInv
<1> QED
  BY <1>4, <1>5, <1>6 DEF ToldInv

-----------------------------------------------------------------------------
(* What the server's messages say.                                          *)

LEMMA EndsSilent ==
  ASSUME NEW f, NEW i, NEW y, NEW t, \A n \in 1..Len(t) : ~Says(t[n], f, i)
  PROVE  Ends(t, f, i, {y}, y)
BY DEF Ends

LEMMA EndsQuiet ==
  ASSUME NEW f, NEW i, NEW y, NEW m, ~Says(m, f, i)
  PROVE  Ends(<<m>>, f, i, {y}, y) /\ Ends(<<>>, f, i, {y}, y)
BY EndsOne, EndsNone

\* Messages about nothing of this.
LEMMA SaysNothing ==
  ASSUME NEW m, m.type \notin {"ACCEPT", "JOIN", "LAG", "INPUT_MAP", "CONTROLLERS", "GOLF"},
         NEW f, NEW i
  PROVE  ~Says(m, f, i)
BY DEF Says

LEMMA SaysLag ==
  ASSUME NEW lag, NEW ids, NEW f, NEW i
  PROVE  /\ Says(Lag(lag, ids), f, i) <=> f = "lag" /\ i \in ids
         /\ Said(Lag(lag, ids), f, i) = lag
<1> DEFINE m == Lag(lag, ids)
<1>1. m.type = "LAG" /\ m.ids = ids /\ m.lag = lag
  BY DEF Lag
<1> HIDE DEF m
<1>2. (Says(m, f, i) <=> f = "lag" /\ i \in ids) /\ Said(m, f, i) = lag
  BY <1>1 DEF Says, Said
<1> QED
  BY <1>2 DEF m

\* CONTROLLERS has of every user of the list what the server has.
LEMMA SaysControllers ==
  ASSUME NEW sl \in Seq(Slot), NEW inf, NEW f, NEW i, Present(sl, i)
  PROVE  /\ Says(Controllers(sl, inf), f, i) <=> f \in {"map", "plugged"}
         /\ f \in {"map", "plugged"} => Said(Controllers(sl, inf), f, i) = Of(inf[sl[i]], f)
<1> DEFINE m == Controllers(sl, inf)
           n == Rank(sl, i)
<1>1. m.type = "CONTROLLERS" /\ m.list = sl
  BY DEF Controllers
<1>2. Len(sl) \in Nat
  OBVIOUS
<1>3. Live(sl)[n] = i /\ n \in 1..Len(Live(sl))
  BY <1>2, LiveRank
<1>4. Len(Names(sl)) = Len(Live(sl)) /\ Names(sl)[n] = sl[i]
  <2>1. Len(Names(sl)) = Len(Live(sl))
    BY NamesParts
  <2> HIDE DEF n
  <2>2. Names(sl)[n] = sl[Live(sl)[n]]
    BY <1>3 DEF Names
  <2> QED
    BY <1>3, <2>1, <2>2
<1>5. m.records[n].plugged = inf[sl[i]].plugged /\ m.records[n].map = inf[sl[i]].map
  <2> HIDE DEF n
  <2>1. n \in 1..Len(Names(sl))
    BY <1>3, <1>4
  <2>2. /\ m.records[n].plugged = inf[Names(sl)[n]].plugged
        /\ m.records[n].map = inf[Names(sl)[n]].map
    BY <2>1 DEF Controllers
  <2> QED
    BY <1>4, <2>2
<1> HIDE DEF m
<1>6. Says(m, f, i) <=> f \in {"map", "plugged"}
  BY <1>1 DEF Says
<1>7. f \in {"map", "plugged"} => Said(m, f, i) = Of(inf[sl[i]], f)
  BY <1>1, <1>5 DEF Said, Of
<1> QED
  BY <1>6, <1>7 DEF m

LEMMA SilentControllers ==
  ASSUME NEW sl, NEW inf, NEW f, f \notin {"map", "plugged"}, NEW i
  PROVE  ~Says(Controllers(sl, inf), f, i)
<1>1. Controllers(sl, inf).type = "CONTROLLERS"
  BY DEF Controllers
<1> QED
  BY <1>1 DEF Says

\* Mapping the controllers to ports leaves lag and plugged controllers alone.
LEMMA MappedOf ==
  ASSUME NEW inf, Infos(inf), NEW sl, NEW man, NEW x \in Client, NEW f \in {"lag", "plugged"}
  PROVE  Of(ControllerMap(sl, inf, man)[x], f) = Of(inf[x], f)
<1> DEFINE auto == {sl[i] : i \in 1..Len(sl)} \ man
           port == Cardinality(Earlier(sl, x, inf, man)) + 1
           v == IF inf[x].plugged /\ port <= 4 THEN port ELSE 0
           r == [inf[x] EXCEPT !.map = v]
<1>1. ControllerMap(sl, inf, man)[x] = IF x \notin auto THEN inf[x] ELSE r
  BY DEF ControllerMap
<1>2. inf[x] \in UserInfos
  BY DEF Infos
<1> HIDE DEF v
<1>3. r.lag = inf[x].lag /\ r.plugged = inf[x].plugged
  BY <1>2 DEF UserInfos
<1> HIDE DEF r, auto
<1> QED
  BY <1>1, <1>3 DEF Of

\* Who is in a list of the room.
LEMMA PresentMember ==
  ASSUME NEW sl, NEW sv, Seated(sl, sv), NEW i, Present(sl, i)
  PROVE  sl[i] \in Client /\ sv[sl[i]] = "member" /\ Pos(sl, sl[i]) = i
<1>1. sl \in Seq(Slot) /\ i \in 1..Len(sl) /\ sl[i] # NoUser
  BY DEF Seated, Present
<1>2. sl[i] \in Client
  BY <1>1 DEF Slot
<1>3. sv[sl[i]] = "member"
  BY <1>1, <1>2 DEF Seated
<1> QED
  BY <1>1, <1>2, <1>3, PosParts

-----------------------------------------------------------------------------
(* The server's steps.                                                      *)

\* A packet that changes nothing of this.
LEMMA ToldPlain ==
  ASSUME RoomInv, ToldInv, NEW c \in Client, NEW type, Handles(c, type),
         type \notin {"LAG", "CONTROLLERS"}, slots' = slots, room'.golf = room.golf,
         \A x \in Client, f \in Fields : Of(info'[x], f) = Of(info[x], f),
         NEW to, NEW m, m.type \notin {"ACCEPT", "JOIN", "LAG", "INPUT_MAP", "CONTROLLERS", "GOLF"},
         toClient' = SendAll(to, <<m>>) \/ UNCHANGED toClient
  PROVE  ToldInv'
<1>1. Head(toServer[c]).type = type
  BY DEF Handles
<1>2. \A f : ~Asks(Head(toServer[c]), f)
  BY <1>1 DEF Asks
<1>3. \A f, i : ~Says(m, f, i)
  BY SaysNothing
<1>4. ASSUME NEW d, NEW ms \in {<<>>, <<m>>} PROVE Passes(c, d, ms)
  <2>1. \A f, i, y : Ends(ms, f, i, {y}, y)
    BY <1>3, EndsQuiet
  <2>2. \A i : Present(slots, i) => slots[i] \in Client
    BY PresentMember DEF RoomInv
  <2> QED
    BY <1>2, <2>1, <2>2 DEF Passes
<1>5. \E to2 : \E ms \in {<<>>, <<m>>} : toClient' = SendAll(to2, ms)
  <2>1. ASSUME UNCHANGED toClient PROVE toClient' = SendAll({}, <<>>)
    BY <2>1 DEF RoomInv, RoomTypes, IsTable, SendAll
  <2> QED
    BY <2>1
<1> PICK to2 : \E ms \in {<<>>, <<m>>} : toClient' = SendAll(to2, ms)
  BY <1>5
<1>6. PICK ms \in {<<>>, <<m>>} : toClient' = SendAll(to2, ms)
  OBVIOUS
<1>7. \A d \in Client : Passes(c, d, IF d \in to2 THEN ms ELSE <<>>)
  BY <1>4
<1>8. IsChannel(ms)
  BY ChannelNone, ChannelOne
<1> QED
  BY <1>6, <1>7, <1>8, ToldHandles


\* A change of one record, by the server.
LEMMA InfoChange ==
  ASSUME NEW inf, Infos(inf), NEW u, NEW r, NEW inf2, Changes(inf, inf2, u, r)
  PROVE  /\ \A x \in Client : inf2[x] = IF x = u THEN r ELSE inf[x]
         /\ \A x \in Client : inf[x] \in UserInfos
BY DEF Infos, Changes

LEMMA ServerAutolagTold ==
  ASSUME RoomInv, ToldInv, NEW c \in Client, ServerAutolag(c) PROVE ToldInv'
<1> DEFINE m == Message("NAME")
<1>1. /\ Handles(c, "AUTOLAG") /\ UNCHANGED <<slots, info, toClient>>
      /\ room' = [room EXCEPT !.autolag = IF Head(toServer[c]).value = 0 THEN FALSE ELSE ~room.autolag]
  BY DEF ServerAutolag
<1>2. room'.golf = room.golf
  BY <1>1 DEF RoomInv, RoomTypes
<1>3. m.type = "NAME"
  BY DEF Message
<1> HIDE DEF m
<1> QED
  BY <1>1, <1>2, <1>3, ToldPlain

LEMMA ServerStartTold ==
  ASSUME RoomInv, ToldInv, NEW c \in Client, ServerStart(c) PROVE ToldInv'
<1> DEFINE m == Message("START")
<1>1. /\ Handles(c, "START") /\ UNCHANGED <<slots, info>>
      /\ room' = [room EXCEPT !.started = TRUE]
      /\ toClient' = SendAll(Members, <<m>>) \/ UNCHANGED toClient
  BY DEF ServerStart
<1>2. room'.golf = room.golf
  BY <1>1 DEF RoomInv, RoomTypes
<1>3. m.type = "START"
  BY DEF Message
<1> HIDE DEF m
<1> QED
  BY <1>1, <1>2, <1>3, ToldPlain

LEMMA ServerNameTold ==
  ASSUME RoomInv, ToldInv, NEW c \in Client, ServerName(c) PROVE ToldInv'
<1> DEFINE m == [type |-> "NAME", user |-> Pos(slots, c)]
           to == Members \ {c}
<1>1. /\ Handles(c, "NAME") /\ UNCHANGED <<slots, room, info>> /\ toClient' = SendAll(to, <<m>>)
  BY DEF ServerName, serverVars
<1>2. m.type = "NAME"
  OBVIOUS
<1> HIDE DEF m, to
<1> QED
  BY <1>1, <1>2, ToldPlain

LEMMA ServerInputTold ==
  ASSUME RoomInv, ToldInv, NEW c \in Client, ServerInput(c) PROVE ToldInv'
<1> DEFINE m == Head(toServer[c])
           u == slots[m.user]
           n == info[u].inputs + m.count
           r == [info[u] EXCEPT !.inputs = n]
           to == Members \ {c}
<1>1. /\ Handles(c, "INPUT_DATA") /\ UNCHANGED <<slots, room>>
      /\ \/ UNCHANGED <<info, toClient>>
         \/ Changes(info, info', u, r) /\ toClient' = SendAll(to, <<m>>)
  BY DEF ServerInput, Changes
<1>2. m.type = "INPUT_DATA" /\ Infos(info)
  BY <1>1, HandledSane DEF RoomInv
<1>3. ASSUME NEW x \in Client, NEW f \in Fields PROVE Of(info'[x], f) = Of(info[x], f)
  <2>1. CASE UNCHANGED info
    BY <2>1
  <2>2. CASE Changes(info, info', u, r)
    <3>1. info[x] \in UserInfos /\ info'[x] = IF x = u THEN r ELSE info[x]
      <4> HIDE DEF u, r
      <4> QED
        BY <1>2, <2>2, InfoChange
    <3> HIDE DEF u, n
    <3>2. x = u => r.lag = info[x].lag /\ r.map = info[x].map /\ r.plugged = info[x].plugged
      BY <3>1 DEF UserInfos
    <3> HIDE DEF r
    <3> QED
      BY <3>1, <3>2 DEF Of
  <2> QED
    BY <1>1, <2>1, <2>2
<1>4. toClient' = SendAll(to, <<m>>) \/ UNCHANGED toClient
  BY <1>1
<1> HIDE DEF m, to
<1> QED
  BY <1>1, <1>2, <1>3, <1>4, ToldPlain

LEMMA ServerAuthorityTold ==
  ASSUME RoomInv, ToldInv, NEW c \in Client,
         NEW type \in {"REQUEST_AUTHORITY", "DELEGATE_AUTHORITY"}, ServerAuthority(c, type)
  PROVE  ToldInv'
<1> DEFINE m == Head(toServer[c])
           u == slots[m.user]
           a == m.authority
           r == [info[u] EXCEPT !.authority = a]
           to == Members \ {c}
<1>1. /\ Handles(c, type) /\ UNCHANGED <<slots, room>>
      /\ toClient' = SendAll(to, <<m>>) \/ UNCHANGED toClient
      /\ UNCHANGED info \/ Changes(info, info', u, r)
  BY DEF ServerAuthority, Changes
<1>2. m.type = type /\ Infos(info)
  BY <1>1, HandledSane DEF RoomInv
<1>3. ASSUME NEW x \in Client, NEW f \in Fields PROVE Of(info'[x], f) = Of(info[x], f)
  <2>1. CASE UNCHANGED info
    BY <2>1
  <2>2. CASE Changes(info, info', u, r)
    <3>1. info[x] \in UserInfos /\ info'[x] = IF x = u THEN r ELSE info[x]
      <4> HIDE DEF u, r
      <4> QED
        BY <1>2, <2>2, InfoChange
    <3> HIDE DEF u, a
    <3>2. x = u => r.lag = info[x].lag /\ r.map = info[x].map /\ r.plugged = info[x].plugged
      BY <3>1 DEF UserInfos
    <3> HIDE DEF r
    <3> QED
      BY <3>1, <3>2 DEF Of
  <2> QED
    BY <1>1, <2>1, <2>2
<1>4. m.type \notin {"ACCEPT", "JOIN", "LAG", "INPUT_MAP", "CONTROLLERS", "GOLF"}
      /\ type \notin {"LAG", "CONTROLLERS"}
  BY <1>2
<1> HIDE DEF m, to
<1> QED
  BY <1>1, <1>3, <1>4, ToldPlain

\* A change of the golf flag is told to the others; c typed it.
LEMMA ServerGolfTold ==
  ASSUME RoomInv, ToldInv, NEW c \in Client, ServerGolf(c) PROVE ToldInv'
<1> DEFINE on == Head(toServer[c]).golf
           m == [type |-> "GOLF", golf |-> on]
           to == IF on = room.golf THEN {} ELSE Members \ {c}
           ms == <<m>>
<1>1. /\ Handles(c, "GOLF") /\ UNCHANGED <<slots, info>>
      /\ room' = [room EXCEPT !.golf = on]
      /\ toClient' = IF on = room.golf THEN toClient ELSE SendAll(Members \ {c}, <<m>>)
  BY DEF ServerGolf
<1>2. room'.golf = on /\ IsTable(toClient)
  BY <1>1 DEF RoomInv, RoomTypes
<1>3. toClient' = SendAll(to, ms)
  BY <1>1, <1>2 DEF IsTable, SendAll
<1>4. Head(toServer[c]).type = "GOLF" /\ toServer[c] # <<>>
  BY <1>1 DEF Handles
<1>5. ASSUME NEW d \in Client, link[d] # "closed", serving[d] = "member"
      PROVE  Passes(c, d, IF d \in to THEN ms ELSE <<>>)
  <2> DEFINE mine == IF d \in to THEN ms ELSE <<>>
  <2>1. (Says(m, "golf", 0) /\ Said(m, "golf", 0) = on) /\ \A i : \A f \in Fields : ~Says(m, f, i)
    BY DEF Says, Said, Fields
  <2>2. ASSUME "golf" \notin typed[d] PROVE Ends(mine, "golf", 0, {room.golf}, on)
    <3>1. d # c
      <4>1. ASSUME d = c PROVE FALSE
        <5>1. Typing(toServer[c], typed[c]) /\ IsChannel(toServer[c])
          BY <1>5, <4>1 DEF ToldInv, ToldClient, RoomInv, GoodClient, Good, AllSane
        <5>2. Has(toServer[c], "GOLF")
          BY <1>4, <5>1, HasTail
        <5> QED
          BY <2>2, <4>1, <5>1, <5>2 DEF Typing
      <4> QED
        BY <4>1
    <3>2. CASE on = room.golf
      <4>1. mine = <<>>
        BY <3>2
      <4> QED
        BY <3>2, <4>1, EndsNone
    <3>3. CASE on # room.golf
      <4>1. mine = ms
        BY <1>5, <3>1, <3>3 DEF Members
      <4> HIDE DEF m, mine
      <4> QED
        BY <2>1, <4>1, EndsOne
    <3> QED
      BY <3>2, <3>3
  <2>3. ASSUME NEW i, NEW f \in Fields, NEW y PROVE Ends(mine, f, i, {y}, y)
    <3> HIDE DEF m, to
    <3> QED
      BY <2>1, EndsQuiet
  <2>4. \A f : ~Asks(Head(toServer[c]), f)
    BY <1>4 DEF Asks
  <2> HIDE DEF mine, on
  <2>5. Passes(c, d, mine)
    BY <1>1, <1>2, <2>2, <2>3, <2>4 DEF Passes
  <2> QED
    BY <2>5 DEF mine
<1>6. IsChannel(ms)
  BY ChannelOne
<1> HIDE DEF m, to, ms
<1> QED
  BY <1>1, <1>3, <1>5, <1>6, ToldHandles

\* A map is told to the others; c typed it.
LEMMA ServerMapTold ==
  ASSUME RoomInv, ToldInv, NEW c \in Client, ServerMap(c) PROVE ToldInv'
<1> DEFINE v == Head(toServer[c]).map
           r == [info[c] EXCEPT !.map = v]
           m == [type |-> "INPUT_MAP", user |-> Pos(slots, c), map |-> v]
           to == Members \ {c}
           ms == <<m>>
<1>1. /\ Handles(c, "INPUT_MAP") /\ UNCHANGED <<slots, room>>
      /\ Changes(info, info', c, r) /\ toClient' = SendAll(to, ms)
  BY DEF ServerMap, Changes
<1>2. Head(toServer[c]).type = "INPUT_MAP" /\ toServer[c] # <<>> /\ serving[c] = "member"
  BY <1>1 DEF Handles
<1>3. Infos(info) /\ Seated(slots, serving)
  BY DEF RoomInv
<1>4. \A x \in Client : info[x] \in UserInfos /\ info'[x] = IF x = c THEN r ELSE info[x]
  <2> HIDE DEF r
  <2> QED
    BY <1>1, <1>3, InfoChange
<1>5. r.lag = info[c].lag /\ r.map = v /\ r.plugged = info[c].plugged
  BY <1>4 DEF UserInfos
<1>6. \A f, i : Says(m, f, i) <=> f = "map" /\ i = Pos(slots, c)
  BY DEF Says, Fields
<1>7. \A f, i : Said(m, f, i) = v
  BY DEF Said
<1> HIDE DEF m, r, v
<1>8. ASSUME NEW d \in Client, link[d] # "closed", serving[d] = "member"
      PROVE  Passes(c, d, IF d \in to THEN ms ELSE <<>>)
  <2> DEFINE mine == IF d \in to THEN ms ELSE <<>>
  <2>1. \A y : Ends(mine, "golf", 0, {y}, y)
    <3>1. ~Says(m, "golf", 0)
      BY <1>6
    <3> QED
      BY <3>1, EndsQuiet
  <2>2. d = c => "map" \in typed[d]
    <3>1. SUFFICES ASSUME d = c PROVE "map" \in typed[c]
      OBVIOUS
    <3>2. Typing(toServer[c], typed[c]) /\ IsChannel(toServer[c])
      BY <1>8, <3>1 DEF ToldInv, ToldClient, RoomInv, GoodClient, Good, AllSane
    <3>3. Has(toServer[c], "INPUT_MAP")
      BY <1>2, <3>2, HasTail
    <3> QED
      BY <3>2, <3>3 DEF Typing
  <2>3. ASSUME NEW i, NEW f, Present(slots, i), f \in Fields
        PROVE  \/ Ends(mine, f, i, {}, Of(info'[slots[i]], f))
               \/ slots[i] = d /\ f # "lag" /\ "map" \in typed[d]
               \/ /\ Ends(mine, f, i, {Of(info[slots[i]], f)}, Of(info'[slots[i]], f))
                  /\ slots[i] = c => ~Asks(Head(toServer[c]), f)
    <3>1. slots[i] \in Client /\ Pos(slots, slots[i]) = i
      BY <1>3, <2>3, PresentMember
    <3>2. ~Asks(Head(toServer[c]), f)
      BY <1>2 DEF Asks
    <3>3. CASE slots[i] = c /\ f = "map"
      <4>1. Of(info'[slots[i]], f) = v
        BY <1>4, <1>5, <3>1, <3>3 DEF Of
      <4>2. Says(m, f, i) /\ Said(m, f, i) = v
        BY <1>6, <1>7, <3>1, <3>3
      <4>3. CASE d = c
        BY <2>2, <3>3, <4>3
      <4>4. CASE d # c
        <5>1. mine = ms
          BY <1>8, <4>4 DEF Members
        <5>2. Ends(ms, f, i, {}, v)
          BY <4>2, EndsOne
        <5> QED
          BY <4>1, <5>1, <5>2
      <4> QED
        BY <4>3, <4>4
    <3>4. CASE ~(slots[i] = c /\ f = "map")
      <4>1. Of(info'[slots[i]], f) = Of(info[slots[i]], f)
        BY <1>4, <1>5, <2>3, <3>1, <3>4 DEF Of, Fields
      <4>2. ~Says(m, f, i)
        <5>1. Present(slots, Pos(slots, c)) /\ slots[Pos(slots, c)] = c
          BY <1>2, <1>3, PosParts
        <5> QED
          BY <1>6, <3>4, <5>1
      <4>3. \A y : Ends(mine, f, i, {y}, y)
        BY <4>2, EndsQuiet
      <4> QED
        BY <3>2, <4>1, <4>3
    <3> QED
      BY <3>3, <3>4
  <2> HIDE DEF mine
  <2>4. Passes(c, d, mine)
    BY <1>1, <2>1, <2>3 DEF Passes
  <2> QED
    BY <2>4 DEF mine
<1>9. IsChannel(ms)
  BY ChannelOne
<1> HIDE DEF to, ms
<1> QED
  BY <1>1, <1>8, <1>9, ToldHandles

\* Controllers are told to all, by the positions of the list they all end with.
LEMMA ServerControllersTold ==
  ASSUME RoomInv, ToldInv, NEW c \in Client, ServerControllers(c) PROVE ToldInv'
<1> DEFINE v == Head(toServer[c]).plugged
           r == [info[c] EXCEPT !.plugged = v]
           inf == [info EXCEPT ![c].plugged = v]
           inf2 == info'
           m == Controllers(slots, inf2)
           ms == <<m>>
<1>1. /\ Handles(c, "CONTROLLERS") /\ UNCHANGED <<slots, room>>
      /\ inf2 = IF room.started THEN inf ELSE ControllerMap(slots, inf, manual)
      /\ toClient' = SendAll(Members, ms)
  BY DEF ServerControllers
<1>2. Infos(info) /\ Seated(slots, serving) /\ slots \in Seq(Slot)
  BY DEF RoomInv, Seated
<1>3. v \in BOOLEAN /\ Head(toServer[c]).type = "CONTROLLERS"
  BY <1>1, HandledSane DEF Sane
<1>4. r \in UserInfos /\ r.name = c /\ r.lag = info[c].lag
  BY <1>2, <1>3 DEF Infos, UserInfos
<1>5. Changes(info, inf, c, r)
  BY DEF Changes
<1> HIDE DEF inf, r, inf2
<1>6. Infos(inf) /\ \A x \in Client : inf[x] = IF x = c THEN r ELSE info[x]
  <2>1. \A x \in Client : inf[x] = IF x = c THEN r ELSE info[x]
    BY <1>2, <1>5, InfoChange
  <2>2. inf = [info EXCEPT ![c] = r]
    BY <1>5 DEF Changes
  <2>3. Infos(inf)
    BY <1>2, <1>4, <2>2, InfosChange
  <2> QED
    BY <2>1, <2>3
<1>7. ASSUME NEW x \in Client PROVE Of(inf2[x], "lag") = Of(info[x], "lag")
  <2>1. Of(inf[x], "lag") = Of(info[x], "lag")
    BY <1>4, <1>6 DEF Of
  <2>2. Of(ControllerMap(slots, inf, manual)[x], "lag") = Of(inf[x], "lag")
    BY <1>6, MappedOf
  <2> QED
    BY <1>1, <2>1, <2>2
<1>8. ASSUME NEW d \in Client, serving[d] = "member"
      PROVE  Passes(c, d, IF d \in Members THEN ms ELSE <<>>)
  <2>1. (IF d \in Members THEN ms ELSE <<>>) = ms
    BY <1>8 DEF Members
  <2>2. \A y : Ends(ms, "golf", 0, {y}, y)
    <3>1. ~Says(m, "golf", 0)
      BY SilentControllers
    <3> HIDE DEF m
    <3> QED
      BY <3>1, EndsQuiet
  <2>3. ASSUME NEW i, NEW f, Present(slots, i), f \in Fields
        PROVE  \/ Ends(ms, f, i, {}, Of(inf2[slots[i]], f))
               \/ /\ Ends(ms, f, i, {Of(info[slots[i]], f)}, Of(inf2[slots[i]], f))
                  /\ slots[i] = c => ~Asks(Head(toServer[c]), f)
    <3>1. CASE f \in {"map", "plugged"}
      <4>1. Says(m, f, i) /\ Said(m, f, i) = Of(inf2[slots[i]], f)
        BY <1>2, <2>3, <3>1, SaysControllers
      <4> HIDE DEF m
      <4> QED
        BY <4>1, EndsOne
    <3>2. CASE f = "lag"
      <4>1. ~Says(m, f, i)
        BY <3>2, SilentControllers
      <4>2. ~Asks(Head(toServer[c]), f)
        BY <1>3, <3>2 DEF Asks
      <4>3. slots[i] \in Client
        BY <1>2, <2>3, PresentMember
      <4>4. Of(inf2[slots[i]], f) = Of(info[slots[i]], f)
        BY <1>7, <3>2, <4>3
      <4> HIDE DEF m
      <4> QED
        BY <4>1, <4>2, <4>4, EndsQuiet
    <3> QED
      BY <2>3, <3>1, <3>2 DEF Fields
  <2> HIDE DEF ms
  <2>4. Passes(c, d, ms)
    BY <1>1, <2>2, <2>3 DEF Passes, inf2
  <2> QED
    BY <2>1, <2>4
<1> HIDE DEF m
<1>9. IsChannel(ms)
  BY ChannelOne
<1> HIDE DEF ms
<1> QED
  BY <1>1, <1>8, <1>9, ToldHandles

\* A lag is told to all, also to who typed it.
LEMMA ServerLagTold ==
  ASSUME RoomInv, ToldInv, NEW c \in Client, ServerLag(c) PROVE ToldInv'
<1> DEFINE m == Head(toServer[c])
           lag == m.lag
           mine == IF m.mine THEN [info EXCEPT ![c].lag = lag] ELSE info
           own == {Pos(slots, c)}
           others == {Pos(slots, d) : d \in Members \ {c}}
           a == IF m.mine THEN <<Lag(lag, own)>> ELSE <<>>
           b == IF m.theirs THEN <<Lag(lag, others)>> ELSE <<>>
           inf2 == info'
<1>1. /\ Handles(c, "LAG") /\ slots' = slots
      /\ inf2 = IF m.theirs THEN SetRoomLag(mine, lag, {c}) ELSE mine
      /\ room' = IF m.theirs THEN [room EXCEPT !.lag = lag] ELSE room
      /\ toClient' = SendAll(Members, a \o b)
  BY DEF ServerLag
<1>2. c \in Members /\ m.type = "LAG" /\ serving[c] = "member"
  BY <1>1, HandledSane
<1>3. Infos(info) /\ Seated(slots, serving) /\ room'.golf = room.golf
  BY <1>1 DEF RoomInv, RoomTypes
<1>4. \A x \in Client : info[x] \in UserInfos
  BY <1>3 DEF Infos
<1>5. \A x \in Client : mine[x] = IF x = c /\ m.mine THEN [info[x] EXCEPT !.lag = lag] ELSE info[x]
  BY <1>3 DEF Infos
<1> HIDE DEF mine, lag, inf2
<1>6. \A x \in Members : x \in Client
  BY DEF Members
<1>7. \A x \in Members :
        inf2[x] = IF (x = c /\ m.mine) \/ (x # c /\ m.theirs)
                  THEN [info[x] EXCEPT !.lag = lag] ELSE info[x]
  BY <1>1, <1>5, <1>6 DEF SetRoomLag
<1>8. ASSUME NEW i, Present(slots, i)
      PROVE  /\ slots[i] \in Members
             /\ i \in own <=> slots[i] = c
             /\ i \in others <=> slots[i] # c
  <2>1. slots[i] \in Members /\ Pos(slots, slots[i]) = i
    BY <1>3, <1>8, PresentMember DEF Members
  <2>2. \A d \in Members : slots[Pos(slots, d)] = d
    BY <1>3, PosParts DEF Members
  <2> QED
    BY <1>2, <2>1, <2>2
<1> HIDE DEF own, others
<1>9. /\ \A f, i : Says(Lag(lag, own), f, i) <=> f = "lag" /\ i \in own
      /\ \A f, i : Says(Lag(lag, others), f, i) <=> f = "lag" /\ i \in others
      /\ \A f, i : Said(Lag(lag, own), f, i) = lag /\ Said(Lag(lag, others), f, i) = lag
  BY SaysLag
<1>10. IsChannel(a) /\ IsChannel(b) /\ IsChannel(a \o b)
  <2>1. IsChannel(a) /\ IsChannel(b)
    BY ChannelOne, ChannelNone
  <2> HIDE DEF a, b
  <2> QED
    BY <2>1, ChannelConcat
<1>11. ASSUME NEW f, NEW i, NEW y, f = "lag" => i \notin own
       PROVE  Ends(a, f, i, {y}, y)
  <2>1. ~Says(Lag(lag, own), f, i)
    BY <1>9, <1>11
  <2> QED
    BY <2>1, EndsQuiet
<1>12. ASSUME NEW f, NEW i, NEW y, f = "lag" => i \notin others
       PROVE  Ends(b, f, i, {y}, y)
  <2>1. ~Says(Lag(lag, others), f, i)
    BY <1>9, <1>12
  <2> QED
    BY <2>1, EndsQuiet
<1>13. ASSUME NEW i, i \in own, m.mine PROVE Ends(a, "lag", i, {}, lag)
  <2>1. Says(Lag(lag, own), "lag", i) /\ Said(Lag(lag, own), "lag", i) = lag
    BY <1>9, <1>13
  <2> QED
    BY <1>13, <2>1, EndsOne
<1>14. ASSUME NEW i, i \in others, m.theirs PROVE Ends(b, "lag", i, {}, lag)
  <2>1. Says(Lag(lag, others), "lag", i) /\ Said(Lag(lag, others), "lag", i) = lag
    BY <1>9, <1>14
  <2> QED
    BY <1>14, <2>1, EndsOne
<1>15. (~m.mine => a = <<>>) /\ (~m.theirs => b = <<>>)
  OBVIOUS
<1> HIDE DEF a, b
<1> DEFINE ms == a \o b
<1>16. ASSUME NEW f, NEW i, NEW y, Ends(a, f, i, {y}, y), Ends(b, f, i, {y}, y)
       PROVE  Ends(ms, f, i, {y}, y)
  BY <1>10, <1>16, EndsConcat
<1>17. ASSUME NEW d \in Client, serving[d] = "member"
       PROVE  Passes(c, d, IF d \in Members THEN ms ELSE <<>>)
  <2>1. (IF d \in Members THEN ms ELSE <<>>) = ms
    BY <1>17 DEF Members
  <2>2. \A y : Ends(ms, "golf", 0, {y}, y)
    BY <1>11, <1>12, <1>16
  <2>3. ASSUME NEW i, NEW f, Present(slots, i), f \in Fields
        PROVE  \/ Ends(ms, f, i, {}, Of(inf2[slots[i]], f))
               \/ /\ Ends(ms, f, i, {Of(info[slots[i]], f)}, Of(inf2[slots[i]], f))
                  /\ slots[i] = c => ~Asks(Head(toServer[c]), f)
    <3> DEFINE x == slots[i]
               r == [info[x] EXCEPT !.lag = lag]
    <3>1. x \in Members /\ (i \in own <=> x = c) /\ (i \in others <=> x # c)
      BY <1>8, <2>3
    <3> HIDE DEF x
    <3>2. r.lag = lag /\ r.map = info[x].map /\ r.plugged = info[x].plugged
      BY <1>4, <1>6, <3>1 DEF UserInfos
    <3>3. inf2[x] = IF (x = c /\ m.mine) \/ (x # c /\ m.theirs) THEN r ELSE info[x]
      BY <1>7, <3>1
    <3> HIDE DEF r
    <3>4. CASE f # "lag"
      <4>1. Of(inf2[x], f) = Of(info[x], f)
        BY <2>3, <3>2, <3>3, <3>4 DEF Of, Fields
      <4>2. \A y : Ends(ms, f, i, {y}, y)
        BY <1>11, <1>12, <1>16, <3>4
      <4>3. ~Asks(Head(toServer[c]), f)
        BY <1>2, <3>4 DEF Asks
      <4> HIDE DEF ms
      <4> QED
        BY <4>1, <4>2, <4>3 DEF x
    <3>5. CASE f = "lag" /\ x = c /\ m.mine
      <4>1. Ends(a, f, i, {}, lag)
        BY <1>13, <3>1, <3>5
      <4>2. Ends(b, f, i, {lag}, lag)
        BY <1>12, <3>1, <3>5
      <4>3. \A y \in {lag} : Ends(a, f, i, {}, y)
        BY <4>1
      <4>4. Ends(ms, f, i, {}, lag)
        BY <1>10, <4>2, <4>3, EndsConcat
      <4>5. Of(inf2[x], f) = lag
        BY <3>2, <3>3, <3>5 DEF Of
      <4> HIDE DEF ms
      <4> QED
        BY <4>4, <4>5 DEF x
    <3>6. CASE f = "lag" /\ x # c /\ m.theirs
      <4>1. Ends(b, f, i, {}, lag)
        BY <1>14, <3>1, <3>6
      <4>2. \A y \in {} : Ends(a, f, i, {}, y)
        OBVIOUS
      <4>3. Ends(ms, f, i, {}, lag)
        BY <1>10, <4>1, <4>2, EndsConcat
      <4>4. Of(inf2[x], f) = lag
        BY <3>2, <3>3, <3>6 DEF Of
      <4> HIDE DEF ms
      <4> QED
        BY <4>3, <4>4 DEF x
    <3>7. CASE f = "lag" /\ ((x = c /\ ~m.mine) \/ (x # c /\ ~m.theirs))
      <4>1. Of(inf2[x], f) = Of(info[x], f)
        BY <3>3, <3>7
      <4>2. x = c => ~Asks(Head(toServer[c]), f)
        BY <3>7 DEF Asks
      <4>3. \A y : Ends(a, f, i, {y}, y)
        <5>1. CASE x = c
          BY <1>15, <3>7, <5>1, EndsNone
        <5>2. CASE x # c
          BY <1>11, <3>1, <5>2
        <5> QED
          BY <5>1, <5>2
      <4>4. \A y : Ends(b, f, i, {y}, y)
        <5>1. CASE x # c
          BY <1>15, <3>7, <5>1, EndsNone
        <5>2. CASE x = c
          BY <1>12, <3>1, <5>2
        <5> QED
          BY <5>1, <5>2
      <4>5. \A y : Ends(ms, f, i, {y}, y)
        BY <1>16, <4>3, <4>4
      <4> HIDE DEF ms
      <4> QED
        BY <4>1, <4>2, <4>5 DEF x
    <3> HIDE DEF ms
    <3> QED
      BY <3>4, <3>5, <3>6, <3>7
  <2> HIDE DEF ms
  <2>4. Passes(c, d, ms)
    BY <1>3, <2>2, <2>3 DEF Passes, inf2
  <2> QED
    BY <2>1, <2>4
<1> HIDE DEF ms
<1>18. toClient' = SendAll(Members, ms) /\ IsChannel(ms)
  BY <1>1, <1>10 DEF ms
<1> QED
  BY <1>1, <1>17, <1>18, ToldHandles

-----------------------------------------------------------------------------
(* Steps of the server that are not about a packet of a member, or change   *)
(* who is in the room.                                                      *)

\* d is sent ms, and takes no other part.
LEMMA ToldOther ==
  ASSUME RoomInv, ToldInv, NEW d \in Client,
         users'[d] = users[d], golf'[d] = golf[d], typed'[d] = typed[d], link'[d] = link[d],
         serving'[d] = serving[d], toServer'[d] = toServer[d],
         NEW ms, IsChannel(ms), toClient'[d] = toClient[d] \o ms,
         link[d] # "closed" /\ serving[d] = "member" =>
            Informs(d, ms, toServer[d], toServer[d], typed[d], room.golf, room'.golf,
                    slots, slots', info, info')
  PROVE  ToldClient(d)'
<1>1. CASE link[d] = "closed"
  BY <1>1 DEF ToldClient
<1>2. CASE link[d] # "closed"
  <2>1. Typing(toServer[d], typed[d])
    BY <1>2 DEF ToldInv, ToldClient
  <2>2. ASSUME serving[d] = "member"
        PROVE  Told(d, toServer[d], toClient[d] \o ms, users[d], golf[d], typed[d],
                    room'.golf, slots', info')
    <3> DEFINE rg2 == room'.golf
               sl2 == slots'
               inf2 == info'
    <3>1. Told(d, toServer[d], toClient[d], users[d], golf[d], typed[d], room.golf, slots, info)
      BY <1>2, <2>2 DEF ToldInv, ToldClient
    <3>2. Informs(d, ms, toServer[d], toServer[d], typed[d], room.golf, rg2, slots, sl2, info, inf2)
      BY <1>2, <2>2
    <3>3. IsChannel(toClient[d])
      BY DEF RoomInv, GoodClient, Good
    <3> HIDE DEF rg2, sl2, inf2
    <3>4. Told(d, toServer[d], toClient[d] \o ms, users[d], golf[d], typed[d], rg2, sl2, inf2)
      BY <3>1, <3>2, <3>3, ToldInforms
    <3> QED
      BY <3>4 DEF rg2, sl2, inf2
  <2> QED
    BY <2>1, <2>2 DEF ToldClient
<1> QED
  BY <1>1, <1>2

\* d takes no part, and what it knows of is as before.
LEMMA ToldSame ==
  ASSUME RoomInv, ToldInv, NEW d \in Client,
         users'[d] = users[d], golf'[d] = golf[d], typed'[d] = typed[d], link'[d] = link[d],
         serving'[d] = serving[d], toServer'[d] = toServer[d], toClient'[d] = toClient[d],
         serving[d] = "member" =>
            /\ slots' = slots /\ room'.golf = room.golf
            /\ \A i : Present(slots, i) => info'[slots[i]] = info[slots[i]]
  PROVE  ToldClient(d)'
<1> DEFINE ms == <<>>
<1>1. \A f, i, y : Ends(ms, f, i, {y}, y)
  BY EndsNone
<1>2. IsChannel(ms)
  BY ChannelNone
<1>3. toClient'[d] = toClient[d] \o ms
  <2>1. IsChannel(toClient[d])
    BY DEF RoomInv, GoodClient, Good
  <2> QED
    BY <2>1, ConcatEmptySeq DEF IsChannel
<1> HIDE DEF ms
<1>4. ASSUME serving[d] = "member"
      PROVE  Informs(d, ms, toServer[d], toServer[d], typed[d], room.golf, room'.golf,
                     slots, slots', info, info')
  <2>1. /\ slots' = slots /\ room'.golf = room.golf
        /\ \A i : Present(slots, i) => info'[slots[i]] = info[slots[i]]
    BY <1>4
  <2> QED
    BY <1>1, <2>1 DEF Informs
<1> QED
  BY <1>2, <1>3, <1>4, ToldOther

\* A tick tells all members the same lag, or nothing of this.
LEMMA TickTold ==
  ASSUME RoomInv, ToldInv, Tick PROVE ToldInv'
<1>1. PICK lag \in {room.lag - 1, room.lag, room.lag + 1} \cap Nat :
        IF lag = room.lag
        THEN toClient' = SendAll(Members, <<Latency(slots)>>) /\ UNCHANGED <<room, info>>
        ELSE /\ room' = [room EXCEPT !.lag = lag]
             /\ info' = SetRoomLag(info, lag, {})
             /\ toClient' = SendAll(Members, <<Latency(slots),
                                               Lag(lag, {Pos(slots, d) : d \in Members})>>)
  BY DEF Tick
<1>2. UNCHANGED <<slots, users, golf, typed, serving, link, toServer>>
  BY DEF Tick, clientVars
<1>3. Infos(info) /\ Seated(slots, serving) /\ room'.golf = room.golf
  BY <1>1 DEF RoomInv, RoomTypes
<1> DEFINE ids == {Pos(slots, d) : d \in Members}
           a == <<Latency(slots)>>
           b == <<Lag(lag, ids)>>
           ms == IF lag = room.lag THEN a ELSE a \o b
           inf2 == info'
<1>4. toClient' = SendAll(Members, ms)
  <2>1. <<Latency(slots), Lag(lag, ids)>> = a \o b
    BY PairConcat
  <2> QED
    BY <1>1, <2>1
<1>5. \A x \in Client : info[x] \in UserInfos
  BY <1>3 DEF Infos
<1>6. IF lag = room.lag THEN inf2 = info
      ELSE \A x \in Members : inf2[x] = [info[x] EXCEPT !.lag = lag]
  <2>1. inf2 = SetRoomLag(info, lag, {}) => \A x \in Members : inf2[x] = [info[x] EXCEPT !.lag = lag]
    BY DEF SetRoomLag, Members
  <2> HIDE DEF inf2
  <2> QED
    BY <1>1, <2>1 DEF inf2
<1> HIDE DEF inf2
<1>7. \A i : Present(slots, i) => slots[i] \in Members /\ slots[i] \in Client /\ i \in ids
  BY <1>3, PresentMember DEF Members
<1> HIDE DEF ids
<1>8. IsChannel(a) /\ IsChannel(b) /\ IsChannel(ms)
  <2>1. IsChannel(a) /\ IsChannel(b)
    BY ChannelOne
  <2> HIDE DEF a, b
  <2> QED
    BY <2>1, ChannelConcat
<1>9. \A f, i, y : Ends(a, f, i, {y}, y)
  <2> DEFINE m == Latency(slots)
  <2>1. m.type = "LATENCY"
    BY DEF Latency
  <2> HIDE DEF m
  <2>2. \A f, i : ~Says(m, f, i)
    BY <2>1, SaysNothing
  <2>3. \A f, i, y : Ends(<<m>>, f, i, {y}, y)
    BY <2>2, EndsQuiet
  <2> QED
    BY <2>3 DEF m
<1>10. ASSUME NEW f, f # "lag", NEW i, NEW y PROVE Ends(b, f, i, {y}, y)
  <2>1. ~Says(Lag(lag, ids), f, i)
    BY <1>10, SaysLag
  <2> QED
    BY <2>1, EndsQuiet
<1>11. ASSUME NEW i \in ids PROVE Ends(b, "lag", i, {}, lag)
  <2>1. Says(Lag(lag, ids), "lag", i) /\ Said(Lag(lag, ids), "lag", i) = lag
    BY SaysLag
  <2> QED
    BY <2>1, EndsOne
<1> HIDE DEF a, b
<1>12. ASSUME NEW f, NEW i, NEW y, f # "lag" \/ lag = room.lag PROVE Ends(ms, f, i, {y}, y)
  <2>1. CASE lag = room.lag
    BY <1>9, <2>1
  <2>2. CASE lag # room.lag
    <3>1. Ends(b, f, i, {y}, y)
      BY <1>10, <1>12, <2>2
    <3>2. \A z \in {y} : Ends(a, f, i, {y}, z)
      BY <1>9
    <3>3. Ends(a \o b, f, i, {y}, y)
      BY <1>8, <3>1, <3>2, EndsConcat
    <3> QED
      BY <2>2, <3>3
  <2> QED
    BY <2>1, <2>2
<1>13. ASSUME NEW i \in ids, lag # room.lag PROVE Ends(ms, "lag", i, {}, lag)
  <2>1. \A z \in {} : Ends(a, "lag", i, {}, z)
    OBVIOUS
  <2>2. Ends(a \o b, "lag", i, {}, lag)
    BY <1>8, <1>11, <2>1, EndsConcat
  <2> QED
    BY <1>13, <2>2
<1> HIDE DEF ms
<1>14. ASSUME NEW i, NEW f, Present(slots, i), f \in Fields
       PROVE  \/ Ends(ms, f, i, {}, Of(inf2[slots[i]], f))
              \/ Ends(ms, f, i, {Of(info[slots[i]], f)}, Of(inf2[slots[i]], f))
  <2> DEFINE x == slots[i]
             r == [info[x] EXCEPT !.lag = lag]
  <2>1. x \in Members /\ x \in Client /\ i \in ids
    BY <1>7, <1>14
  <2> HIDE DEF x
  <2>2. r.lag = lag /\ r.map = info[x].map /\ r.plugged = info[x].plugged
    BY <1>5, <2>1 DEF UserInfos
  <2>3. inf2[x] = IF lag = room.lag THEN info[x] ELSE r
    BY <1>6, <2>1
  <2> HIDE DEF r
  <2>4. CASE f = "lag" /\ lag # room.lag
    <3>1. Of(inf2[x], f) = lag
      BY <2>2, <2>3, <2>4 DEF Of
    <3> QED
      BY <1>13, <2>1, <2>4, <3>1 DEF x
  <2>5. CASE f # "lag" \/ lag = room.lag
    <3>1. Of(inf2[x], f) = Of(info[x], f)
      BY <1>14, <2>2, <2>3, <2>5 DEF Of, Fields
    <3> QED
      BY <1>12, <2>5, <3>1 DEF x
  <2> QED
    BY <2>4, <2>5
<1>15. ASSUME NEW d \in Client PROVE ToldClient(d)'
  <2>1. CASE d \in Members
    <3>1. toClient'[d] = toClient[d] \o ms
      BY <1>4, <2>1 DEF SendAll
    <3>2. Informs(d, ms, toServer[d], toServer[d], typed[d], room.golf, room'.golf,
                  slots, slots', info, info')
      <4>1. slots' = slots /\ info' = inf2
        BY <1>2 DEF inf2
      <4>2. \A y : Ends(ms, "golf", 0, {y}, y)
        BY <1>12
      <4>3. Informs(d, ms, toServer[d], toServer[d], typed[d], room.golf, room.golf,
                    slots, slots, info, inf2)
        BY <1>14, <4>2 DEF Informs
      <4> QED
        BY <1>3, <4>1, <4>3
    <3> QED
      BY <1>2, <1>8, <3>1, <3>2, ToldOther
  <2>2. CASE d \notin Members
    <3>1. toClient'[d] = toClient[d] /\ serving[d] # "member"
      BY <1>4, <2>2 DEF SendAll, Members
    <3> QED
      BY <1>2, <3>1, ToldSame
  <2> QED
    BY <2>1, <2>2
<1>16. IsTable(typed')
  BY <1>2 DEF ToldInv
<1> QED
  BY <1>15, <1>16 DEF ToldInv

LEMMA ServerJoinTold ==
  ASSUME RoomInv, ToldInv, NEW c \in Client, ServerJoin(c) PROVE ToldInv'
<1> DEFINE ts == toServer[c]
           r == [Head(ts).info EXCEPT !.inputs = 0]
<1>1. /\ serving[c] = "open" /\ ts # <<>>
      /\ Changes(serving, serving', c, "query") /\ Changes(toServer, toServer', c, Tail(ts))
      /\ Changes(info, info', c, r)
      /\ UNCHANGED <<slots, room, users, golf, typed, link, toClient>>
  BY DEF ServerJoin, Changes, clientVars
<1>2. IsTable(serving) /\ IsTable(toServer) /\ Infos(info) /\ Seated(slots, serving)
      /\ IsChannel(ts)
  BY DEF RoomInv, RoomTypes, GoodClient, Good, AllSane
<1>3. serving'[c] = "query" /\ \A d \in Client \ {c} : serving'[d] = serving[d]
  BY <1>1, <1>2, TableChange
<1> DEFINE tail == Tail(ts)
<1>4. Changes(toServer, toServer', c, tail)
  BY <1>1
<1>5. toServer'[c] = tail /\ \A d \in Client \ {c} : toServer'[d] = toServer[d]
  <2> HIDE DEF tail, ts
  <2> QED
    BY <1>2, <1>4, TableChange
<1>6. \A x \in Client : x # c => info'[x] = info[x]
  <2> HIDE DEF r
  <2> QED
    BY <1>1, <1>2, InfoChange
<1>7. ToldClient(c)'
  <2>1. Typing(ts, typed[c]) => Typing(tail, typed[c])
    BY <1>1, <1>2, TypingTail
  <2> QED
    BY <1>1, <1>3, <1>5, <2>1 DEF ToldInv, ToldClient
<1>8. ASSUME NEW i, Present(slots, i) PROVE info'[slots[i]] = info[slots[i]]
  <2>1. slots[i] \in Client /\ serving[slots[i]] = "member"
    BY <1>2, <1>8, PresentMember
  <2> QED
    BY <1>1, <1>6, <2>1
<1>9. ASSUME NEW d \in Client, d # c PROVE ToldClient(d)'
  <2>1. /\ users'[d] = users[d] /\ golf'[d] = golf[d] /\ typed'[d] = typed[d]
        /\ link'[d] = link[d] /\ serving'[d] = serving[d] /\ toServer'[d] = toServer[d]
        /\ toClient'[d] = toClient[d] /\ slots' = slots /\ room'.golf = room.golf
    BY <1>1, <1>3, <1>5, <1>9
  <2> QED
    BY <1>8, <2>1, ToldSame
<1>10. IsTable(typed')
  BY <1>1 DEF ToldInv
<1> QED
  BY <1>7, <1>9, <1>10 DEF ToldInv

\* ms tells of every user of the list sl what changes from inf to inf2.
Updates(ms, sl, inf, inf2) ==
    /\ IsChannel(ms) /\ \A y : Ends(ms, "golf", 0, {y}, y)
    /\ \A i, f : Present(sl, i) /\ sl[i] \in Client /\ f \in Fields =>
         \/ Ends(ms, f, i, {}, Of(inf2[sl[i]], f))
         \/ Ends(ms, f, i, {Of(inf[sl[i]], f)}, Of(inf2[sl[i]], f))

\* Those who stay are told all that changes, by position.
LEMMA FarewellTold ==
  ASSUME NEW u, NEW s \in Seq(Slot), NEW inf, room.started \in BOOLEAN, Infos(info),
         room.started => inf = info, ~room.started => inf = ControllerMap(s, info, manual)
  PROVE  Updates(Farewell(u, s, inf), s, info, inf)
<1> DEFINE ms == Farewell(u, s, inf)
           q == [type |-> "QUIT", user |-> u]
           m == Controllers(s, inf)
           a == <<q>>
           b == IF room.started THEN <<>> ELSE <<m>>
<1>1. ms = a \o b
  BY DEF Farewell
<1>2. \A f, i : ~Says(q, f, i)
  <2>1. q.type = "QUIT"
    OBVIOUS
  <2> HIDE DEF q
  <2> QED
    BY <2>1, SaysNothing
<1>3. \A f, i, y : Ends(a, f, i, {y}, y)
  <2> HIDE DEF q
  <2> QED
    BY <1>2, EndsQuiet
<1>4. ASSUME NEW f, f \notin {"map", "plugged"}, NEW i, NEW y PROVE Ends(b, f, i, {y}, y)
  <2>1. ~Says(m, f, i)
    BY <1>4, SilentControllers
  <2> HIDE DEF m
  <2> QED
    BY <2>1, EndsQuiet
<1>5. ASSUME NEW f \in {"map", "plugged"}, NEW i, Present(s, i), ~room.started
      PROVE  Ends(b, f, i, {}, Of(inf[s[i]], f))
  <2>1. Says(m, f, i) /\ Said(m, f, i) = Of(inf[s[i]], f)
    BY <1>5, SaysControllers
  <2> HIDE DEF m
  <2> QED
    BY <1>5, <2>1, EndsOne
<1>6. IsChannel(a) /\ IsChannel(b)
  BY ChannelOne, ChannelNone
<1>7. room.started => b = <<>>
  OBVIOUS
<1> HIDE DEF a, b, ms
<1>8. ASSUME NEW f, NEW i, NEW y, Ends(b, f, i, {y}, y) PROVE Ends(ms, f, i, {y}, y)
  <2>1. \A z \in {y} : Ends(a, f, i, {y}, z)
    BY <1>3
  <2> QED
    BY <1>1, <1>6, <1>8, <2>1, EndsConcat
<1>9. ASSUME NEW i, NEW f \in Fields, Present(s, i), s[i] \in Client
      PROVE  \/ Ends(ms, f, i, {}, Of(inf[s[i]], f))
             \/ Ends(ms, f, i, {Of(info[s[i]], f)}, Of(inf[s[i]], f))
  <2> DEFINE x == s[i]
             y == Of(inf[x], f)
  <2>1. CASE room.started
    <3>1. Ends(b, f, i, {y}, y)
      BY <1>7, <2>1, EndsNone
    <3>2. inf = info
      BY <2>1
    <3> HIDE DEF y
    <3>3. Ends(ms, f, i, {y}, y)
      BY <1>8, <3>1
    <3> QED
      BY <3>2, <3>3 DEF y
  <2>2. CASE f = "lag"
    <3>1. Of(inf[x], f) = Of(info[x], f)
      <4> HIDE DEF x
      <4>1. x \in Client
        BY <1>9 DEF x
      <4>2. Of(ControllerMap(s, info, manual)[x], f) = Of(info[x], f)
        BY <2>2, <4>1, MappedOf
      <4> QED
        BY <4>2
    <3>2. \A z : Ends(ms, f, i, {z}, z)
      BY <1>4, <1>8, <2>2
    <3> QED
      BY <3>1, <3>2
  <2>3. CASE f \in {"map", "plugged"} /\ ~room.started
    <3>1. Ends(b, f, i, {}, y)
      BY <1>5, <1>9, <2>3
    <3>2. \A z \in {} : Ends(a, f, i, {}, z)
      OBVIOUS
    <3> HIDE DEF y
    <3>3. Ends(a \o b, f, i, {}, y)
      BY <1>6, <3>1, <3>2, EndsConcat
    <3> QED
      BY <1>1, <3>3 DEF y
  <2> QED
    BY <1>9, <2>1, <2>2, <2>3 DEF Fields
<1>10. \A y : Ends(ms, "golf", 0, {y}, y)
  BY <1>4, <1>8
<1>11. IsChannel(ms)
  BY <1>1, <1>6, ChannelConcat
<1> QED
  BY <1>9, <1>10, <1>11 DEF Updates, ms

LEMMA DropTold ==
  ASSUME RoomInv, ToldInv, NEW c \in Client, NEW down, Drop(c, down),
         UNCHANGED <<users, golf, typed, link>>
  PROVE  ToldInv'
<1> DEFINE left == Members \ {c}
           s == [i \in 1..Len(slots) |-> IF slots[i] = c THEN NoUser ELSE slots[i]]
           inf == IF room.started THEN info ELSE ControllerMap(s, info, manual)
           words == Farewell(Pos(slots, c), s, inf)
<1>1. /\ Changes(serving, serving', c, "none") /\ Changes(toServer, toServer', c, <<>>)
      /\ c \notin Members => /\ Changes(toClient, toClient', c, down)
                             /\ UNCHANGED <<slots, room, info>>
      /\ c \in Members /\ left = {} => Changes(toClient, toClient', c, down)
      /\ c \in Members /\ left # {} =>
            /\ slots' = s /\ info' = inf /\ room' = room
            /\ Changes(SendAll(left, words), toClient', c, down)
  BY DEF Drop, Changes
<1>2. /\ IsTable(serving) /\ IsTable(toServer) /\ IsTable(toClient)
      /\ room.started \in BOOLEAN /\ Infos(info) /\ Seated(slots, serving)
  BY DEF RoomInv, RoomTypes
<1> HIDE DEF left
<1>3. serving'[c] = "none" /\ \A d \in Client \ {c} : serving'[d] = serving[d]
  BY <1>1, <1>2, TableChange
<1>4. toServer'[c] = <<>> /\ \A d \in Client \ {c} : toServer'[d] = toServer[d]
  BY <1>1, <1>2, TableChange
<1>5. ToldClient(c)'
  BY <1>3, <1>4, TypingNone DEF ToldClient
<1>6. ASSUME NEW d \in Client, d # c
      PROVE  /\ users'[d] = users[d] /\ golf'[d] = golf[d] /\ typed'[d] = typed[d]
             /\ link'[d] = link[d] /\ serving'[d] = serving[d] /\ toServer'[d] = toServer[d]
  BY <1>3, <1>4, <1>6
<1>7. ASSUME NEW d \in Client, d # c, Changes(toClient, toClient', c, down)
      PROVE  toClient'[d] = toClient[d]
  BY <1>2, <1>7, TableChange
<1>8. ASSUME NEW d \in Client, d # c PROVE ToldClient(d)'
  <2>1. CASE c \notin Members
    <3>1. toClient'[d] = toClient[d] /\ UNCHANGED <<slots, room, info>>
      BY <1>1, <1>7, <1>8, <2>1
    <3> QED
      BY <1>6, <1>8, <3>1, ToldSame
  <2>2. CASE c \in Members /\ left = {}
    <3>1. toClient'[d] = toClient[d] /\ serving[d] # "member"
      BY <1>1, <1>7, <1>8, <2>2 DEF left, Members
    <3> QED
      BY <1>6, <1>8, <3>1, ToldSame
  <2>3. CASE c \in Members /\ left # {}
    <3>1. toClient'[d] = SendAll(left, words)[d]
      <4> DEFINE f == SendAll(left, words)
      <4>1. Changes(f, toClient', c, down) /\ IsTable(f)
        BY <1>1, <2>3 DEF SendAll, IsTable
      <4> HIDE DEF f
      <4>2. toClient'[d] = f[d]
        BY <1>8, <4>1, TableChange
      <4> QED
        BY <4>2 DEF f
    <3>2. slots' = s /\ info' = inf /\ room' = room
      BY <1>1, <2>3
    <3>3. serving[c] = "member"
      BY <2>3 DEF Members
    <3>4. Seated(s, serving') /\ Len(s) = Len(slots)
      BY <1>1, <1>2, <3>3, SeatedWithout
    <3>5. s \in Seq(Slot)
      BY <3>4 DEF Seated
    <3>6. \A i : Present(s, i) => s[i] \in Client /\ Present(slots, i) /\ slots[i] = s[i]
      <4>1. ASSUME NEW i, Present(s, i) PROVE Present(slots, i) /\ slots[i] = s[i]
        BY <3>4, <4>1 DEF Present
      <4> HIDE DEF s
      <4> QED
        BY <3>4, <4>1, PresentMember
    <3> HIDE DEF s
    <3>7. Updates(words, s, info, inf)
      <4>1. /\ room.started => inf = info
            /\ ~room.started => inf = ControllerMap(s, info, manual)
        OBVIOUS
      <4> DEFINE u == Pos(slots, c)
      <4>2. words = Farewell(u, s, inf)
        OBVIOUS
      <4>3. room.started \in BOOLEAN /\ Infos(info)
        BY <1>2
      <4> HIDE DEF words, inf, u
      <4> QED
        BY <3>5, <4>1, <4>2, <4>3, FarewellTold
    <3> HIDE DEF words, inf
    <3>8. CASE serving[d] = "member"
      <4>1. toClient'[d] = toClient[d] \o words
        BY <1>8, <3>1, <3>8 DEF SendAll, left, Members
      <4>2. Informs(d, words, toServer[d], toServer[d], typed[d], room.golf, room.golf,
                    slots, s, info, inf)
        BY <3>6, <3>7 DEF Informs, Updates
      <4>3. Informs(d, words, toServer[d], toServer[d], typed[d], room.golf, room'.golf,
                    slots, slots', info, info')
        BY <3>2, <4>2
      <4> QED
        BY <1>6, <1>8, <3>7, <4>1, <4>3, ToldOther DEF Updates
    <3>9. CASE serving[d] # "member"
      <4>1. toClient'[d] = toClient[d]
        BY <1>8, <3>1, <3>9 DEF SendAll, left, Members
      <4> QED
        BY <1>6, <1>8, <3>9, <4>1, ToldSame
    <3> QED
      BY <3>8, <3>9
  <2> QED
    BY <2>1, <2>2, <2>3
<1>9. IsTable(typed')
  BY DEF ToldInv
<1> QED
  BY <1>5, <1>8, <1>9 DEF ToldInv

\* What everybody is sent when a user comes: its lag, and all controllers.
Common(ms, s, inf, n, lag) ==
    /\ IsChannel(ms) /\ \A y : Ends(ms, "golf", 0, {y}, y)
    /\ \A i, f : Present(s, i) /\ f \in {"map", "plugged"} =>
         Ends(ms, f, i, {}, Of(inf[s[i]], f))
    /\ Ends(ms, "lag", n, {}, lag)
    /\ \A i, y : i # n => Ends(ms, "lag", i, {y}, y)

LEMMA CommonTold ==
  ASSUME NEW s \in Seq(Slot), NEW inf, NEW lag, NEW n, NEW ms,
         ms = <<Lag(lag, {n}), Controllers(s, inf)>>
  PROVE  Common(ms, s, inf, n, lag)
<1> DEFINE l == Lag(lag, {n})
           m == Controllers(s, inf)
           a == <<l>>
           b == <<m>>
<1>1. ms = a \o b
  BY PairConcat
<1>2. /\ \A f, i : Says(l, f, i) <=> f = "lag" /\ i = n
      /\ \A f, i : Said(l, f, i) = lag
  BY SaysLag
<1>3. /\ \A f, i : f \notin {"map", "plugged"} => ~Says(m, f, i)
      /\ \A f, i : Present(s, i) /\ f \in {"map", "plugged"} =>
           Says(m, f, i) /\ Said(m, f, i) = Of(inf[s[i]], f)
  BY SilentControllers, SaysControllers
<1> HIDE DEF l, m
<1>4. IsChannel(a) /\ IsChannel(b)
  BY ChannelOne
<1>5. \A f, i, y : ~(f = "lag" /\ i = n) => Ends(a, f, i, {y}, y)
  BY <1>2, EndsQuiet
<1>6. Ends(a, "lag", n, {}, lag)
  <2>1. Says(l, "lag", n) /\ Said(l, "lag", n) = lag
    BY <1>2
  <2> QED
    BY <2>1, EndsOne
<1>7. \A f, i, y : f \notin {"map", "plugged"} => Ends(b, f, i, {y}, y)
  BY <1>3, EndsQuiet
<1>8. ASSUME NEW f \in {"map", "plugged"}, NEW i, Present(s, i)
      PROVE  Ends(b, f, i, {}, Of(inf[s[i]], f))
  BY <1>3, <1>8, EndsOne
<1> HIDE DEF a, b
<1>9. ASSUME NEW f, f \notin {"map", "plugged"}, NEW i, NEW y, ~(f = "lag" /\ i = n)
      PROVE  Ends(ms, f, i, {y}, y)
  <2>1. Ends(b, f, i, {y}, y) /\ \A z \in {y} : Ends(a, f, i, {y}, z)
    BY <1>5, <1>7, <1>9
  <2>2. Ends(a \o b, f, i, {y}, y)
    BY <1>4, <2>1, EndsConcat
  <2> QED
    BY <1>1, <2>2
<1>10. ASSUME NEW f \in {"map", "plugged"}, NEW i, Present(s, i)
       PROVE  Ends(ms, f, i, {}, Of(inf[s[i]], f))
  <2> DEFINE y == Of(inf[s[i]], f)
  <2>1. Ends(b, f, i, {}, y) /\ \A z \in {} : Ends(a, f, i, {}, z)
    BY <1>8, <1>10
  <2> HIDE DEF y
  <2>2. Ends(a \o b, f, i, {}, y)
    BY <1>4, <2>1, EndsConcat
  <2> QED
    BY <1>1, <2>2 DEF y
<1>11. Ends(ms, "lag", n, {}, lag)
  <2>1. Ends(b, "lag", n, {lag}, lag) /\ \A z \in {lag} : Ends(a, "lag", n, {}, z)
    BY <1>6, <1>7
  <2>2. Ends(a \o b, "lag", n, {}, lag)
    BY <1>4, <2>1, EndsConcat
  <2> QED
    BY <1>1, <2>2
<1>12. IsChannel(ms)
  BY <1>1, <1>4, ChannelConcat
<1>13. \A y : Ends(ms, "golf", 0, {y}, y)
  BY <1>9
<1>14. \A i, y : i # n => Ends(ms, "lag", i, {y}, y)
  BY <1>9
<1> QED
  BY <1>10, <1>11, <1>12, <1>13, <1>14 DEF Common

\* c with the record new has come, as the last of the list s.
Newcome(s, c, n, new, inf, lag) ==
    /\ s \in Seq(Slot) /\ Infos(info) /\ Infos(inf) /\ new \in UserInfos
    /\ n = Len(s) /\ n \in 1..Len(s) /\ s[n] = c /\ c \in Client /\ new.authority = n
    /\ \A i \in 1..Len(s) : i # n => s[i] # c
    /\ \A x \in Client : Of(inf[x], "lag") = IF x = c THEN lag ELSE Of(info[x], "lag")

LEMMA NewsTold ==
  ASSUME NEW s, NEW c, NEW n, NEW new, NEW inf, NEW lag, Newcome(s, c, n, new, inf, lag),
         NEW common, common = <<Lag(lag, {n}), Controllers(s, inf)>>,
         NEW ms, ms = Announcement(new, common)
  PROVE  /\ IsChannel(ms) /\ \A y : Ends(ms, "golf", 0, {y}, y)
         /\ \A i, f : Present(s, i) /\ f \in Fields =>
              \/ Ends(ms, f, i, {}, Of(inf[s[i]], f))
              \/ i # n /\ Ends(ms, f, i, {Of(info[s[i]], f)}, Of(inf[s[i]], f))
<1> DEFINE m == [type |-> "JOIN", info |-> new]
           a == <<m>>
<1>1. ms = a \o common
  BY DEF Announcement
<1>2. \A f, i : Says(m, f, i) => f \in Fields /\ i = n
  BY DEF Says, Newcome, Fields
<1> HIDE DEF m
<1>3. /\ IsChannel(common) /\ \A y : Ends(common, "golf", 0, {y}, y)
      /\ \A i, f : Present(s, i) /\ f \in {"map", "plugged"} =>
           Ends(common, f, i, {}, Of(inf[s[i]], f))
      /\ Ends(common, "lag", n, {}, lag)
      /\ \A i, y : i # n => Ends(common, "lag", i, {y}, y)
  <2>1. s \in Seq(Slot)
    BY DEF Newcome
  <2>2. Common(common, s, inf, n, lag)
    BY <2>1, CommonTold
  <2> QED
    BY <2>2 DEF Common
<1>4. IsChannel(a)
  BY ChannelOne
<1>5. ASSUME NEW f, NEW i, NEW y, f \notin Fields \/ i # n PROVE Ends(a, f, i, {y}, y)
  <2>1. ~Says(m, f, i)
    BY <1>2, <1>5
  <2> QED
    BY <2>1, EndsQuiet
<1> HIDE DEF a
<1>6. ASSUME NEW f, NEW i, NEW y, f \notin Fields \/ i # n, Ends(common, f, i, {y}, y)
      PROVE  Ends(ms, f, i, {y}, y)
  <2>1. \A z \in {y} : Ends(a, f, i, {y}, z)
    BY <1>5, <1>6
  <2>2. Ends(a \o common, f, i, {y}, y)
    BY <1>3, <1>4, <1>6, <2>1, EndsConcat
  <2> QED
    BY <1>1, <2>2
<1>7. ASSUME NEW f, NEW i, NEW y, Ends(common, f, i, {}, y) PROVE Ends(ms, f, i, {}, y)
  <2>1. \A z \in {} : Ends(a, f, i, {}, z)
    OBVIOUS
  <2>2. Ends(a \o common, f, i, {}, y)
    BY <1>3, <1>4, <1>7, <2>1, EndsConcat
  <2> QED
    BY <1>1, <2>2
<1>8. ASSUME NEW i, NEW f, Present(s, i), f \in Fields
      PROVE  \/ Ends(ms, f, i, {}, Of(inf[s[i]], f))
             \/ i # n /\ Ends(ms, f, i, {Of(info[s[i]], f)}, Of(inf[s[i]], f))
  <2>1. CASE f \in {"map", "plugged"}
    BY <1>3, <1>7, <1>8, <2>1
  <2>2. CASE f = "lag" /\ i = n
    <3>1. Of(inf[s[i]], f) = lag
      BY <2>2 DEF Newcome
    <3> QED
      BY <1>3, <1>7, <2>2, <3>1
  <2>3. CASE f = "lag" /\ i # n
    <3>1. s[i] \in Client /\ s[i] # c
      BY <1>8, <2>3 DEF Newcome, Present, Slot
    <3>2. Of(inf[s[i]], f) = Of(info[s[i]], f)
      BY <2>3, <3>1 DEF Newcome
    <3>3. \A y : Ends(ms, f, i, {y}, y)
      BY <1>3, <1>6, <2>3
    <3> QED
      BY <2>3, <3>2, <3>3
  <2> QED
    BY <1>8, <2>1, <2>2, <2>3 DEF Fields
<1>9. \A y : Ends(ms, "golf", 0, {y}, y)
  <2>1. "golf" \notin Fields
    BY DEF Fields
  <2> QED
    BY <1>3, <1>6, <2>1
<1>10. IsChannel(ms)
  BY <1>1, <1>3, <1>4, ChannelConcat
<1> QED
  BY <1>8, <1>9, <1>10

\* The new user is told everything.
LEMMA HelloTold ==
  ASSUME NEW s, NEW c, NEW n, NEW new, NEW inf, NEW lag, Newcome(s, c, n, new, inf, lag),
         new.name = c,
         NEW common, common = <<Lag(lag, {n}), Controllers(s, inf)>>,
         NEW all, all = Greeted(s, c, new, info), NEW on,
         NEW ms, ms = Greeting(all, common, on)
  PROVE  /\ IsChannel(ms) /\ Ends(ms, "golf", 0, {}, on)
         /\ \A i, f : Present(s, i) /\ f \in Fields => Ends(ms, f, i, {}, Of(inf[s[i]], f))
<1> DEFINE m == [type |-> "ACCEPT", users |-> all]
           g == [type |-> "GOLF", golf |-> on]
           a == <<m>>
           b == <<g>>
           ab == a \o common
<1>1. ms = ab \o b
  BY DEF Greeting
<1>2. all \in UserList /\ Len(all) = Len(s) /\ Shape(all) = s
  BY GreetedUsers DEF Newcome
<1>3. \A i : Present(s, i) => Present(all, i)
  BY <1>2, ShapeParts
<1>4. \A i, f : Present(s, i) /\ f \in Fields => Says(m, f, i) /\ Said(m, f, i) = Of(all[i], f)
  BY <1>3 DEF Says, Said
<1>5. /\ \A f, i : Says(g, f, i) <=> f = "golf"
      /\ \A f, i : Said(g, f, i) = on
  BY DEF Says, Said, Fields
<1> HIDE DEF m, g
<1>6. /\ IsChannel(common)
      /\ \A i, f : Present(s, i) /\ f \in {"map", "plugged"} =>
           Ends(common, f, i, {}, Of(inf[s[i]], f))
      /\ Ends(common, "lag", n, {}, lag)
      /\ \A i, y : i # n => Ends(common, "lag", i, {y}, y)
  <2>1. s \in Seq(Slot)
    BY DEF Newcome
  <2>2. Common(common, s, inf, n, lag)
    BY <2>1, CommonTold
  <2> QED
    BY <2>2 DEF Common
<1>7. IsChannel(a) /\ IsChannel(b)
  BY ChannelOne
<1>8. ASSUME NEW i, NEW f \in Fields, Present(s, i) PROVE Ends(a, f, i, {}, Of(all[i], f))
  BY <1>4, <1>8, EndsOne
<1>9. Ends(b, "golf", 0, {}, on)
  BY <1>5, EndsOne
<1>10. \A f, i, y : f # "golf" => Ends(b, f, i, {y}, y)
  BY <1>5, EndsQuiet
<1> HIDE DEF a, b
<1>11. IsChannel(ab)
  BY <1>6, <1>7, ChannelConcat
<1>12. ASSUME NEW i, NEW f, Present(s, i), f \in Fields
       PROVE  Ends(ab, f, i, {}, Of(inf[s[i]], f))
  <2> DEFINE y == Of(inf[s[i]], f)
  <2>1. CASE Ends(common, f, i, {}, y)
    <3>1. \A z \in {} : Ends(a, f, i, {}, z)
      OBVIOUS
    <3> HIDE DEF y
    <3>2. Ends(a \o common, f, i, {}, y)
      BY <1>6, <1>7, <2>1, <3>1, EndsConcat
    <3> QED
      BY <3>2 DEF y
  <2>2. CASE f = "lag" /\ i # n
    <3>1. s[i] \in Client /\ s[i] # c /\ i \in 1..Len(s) /\ s[i] # NoUser
      BY <1>12, <2>2 DEF Newcome, Present, Slot
    <3>2. y = Of(info[s[i]], f)
      BY <2>2, <3>1 DEF Newcome
    <3>3. Of(all[i], f) = y
      <4>1. all[i] = [info[s[i]] EXCEPT !.inputs = 0]
        BY <3>1 DEF Greeted
      <4>2. info[s[i]] \in UserInfos
        BY <3>1 DEF Newcome, Infos
      <4>3. all[i].lag = info[s[i]].lag
        BY <4>1, <4>2 DEF UserInfos
      <4> QED
        BY <2>2, <3>2, <4>3 DEF Of
    <3>4. Ends(a, f, i, {}, y)
      BY <1>8, <1>12, <3>3
    <3>5. Ends(common, f, i, {y}, y)
      BY <1>6, <2>2
    <3> HIDE DEF y
    <3>6. \A z \in {y} : Ends(a, f, i, {}, z)
      BY <3>4
    <3>7. Ends(a \o common, f, i, {}, y)
      BY <1>6, <1>7, <3>5, <3>6, EndsConcat
    <3> QED
      BY <3>7 DEF y
  <2>3. CASE f = "lag" /\ i = n
    <3>1. y = lag
      BY <2>3 DEF Newcome
    <3> QED
      BY <1>6, <2>1, <2>3, <3>1
  <2>4. CASE f \in {"map", "plugged"}
    BY <1>6, <1>12, <2>1, <2>4
  <2> QED
    BY <1>12, <2>2, <2>3, <2>4 DEF Fields
<1> HIDE DEF ab
<1>13. ASSUME NEW i, NEW f, Present(s, i), f \in Fields
       PROVE  Ends(ms, f, i, {}, Of(inf[s[i]], f))
  <2> DEFINE y == Of(inf[s[i]], f)
  <2>1. Ends(ab, f, i, {}, y) /\ f # "golf"
    BY <1>12, <1>13 DEF Fields
  <2> HIDE DEF y
  <2>2. Ends(b, f, i, {y}, y) /\ \A z \in {y} : Ends(ab, f, i, {}, z)
    BY <1>10, <2>1
  <2>3. Ends(ab \o b, f, i, {}, y)
    BY <1>7, <1>11, <2>2, EndsConcat
  <2> QED
    BY <1>1, <2>3 DEF y
<1>14. Ends(ms, "golf", 0, {}, on)
  <2>1. \A z \in {} : Ends(ab, "golf", 0, {}, z)
    OBVIOUS
  <2>2. Ends(ab \o b, "golf", 0, {}, on)
    BY <1>7, <1>9, <1>11, <2>1, EndsConcat
  <2> QED
    BY <1>1, <2>2
<1>15. IsChannel(ms)
  BY <1>1, <1>7, <1>11, ChannelConcat
<1> QED
  BY <1>13, <1>14, <1>15

LEMMA EnterRoomTold ==
  ASSUME RoomInv, ToldInv, NEW c \in Client, NEW other, EnterRoom(c, other), serving[c] = "query",
         UNCHANGED <<users, golf, typed, link>>
  PROVE  ToldInv'
<1>1. CASE Refuses(other)
  <2>1. Drop(c, Hangup(c))
    BY <1>1 DEF EnterRoom, Refuse
  <2> QED
    BY <2>1, DropTold
<1>2. CASE ~Refuses(other)
  <2> DEFINE s == Append(slots, c)
             n == Len(s)
             new == [info[c] EXCEPT !.authority = n]
             lag == room.lag
             mine == [new EXCEPT !.lag = lag]
             inf0 == [info EXCEPT ![c] = mine]
             inf == ControllerMap(s, inf0, manual)
             all == Greeted(s, c, new, info)
             common == <<Lag(lag, {n}), Controllers(s, inf)>>
             on == room.golf \/ GolfRom
             news == Announcement(new, common)
             hello == Greeting(all, common, on)
             f == SendAll(Members, news)
  <2>1. /\ slots' = s /\ info' = inf /\ room' = [room EXCEPT !.golf = on]
        /\ Changes(serving, serving', c, "member") /\ UNCHANGED toServer
        /\ Changes(f, toClient', c, f[c] \o hello)
    BY <1>2 DEF EnterRoom, Entered, Changes, Greeted
  <2>2. /\ IsTable(serving) /\ IsTable(toServer) /\ IsTable(toClient) /\ room \in RoomRecords
        /\ Infos(info) /\ Seated(slots, serving) /\ slots \in Seq(Slot)
    BY DEF RoomInv, RoomTypes, RoomRecords, Seated
  <2>3. lag \in Nat /\ room'.golf = on
    BY <2>1, <2>2 DEF RoomRecords
  <2>4. /\ s \in Seq(Slot) /\ n = Len(slots) + 1 /\ Len(slots) \in Nat /\ n \in 1..n
        /\ s[n] = c /\ \A j \in 1..Len(slots) : s[j] = slots[j]
    BY <2>2, AppendProperties DEF Slot
  <2>5. \A j \in 1..Len(slots) : slots[j] # c
    <3>1. ASSUME NEW j \in 1..Len(slots), slots[j] = c PROVE FALSE
      <4>1. Present(slots, j)
        BY <3>1, NoUserAssumption DEF Present
      <4> QED
        BY <2>2, <3>1, <4>1, PresentMember
    <3> QED
      BY <3>1
  <2>6. info[c] \in UserInfos /\ info[c].name = c
    BY <2>2 DEF Infos
  <2> HIDE DEF s, n, lag
  <2>7. /\ new \in UserInfos /\ new.name = c /\ new.authority = n
        /\ mine \in UserInfos /\ mine.name = c /\ mine.lag = lag
    <3> DEFINE old == info[c]
    <3>1. old \in UserInfos /\ old.name = c /\ n \in Nat
      BY <2>4, <2>6
    <3> HIDE DEF old
    <3>2. new \in UserInfos /\ new.name = c /\ new.authority = n
      BY <3>1 DEF UserInfos, old
    <3> HIDE DEF new
    <3>3. mine \in UserInfos /\ mine.name = c /\ mine.lag = lag
      BY <2>3, <3>2 DEF UserInfos
    <3> QED
      BY <3>2, <3>3
  <2> HIDE DEF new, mine
  <2>8. Infos(inf0) /\ \A x \in Client : inf0[x] = IF x = c THEN mine ELSE info[x]
    <3>1. Infos(inf0)
      BY <2>2, <2>7, InfosChange
    <3> QED
      BY <2>2, <3>1 DEF Infos
  <2> HIDE DEF inf0
  <2>9. Infos(inf)
    BY <2>4, <2>8, InfosMapped
  <2>10. ASSUME NEW x \in Client
         PROVE  Of(inf[x], "lag") = IF x = c THEN lag ELSE Of(info[x], "lag")
    <3>1. Of(inf[x], "lag") = Of(inf0[x], "lag")
      BY <2>8, MappedOf
    <3> HIDE DEF inf
    <3>2. Of(mine, "lag") = lag
      BY <2>7 DEF Of
    <3> QED
      BY <2>8, <3>1, <3>2
  <2> HIDE DEF inf, all, common, on
  <2>11. Newcome(s, c, n, new, inf, lag)
    <3>1. \A i \in 1..n : i # n => i \in 1..Len(slots)
      BY <2>4
    <3>2. \A i \in 1..Len(s) : i # n => s[i] # c
      BY <2>4, <2>5, <3>1 DEF n
    <3> QED
      BY <2>2, <2>4, <2>7, <2>9, <2>10, <3>2 DEF Newcome, n
  <2> HIDE DEF news, hello
  <2>12. /\ IsChannel(news) /\ \A y : Ends(news, "golf", 0, {y}, y)
         /\ \A i, h : Present(s, i) /\ h \in Fields =>
              \/ Ends(news, h, i, {}, Of(inf[s[i]], h))
              \/ i # n /\ Ends(news, h, i, {Of(info[s[i]], h)}, Of(inf[s[i]], h))
    BY <2>11, NewsTold DEF common, news
  <2>13. /\ IsChannel(hello) /\ Ends(hello, "golf", 0, {}, on)
         /\ \A i, h : Present(s, i) /\ h \in Fields => Ends(hello, h, i, {}, Of(inf[s[i]], h))
    BY <2>7, <2>11, HelloTold DEF common, hello, all
  <2>14. /\ toClient'[c] = toClient[c] \o hello
         /\ \A d \in Client \ {c} : toClient'[d] = f[d]
    <3> DEFINE x == f[c] \o hello
    <3>1. IsTable(f) /\ Changes(f, toClient', c, x)
      BY <2>1 DEF SendAll, IsTable, f
    <3>2. f[c] = toClient[c]
      BY DEF SendAll, f, Members
    <3> HIDE DEF x
    <3>3. /\ toClient'[c] = x /\ \A d \in Client \ {c} : toClient'[d] = f[d]
      BY <3>1, TableChange
    <3> QED
      BY <3>2, <3>3 DEF x
  <2>15. serving'[c] = "member" /\ \A d \in Client \ {c} : serving'[d] = serving[d]
    BY <2>1, <2>2, TableChange
  <2>16. ToldClient(c)'
    <3>1. CASE link[c] = "closed"
      BY <3>1 DEF ToldClient
    <3>2. CASE link[c] # "closed"
      <4> DEFINE t == toClient[c]
      <4>1. IsChannel(t) /\ Typing(toServer[c], typed[c])
        BY <3>2 DEF RoomInv, GoodClient, Good, ToldInv, ToldClient
      <4>2. ASSUME NEW g, NEW i, NEW X, NEW y, Ends(hello, g, i, {}, y)
            PROVE  Ends(t \o hello, g, i, X, y)
        <5>1. \A z \in {} : Ends(t, g, i, X, z)
          OBVIOUS
        <5> HIDE DEF t
        <5> QED
          BY <2>13, <4>1, <4>2, <5>1, EndsConcat
      <4>3. Told(c, toServer[c], t \o hello, users[c], golf[c], typed[c], on, s, inf)
        <5> HIDE DEF t
        <5> QED
          BY <2>13, <4>2 DEF Told
      <4>4. Told(c, toServer[c], t \o hello, users[c], golf[c], typed[c], room'.golf, slots', info')
        BY <2>1, <2>3, <4>3
      <4> QED
        BY <2>1, <2>14, <4>1, <4>4 DEF ToldClient
    <3> QED
      BY <3>1, <3>2
  <2>17. ASSUME NEW d \in Client, d # c PROVE ToldClient(d)'
    <3>1. /\ users'[d] = users[d] /\ golf'[d] = golf[d] /\ typed'[d] = typed[d]
          /\ link'[d] = link[d] /\ serving'[d] = serving[d] /\ toServer'[d] = toServer[d]
      BY <2>1, <2>15, <2>17
    <3>2. CASE serving[d] # "member"
      <4>1. toClient'[d] = toClient[d]
        BY <2>14, <2>17, <3>2 DEF SendAll, f, Members
      <4> QED
        BY <3>1, <3>2, <4>1, ToldSame
    <3>3. CASE serving[d] = "member"
      <4>1. toClient'[d] = toClient[d] \o news
        BY <2>14, <2>17, <3>3 DEF SendAll, f, Members
      <4>2. ~GolfRom => on = room.golf
        BY <2>2, GolfRomAssumption DEF on, RoomRecords
      <4>3. ASSUME NEW i, Present(s, i), i # n PROVE Present(slots, i) /\ slots[i] = s[i]
        <5>1. i \in 1..Len(slots)
          BY <2>4, <4>3 DEF Present, n
        <5> QED
          BY <2>4, <4>3, <5>1 DEF Present
      <4>4. Informs(d, news, toServer[d], toServer[d], typed[d], room.golf, on,
                    slots, s, info, inf)
        <5>1. ~GolfRom => Ends(news, "golf", 0, {room.golf}, on)
          BY <2>12, <4>2
        <5>2. ASSUME NEW i, NEW h, Present(s, i), h \in Fields
              PROVE  \/ Ends(news, h, i, {}, Of(inf[s[i]], h))
                     \/ /\ Present(slots, i) /\ slots[i] = s[i]
                        /\ Ends(news, h, i, {Of(info[slots[i]], h)}, Of(inf[s[i]], h))
          BY <2>12, <4>3, <5>2
        <5> QED
          BY <5>1, <5>2 DEF Informs
      <4>5. Informs(d, news, toServer[d], toServer[d], typed[d], room.golf, room'.golf,
                    slots, slots', info, info')
        BY <2>1, <2>3, <4>4
      <4> QED
        BY <2>12, <3>1, <4>1, <4>5, ToldOther
    <3> QED
      BY <3>2, <3>3
  <2>18. IsTable(typed')
    BY DEF ToldInv
  <2> QED
    BY <2>16, <2>17, <2>18 DEF ToldInv
<1> QED
  BY <1>1, <1>2

LEMMA JoinRoomTold ==
  ASSUME RoomInv, ToldInv, NEW c \in Client, JoinRoom(c) PROVE ToldInv'
<1>1. PICK other : EnterRoom(c, other)
  BY DEF JoinRoom
<1>2. serving[c] = "query" /\ UNCHANGED <<users, golf, link, typed>>
  BY DEF JoinRoom, clientVars
<1> QED
  BY <1>1, <1>2, EnterRoomTold

LEMMA ServerEofTold ==
  ASSUME RoomInv, ToldInv, NEW c \in Client, ServerEof(c) PROVE ToldInv'
<1> DEFINE down == <<>>
<1>1. Drop(c, down) /\ UNCHANGED <<users, golf, typed, link>>
  BY DEF ServerEof, clientVars
<1> HIDE DEF down
<1> QED
  BY <1>1, DropTold

LEMMA ServerNotJoinedTold ==
  ASSUME RoomInv, ToldInv, NEW c \in Client, ServerNotJoined(c) PROVE ToldInv'
<1>1. Drop(c, Hangup(c)) /\ UNCHANGED <<users, golf, typed, link>>
  BY DEF ServerNotJoined, clientVars
<1> QED
  BY <1>1, DropTold

LEMMA ServeTold ==
  ASSUME RoomInv, ToldInv, NEW c \in Client, Serve(c) PROVE ToldInv'
<1>1. ASSUME NEW type \in {"REQUEST_AUTHORITY", "DELEGATE_AUTHORITY"}, ServerAuthority(c, type)
      PROVE  ToldInv'
  BY <1>1, ServerAuthorityTold
<1> QED
  BY <1>1, ServerEofTold, ServerNotJoinedTold, ServerJoinTold, ServerLagTold, ServerAutolagTold,
     ServerControllersTold, ServerStartTold, ServerGolfTold, ServerMapTold, ServerNameTold,
     ServerInputTold DEF Serve

-----------------------------------------------------------------------------
(* The client's steps.                                                      *)

\* c takes a step that the server has no part in.
LEMMA OnlyTold ==
  ASSUME RoomInv, ToldInv, NEW c \in Client, UNCHANGED <<slots, room, info>>,
         \A d \in Client \ {c} :
            /\ users'[d] = users[d] /\ golf'[d] = golf[d] /\ typed'[d] = typed[d]
            /\ link'[d] = link[d] /\ serving'[d] = serving[d] /\ toServer'[d] = toServer[d]
            /\ toClient'[d] = toClient[d],
         IsTable(typed'), ToldClient(c)'
  PROVE  ToldInv'
<1>1. ASSUME NEW d \in Client, d # c PROVE ToldClient(d)'
  BY <1>1, ToldSame
<1> QED
  BY <1>1 DEF ToldInv

\* A change of one record of a list, f of which stays.
LEMMA HeldOfChange ==
  ASSUME NEW us \in UserList, NEW u, us[u] # NoUser, NEW r, Present(us, u) => r # NoUser,
         NEW vs, Changes(us, vs, u, r), NEW f, NEW i,
         i # u \/ (Present(us, u) => Of(r, f) = Of(us[u], f))
  PROVE  Held(vs, f, i) = Held(us, f, i)
<1>1. Len(us) \in Nat /\ DOMAIN us = 1..Len(us)
  BY DEF UserList
<1>2. vs = [us EXCEPT ![u] = r]
  BY DEF Changes
<1>3. us \in Seq(UserInfos \cup {NoUser})
  BY DEF UserList
<1>4. Len(vs) = Len(us)
  BY <1>2, <1>3
<1>5. CASE u \in 1..Len(us)
  <2>1. \A j \in 1..Len(us) : vs[j] = IF j = u THEN r ELSE us[j]
    BY <1>1, <1>2
  <2>2. Present(us, u) /\ Present(vs, u)
    BY <1>4, <1>5, <2>1 DEF Present
  <2>3. CASE i = u
    <3>1. Of(r, f) = Of(us[u], f) /\ vs[u] = r
      BY <1>5, <2>1, <2>2, <2>3
    <3> QED
      BY <2>2, <2>3, <3>1 DEF Held
  <2>4. CASE i # u
    BY <1>4, <2>1, <2>4 DEF Held, Present
  <2> QED
    BY <2>3, <2>4
<1>6. CASE u \notin 1..Len(us)
  <2>1. vs = us
    BY <1>1, <1>2, <1>3, <1>6
  <2> QED
    BY <2>1
<1> QED
  BY <1>5, <1>6

\* Neither authority nor inputs are settings.
LEMMA HeldExtended ==
  ASSUME NEW us \in UserList, NEW u, us[u] # NoUser, NEW n \in Nat, NEW f, NEW i
  PROVE  Held(Extended(us, u, n), f, i) = Held(us, f, i)
<1> DEFINE r == [us[u] EXCEPT !.inputs = us[u].inputs + n]
           vs == Extended(us, u, n)
<1>1. Changes(us, vs, u, r)
  BY DEF Changes, Extended
<1>2. ASSUME Present(us, u) PROVE r # NoUser /\ Of(r, f) = Of(us[u], f)
  <2> DEFINE k == us[u].inputs + n
  <2>1. us[u] \in UserInfos
    BY <1>2, ListParts
  <2>2. k \in Nat
    BY <2>1 DEF UserInfos
  <2> HIDE DEF k
  <2>3. [us[u] EXCEPT !.inputs = k] \in UserInfos
        /\ Of([us[u] EXCEPT !.inputs = k], f) = Of(us[u], f)
    BY <2>1, <2>2 DEF UserInfos, Of
  <2> QED
    BY <2>3, NoUserAssumption DEF k
<1> HIDE DEF r, vs
<1>3. Held(vs, f, i) = Held(us, f, i)
  BY <1>1, <1>2, HeldOfChange
<1> QED
  BY <1>3 DEF vs

LEMMA HeldAuthority ==
  ASSUME NEW us \in UserList, NEW u, us[u] # NoUser, NEW a \in Nat,
         NEW vs, Changes(us, vs, u, [us[u] EXCEPT !.authority = a]), NEW f, NEW i
  PROVE  Held(vs, f, i) = Held(us, f, i)
<1> DEFINE r == [us[u] EXCEPT !.authority = a]
<1>1. Changes(us, vs, u, r)
  OBVIOUS
<1>2. ASSUME Present(us, u) PROVE r # NoUser /\ Of(r, f) = Of(us[u], f)
  <2>1. us[u] \in UserInfos
    BY <1>2, ListParts
  <2>2. r \in UserInfos /\ Of(r, f) = Of(us[u], f)
    BY <2>1 DEF UserInfos, Of
  <2> QED
    BY <2>2, NoUserAssumption
<1> HIDE DEF r
<1> QED
  BY <1>1, <1>2, HeldOfChange

LEMMA HeldNewAuthority ==
  ASSUME NEW us \in UserList, NEW i, NEW pairs, \A p \in Range(pairs) : p[2] \in Nat,
         NEW f, NEW j
  PROVE  Held(NewAuthority(us, i, pairs), f, j) = Held(us, f, j)
<1> DEFINE mine(k) == {p \in Range(pairs) : p[1] = k}
           chosen(k) == (CHOOSE p \in mine(k) : TRUE)[2]
           vs == NewAuthority(us, i, pairs)
<1>1. \A k : mine(k) # {} => chosen(k) \in Nat
  OBVIOUS
<1>2. vs = [k \in 1..Len(us) |->
              IF us[k] # NoUser /\ us[k].authority = i /\ mine(k) # {}
              THEN [us[k] EXCEPT !.authority = chosen(k)] ELSE us[k]]
  BY DEF NewAuthority
<1>3. Len(vs) = Len(us)
  BY NewAuthorityShape
<1> HIDE DEF vs, chosen, mine
<1>4. ASSUME j \in 1..Len(us), us[j] # NoUser
      PROVE  vs[j] # NoUser /\ Of(vs[j], f) = Of(us[j], f)
  <2>1. us[j] \in UserInfos
    BY <1>4, ListParts
  <2>2. CASE vs[j] = us[j]
    BY <1>4, <2>2
  <2>3. CASE vs[j] = [us[j] EXCEPT !.authority = chosen(j)] /\ chosen(j) \in Nat
    <3>1. vs[j] \in UserInfos /\ Of(vs[j], f) = Of(us[j], f)
      BY <2>1, <2>3 DEF UserInfos, Of
    <3> QED
      BY <3>1, NoUserAssumption
  <2> QED
    BY <1>1, <1>2, <1>4, <2>2, <2>3
<1>5. Present(vs, j) <=> Present(us, j)
  BY <1>2, <1>3, <1>4 DEF Present
<1>6. Held(vs, f, j) = Held(us, f, j)
  BY <1>4, <1>5 DEF Held, Present
<1> QED
  BY <1>6 DEF vs

\* A command of an open connection.
LEMMA TellTold ==
  ASSUME RoomInv, ToldInv, NEW c \in Client, NEW command, NEW us, NEW ms,
         Tell(c, command, us, ms), IsChannel(ms), Typing(ms, typed[c] \cup {command}),
         UNCHANGED golf \/ (command = "golf" /\ \E on : Changes(golf, golf', c, on)),
         \A i, f : f \in Fields =>
            \/ Held(us, f, i) = Held(users[c], f, i)
            \/ i = me[c] /\ Own(ms, typed[c] \cup {command}, f)
  PROVE  ToldInv'
<1> DEFINE ty2 == typed[c] \cup {command}
           ts == IF serving[c] = "none" THEN toServer[c] ELSE toServer[c] \o ms
<1>1. /\ link[c] # "closed" /\ UNCHANGED <<link, serving, toClient, slots, room, info>>
      /\ Changes(users, users', c, us) /\ Changes(typed, typed', c, ty2)
      /\ Changes(toServer, toServer', c, ts)
  BY DEF Tell, serverVars, Changes
<1>2. /\ IsTable(users) /\ IsTable(toServer) /\ IsTable(typed)
      /\ golf \in [Client -> BOOLEAN] /\ IsTable(golf)
  BY DEF RoomInv, RoomTypes, ToldInv, IsTable
<1>3. typed[c] \subseteq ty2 /\ command \in ty2
  OBVIOUS
<1> HIDE DEF ts, ty2
<1>4. /\ users'[c] = us /\ \A d \in Client \ {c} : users'[d] = users[d]
      /\ toServer'[c] = ts /\ \A d \in Client \ {c} : toServer'[d] = toServer[d]
  BY <1>1, <1>2, TableChange
<1>5. IsTable(typed') /\ typed'[c] = ty2 /\ \A d \in Client \ {c} : typed'[d] = typed[d]
  BY <1>1, <1>2, TableChange
<1>6. /\ \A d \in Client \ {c} : golf'[d] = golf[d]
      /\ golf'[c] = golf[c] \/ command = "golf"
  <2>1. CASE UNCHANGED golf
    BY <2>1
  <2>2. CASE command = "golf" /\ \E on : Changes(golf, golf', c, on)
    BY <1>2, <2>2, TableChange
  <2> QED
    BY <2>1, <2>2
<1>7. ToldClient(c)'
  <2>1. IsChannel(toServer[c]) /\ IsChannel(toClient[c])
    BY DEF RoomInv, GoodClient, Good, AllSane
  <2>2. Typing(ts, ty2)
    <3>1. Typing(toServer[c], typed[c])
      BY <1>1 DEF ToldInv, ToldClient
    <3>2. Typing(toServer[c], ty2)
      BY <1>3, <3>1 DEF Typing
    <3>3. Typing(toServer[c] \o ms, ty2)
      BY <1>3, <2>1, <3>1, TypingConcat DEF ty2
    <3> QED
      BY <3>2, <3>3 DEF ts
  <2>3. ASSUME serving[c] = "member"
        PROVE  Told(c, ts, toClient[c], us, golf'[c], ty2, room.golf, slots, info)
    <3>1. Told(c, toServer[c], toClient[c], users[c], golf[c], typed[c], room.golf, slots, info)
      BY <1>1, <2>3 DEF ToldInv, ToldClient
    <3>2. Copy(c, link[c], serving[c], toClient[c], users[c], me[c], slots)
      BY DEF RoomInv, GoodClient, Good
    <3>3. /\ Reads(c, Shape(users[c]), toClient[c], slots)
          /\ slots[me[c]] = c \/ Has(toClient[c], "ACCEPT")
      BY <1>1, <2>3, <3>2 DEF Copy
    <3>4. \A i, f : Present(slots, i) /\ f \in Fields =>
            \/ Held(us, f, i) = Held(users[c], f, i) \/ Has(toClient[c], "ACCEPT")
            \/ slots[i] = c /\ Own(ms, ty2, f)
      BY <3>3 DEF ty2
    <3> DEFINE g2 == golf'[c]
    <3>5. g2 = golf[c] \/ "golf" \in ty2
      BY <1>3, <1>6
    <3> HIDE DEF g2
    <3>6. Told(c, toServer[c] \o ms, toClient[c], us, g2, ty2, room.golf, slots, info)
      BY <1>3, <2>1, <3>1, <3>3, <3>4, <3>5, ToldSend
    <3> QED
      BY <2>3, <3>6 DEF g2, ts
  <2> QED
    BY <1>1, <1>4, <1>5, <2>2, <2>3 DEF ToldClient
<1> QED
  BY <1>1, <1>4, <1>5, <1>6, <1>7, OnlyTold

\* A command that leaves the list as it is.
LEMMA PlainTold ==
  ASSUME RoomInv, ToldInv, NEW c \in Client, NEW command, NEW m,
         Tell(c, command, users[c], <<m>>), UNCHANGED golf, m.type \notin {"GOLF", "INPUT_MAP"}
  PROVE  ToldInv'
<1>1. IsChannel(<<m>>) /\ Typing(<<m>>, typed[c] \cup {command})
  BY ChannelOne, TypingOne
<1> QED
  BY <1>1, TellTold

\* A command that changes the client's own record, and sends a packet about it.
LEMMA OwnTold ==
  ASSUME RoomInv, ToldInv, NEW c \in Client, NEW command, NEW us, NEW ms,
         Tell(c, command, us, ms), UNCHANGED golf,
         IsChannel(ms), Typing(ms, typed[c] \cup {command}),
         NEW r \in UserInfos, Changes(users[c], us, me[c], r),
         \A f \in Fields : \/ Of(r, f) = Of(users[c][me[c]], f)
                           \/ Own(ms, typed[c] \cup {command}, f)
  PROVE  ToldInv'
<1>1. users[c] \in UserList /\ users[c][me[c]] # NoUser
  BY OwnParts, NoUserAssumption
<1>2. r # NoUser
  BY NoUserAssumption
<1>3. ASSUME NEW i, NEW f \in Fields
      PROVE  \/ Held(us, f, i) = Held(users[c], f, i)
             \/ i = me[c] /\ Own(ms, typed[c] \cup {command}, f)
  BY <1>1, <1>2, HeldOfChange
<1> QED
  BY <1>3, TellTold

LEMMA OwnOne ==
  ASSUME NEW m, NEW ty, NEW f, Asks(m, f) PROVE Own(<<m>>, ty, f)
BY DEF Own

LEMMA LagCommandTold ==
  ASSUME RoomInv, ToldInv, NEW c \in Client, LagCommand(c) PROVE ToldInv'
<1>1. PICK lag \in Lags, mine \in BOOLEAN, theirs \in BOOLEAN :
        Tell(c, "lag",
             IF mine THEN [users[c] EXCEPT ![me[c]].lag = lag] ELSE users[c],
             (IF theirs THEN <<[type |-> "AUTOLAG", value |-> 0]>> ELSE <<>>)
             \o <<[type |-> "LAG", lag |-> lag, mine |-> mine, theirs |-> theirs]>>)
  BY DEF LagCommand
<1> DEFINE vs == [users[c] EXCEPT ![me[c]].lag = lag]
           us == IF mine THEN vs ELSE users[c]
           a == [type |-> "AUTOLAG", value |-> 0]
           m == [type |-> "LAG", lag |-> lag, mine |-> mine, theirs |-> theirs]
           as == IF theirs THEN <<a>> ELSE <<>>
           own == users[c][me[c]]
           s == [own EXCEPT !.lag = lag]
           ms == as \o <<m>>
           ty == typed[c] \cup {"lag"}
<1>2. Tell(c, "lag", us, ms) /\ UNCHANGED golf
  BY <1>1 DEF LagCommand
<1>3. lag \in Nat /\ own \in UserInfos
  BY LagAssumption, OwnParts
<1>4. Changes(users[c], vs, me[c], s)
  BY DEF Changes
<1> HIDE DEF own
<1>5. s \in UserInfos /\ s.map = own.map /\ s.plugged = own.plugged
  BY <1>3 DEF UserInfos
<1> HIDE DEF vs, s
<1>6. IsChannel(as) /\ IsChannel(<<m>>)
  BY ChannelOne, ChannelNone
<1>7. Typing(as, ty) /\ Typing(<<m>>, ty)
  <2>1. Typing(<<a>>, ty) /\ Typing(<<m>>, ty)
    BY TypingOne
  <2> QED
    BY <2>1, TypingNone
<1>8. mine => Own(<<m>>, ty, "lag")
  <2>1. mine => Asks(m, "lag")
    BY DEF Asks
  <2> QED
    BY <2>1, OwnOne
<1> HIDE DEF as, m, us
<1>9. IsChannel(ms) /\ Typing(ms, ty)
  BY <1>6, <1>7, TypingConcat, ChannelConcat
<1>10. mine => Own(ms, ty, "lag")
  BY <1>6, <1>8, OwnConcat
<1> HIDE DEF ms
<1>11. CASE mine
  <2>1. us = vs
    BY <1>11 DEF us
  <2>2. \A f \in Fields : Of(s, f) = Of(own, f) \/ Own(ms, ty, f)
    BY <1>5, <1>10, <1>11 DEF Fields, Of
  <2> QED
    BY <1>2, <1>4, <1>5, <1>9, <2>1, <2>2, OwnTold DEF own
<1>12. CASE ~mine
  <2>1. us = users[c]
    BY <1>12 DEF us
  <2> QED
    BY <1>2, <1>9, <2>1, TellTold
<1> QED
  BY <1>11, <1>12

LEMMA AutolagCommandTold ==
  ASSUME RoomInv, ToldInv, NEW c \in Client, AutolagCommand(c) PROVE ToldInv'
<1> DEFINE m == [type |-> "AUTOLAG", value |-> -1]
<1>1. m.type \notin {"GOLF", "INPUT_MAP"}
  OBVIOUS
<1>2. Tell(c, "autolag", users[c], <<m>>) /\ UNCHANGED golf
  BY DEF AutolagCommand
<1> HIDE DEF m
<1> QED
  BY <1>1, <1>2, PlainTold

LEMMA NameCommandTold ==
  ASSUME RoomInv, ToldInv, NEW c \in Client, NameCommand(c) PROVE ToldInv'
<1> DEFINE m == Message("NAME")
<1>1. m.type \notin {"GOLF", "INPUT_MAP"}
  BY DEF Message
<1>2. Tell(c, "name", users[c], <<m>>) /\ UNCHANGED golf
  BY DEF NameCommand
<1> HIDE DEF m
<1> QED
  BY <1>1, <1>2, PlainTold

LEMMA StartCommandTold ==
  ASSUME RoomInv, ToldInv, NEW c \in Client, StartCommand(c) PROVE ToldInv'
<1> DEFINE m == Message("START")
<1>1. m.type \notin {"GOLF", "INPUT_MAP"}
  BY DEF Message
<1>2. Tell(c, "start", users[c], <<m>>) /\ UNCHANGED golf
  BY DEF StartCommand
<1> HIDE DEF m
<1> QED
  BY <1>1, <1>2, PlainTold

LEMMA MapCommandTold ==
  ASSUME RoomInv, ToldInv, NEW c \in Client, MapCommand(c) PROVE ToldInv'
<1> DEFINE m == [type |-> "INPUT_MAP", map |-> Typed]
           us == [users[c] EXCEPT ![me[c]].map = Typed]
           own == users[c][me[c]]
           s == [own EXCEPT !.map = Typed]
           ms == <<m>>
           ty == typed[c] \cup {"map"}
<1>1. Tell(c, "map", us, ms) /\ UNCHANGED golf
  BY DEF MapCommand
<1>2. Changes(users[c], us, me[c], s) /\ own \in UserInfos
  BY OwnParts DEF Changes
<1>3. IsChannel(ms) /\ Typing(ms, ty)
  BY ChannelOne, TypingOne
<1> HIDE DEF own
<1>4. s \in UserInfos /\ s.lag = own.lag
  BY <1>2 DEF UserInfos, Typed
<1> HIDE DEF us, s, ms
<1>5. \A f \in Fields : Of(s, f) = Of(own, f) \/ Own(ms, ty, f)
  BY <1>4 DEF Of, Own
<1> QED
  BY <1>1, <1>2, <1>3, <1>4, <1>5, OwnTold DEF own

LEMMA PlugControllersTold ==
  ASSUME RoomInv, ToldInv, NEW c \in Client, PlugControllers(c) PROVE ToldInv'
<1> DEFINE own == users[c][me[c]]
           now == ~own.plugged
           m == [type |-> "CONTROLLERS", plugged |-> now]
           us == [users[c] EXCEPT ![me[c]].plugged = now]
           s == [own EXCEPT !.plugged = now]
           ms == <<m>>
           ty == typed[c] \cup {"plug"}
<1>1. Tell(c, "plug", us, ms) /\ UNCHANGED golf
  BY DEF PlugControllers
<1>2. Changes(users[c], us, me[c], s) /\ own \in UserInfos
  BY OwnParts DEF Changes
<1>3. IsChannel(ms) /\ Typing(ms, ty)
  BY ChannelOne, TypingOne
<1>4. \A f \in Fields : f # "lag" => Own(ms, ty, f)
  <2>1. \A f : f # "lag" => Asks(m, f)
    BY DEF Asks
  <2> HIDE DEF m, ty
  <2> QED
    BY <2>1, OwnOne
<1> HIDE DEF own
<1>5. s \in UserInfos /\ s.lag = own.lag
  <2>1. now \in BOOLEAN
    OBVIOUS
  <2> HIDE DEF now
  <2> QED
    BY <1>2, <2>1 DEF UserInfos
<1> HIDE DEF us, s, ms
<1>6. \A f \in Fields : Of(s, f) = Of(own, f) \/ Own(ms, ty, f)
  BY <1>4, <1>5 DEF Of
<1> QED
  BY <1>1, <1>2, <1>3, <1>5, <1>6, OwnTold DEF own

\* The messages of change_input_authority are about authority only.
LEMMA AuthorityTyping ==
  ASSUME NEW us, NEW i, NEW pairs, Len(pairs) \in Nat, NEW ty
  PROVE  /\ IsChannel(AuthorityMessages(us, i, pairs))
         /\ Typing(AuthorityMessages(us, i, pairs), ty)
<1> DEFINE told == Live([n \in 1..Len(pairs) |->
                           IF us[pairs[n][1]].authority = pairs[n][2] THEN NoUser ELSE n])
           m(n) == Authority(IF us[pairs[told[n]][1]].authority = i THEN "DELEGATE_AUTHORITY"
                             ELSE "REQUEST_AUTHORITY", pairs[told[n]][1], pairs[told[n]][2])
           ms == AuthorityMessages(us, i, pairs)
<1>1. ms = [n \in 1..Len(told) |-> m(n)]
  BY DEF AuthorityMessages
<1>2. Len(told) \in Nat
  <2> DEFINE asked == [n \in 1..Len(pairs) |->
                         IF us[pairs[n][1]].authority = pairs[n][2] THEN NoUser ELSE n]
  <2>1. Len(asked) = Len(pairs)
    OBVIOUS
  <2> HIDE DEF asked
  <2>2. Len(Live(asked)) \in Nat
    BY <2>1, LiveParts
  <2> QED
    BY <2>2 DEF asked
<1>3. \A n : m(n).type \in {"DELEGATE_AUTHORITY", "REQUEST_AUTHORITY"}
  BY DEF Authority
<1> HIDE DEF told, m, ms
<1>4. IsChannel(ms) /\ Len(ms) = Len(told)
  BY <1>1, <1>2, ChannelFunction
<1>5. \A n \in 1..Len(ms) : ms[n].type \in {"DELEGATE_AUTHORITY", "REQUEST_AUTHORITY"}
  BY <1>1, <1>3, <1>4
<1>6. Typing(ms, ty)
  BY <1>5 DEF Typing, Has
<1> QED
  BY <1>4, <1>6 DEF ms

LEMMA AuthCommandTold ==
  ASSUME RoomInv, ToldInv, NEW c \in Client, AuthCommand(c) PROVE ToldInv'
<1>1. PICK u, a \in Range(Live(users[c])) :
        Tell(c, "auth", NewAuthority(users[c], me[c], <<<<u, a>>>>),
             AuthorityMessages(users[c], me[c], <<<<u, a>>>>))
  BY DEF AuthCommand
<1>2. users[c] \in UserList
  BY OwnParts
<1>3. Len(users[c]) \in Nat
  BY <1>2, ListParts
<1>4. IsChannel(Live(users[c])) /\ \A n \in 1..Len(Live(users[c])) : Present(users[c], Live(users[c])[n])
  BY <1>3, LiveParts
<1>5. a \in Nat
  <2>1. PICK n \in 1..Len(Live(users[c])) : a = Live(users[c])[n]
    BY <1>4, ChannelParts DEF Range
  <2> QED
    BY <1>3, <1>4, <2>1 DEF Present
<1> DEFINE pairs == <<<<u, a>>>>
           us == NewAuthority(users[c], me[c], pairs)
           ms == AuthorityMessages(users[c], me[c], pairs)
           ty == typed[c] \cup {"auth"}
<1>6. Len(pairs) = 1 /\ DOMAIN pairs = 1..1 /\ pairs[1] = <<u, a>> /\ pairs[1][2] = a
  OBVIOUS
<1>7. Tell(c, "auth", us, ms) /\ UNCHANGED golf
  BY <1>1 DEF AuthCommand
<1> HIDE DEF pairs
<1>8. \A p \in Range(pairs) : p[2] \in Nat
  BY <1>5, <1>6 DEF Range
<1>9. \A i, f : Held(us, f, i) = Held(users[c], f, i)
  BY <1>2, <1>8, HeldNewAuthority
<1> HIDE DEF ty
<1>10. IsChannel(ms) /\ Typing(ms, ty)
  BY <1>6, AuthorityTyping
<1> HIDE DEF us, ms
<1> QED
  BY <1>7, <1>9, <1>10, TellTold DEF ty

LEMMA GolfCommandTold ==
  ASSUME RoomInv, ToldInv, NEW c \in Client, GolfCommand(c) PROVE ToldInv'
<1> DEFINE on == ~golf[c]
           live == Live(users[c])
           pairs == [n \in 1..Len(live) |-> <<live[n], IF on THEN me[c] ELSE live[n]>>]
           us == NewAuthority(users[c], me[c], pairs)
           m == [type |-> "GOLF", golf |-> on]
           as == AuthorityMessages(users[c], me[c], pairs)
           ms == <<m>> \o as
           ty == typed[c] \cup {"golf"}
<1>1. Tell(c, "golf", us, ms) /\ Changes(golf, golf', c, on)
  BY DEF GolfCommand, Changes
<1>2. users[c] \in UserList /\ me[c] \in Nat
  BY OwnParts
<1>3. Len(users[c]) \in Nat
  BY <1>2, ListParts
<1>4. Len(live) \in Nat /\ \A n \in 1..Len(live) : live[n] \in Nat
  BY <1>3, LiveParts DEF Present
<1>5. IsChannel(<<m>>) /\ Typing(<<m>>, ty)
  BY ChannelOne, TypingOne
<1> HIDE DEF live
<1>6. /\ Len(pairs) = Len(live) /\ DOMAIN pairs = 1..Len(live)
      /\ \A n \in 1..Len(live) : pairs[n] = <<live[n], IF on THEN me[c] ELSE live[n]>>
  BY <1>4
<1> HIDE DEF pairs
<1>7. \A p \in Range(pairs) : p[2] \in Nat
  BY <1>2, <1>4, <1>6 DEF Range
<1>8. \A i, f : Held(us, f, i) = Held(users[c], f, i)
  BY <1>2, <1>7, HeldNewAuthority
<1> HIDE DEF m, ty
<1>9. IsChannel(as) /\ Typing(as, ty)
  BY <1>4, <1>6, AuthorityTyping
<1> HIDE DEF as
<1>10. IsChannel(ms) /\ Typing(ms, ty)
  BY <1>5, <1>9, ChannelConcat, TypingConcat
<1> HIDE DEF us, ms, on
<1> QED
  BY <1>1, <1>8, <1>10, TellTold DEF ty

\* c sends ms, which are about nothing of this.
LEMMA ToldMore ==
  ASSUME NEW c, NEW ts, NEW tc, NEW us, NEW g, NEW ty, NEW rg, NEW sl, NEW inf,
         Told(c, ts, tc, us, g, ty, rg, sl, inf), IsChannel(ts), NEW ms, IsChannel(ms)
  PROVE  Told(c, ts \o ms, tc, us, g, ty, rg, sl, inf)
<1>1. \A f : Own(ts, ty, f) => Own(ts \o ms, ty, f)
  BY OwnConcat
<1> QED
  BY <1>1 DEF Told

LEMMA StartAloneTold ==
  ASSUME RoomInv, ToldInv, NEW c \in Client, StartAlone(c) PROVE ToldInv'
<1> DEFINE us == [users[c] EXCEPT ![1].map = Identity, ![1].lag = 0]
<1>1. /\ link[c] = "closed" /\ Changes(users, users', c, us)
      /\ UNCHANGED <<slots, room, info, serving, link, golf, typed, toServer, toClient>>
  BY DEF StartAlone, Changes, serverVars
<1> HIDE DEF us
<1>2. \A d \in Client \ {c} : users'[d] = users[d]
  BY <1>1, TableChange DEF RoomInv, RoomTypes
<1>3. ToldClient(c)' /\ IsTable(typed')
  BY <1>1 DEF ToldClient, ToldInv
<1> QED
  BY <1>1, <1>2, <1>3, OnlyTold

LEMMA CloseTold ==
  ASSUME RoomInv, ToldInv, NEW c \in Client, CloseClient(c), UNCHANGED <<slots, room, info, serving>>
  PROVE  ToldInv'
<1>1. PICK us, ts :
        /\ Changes(users, users', c, us) /\ Changes(toServer, toServer', c, ts)
        /\ Changes(link, link', c, "closed") /\ Changes(toClient, toClient', c, <<>>)
        /\ Changes(typed, typed', c, {}) /\ UNCHANGED golf
  BY DEF CloseClient, Changes
<1>2. /\ IsTable(users) /\ IsTable(toServer) /\ IsTable(link) /\ IsTable(toClient) /\ IsTable(typed)
  BY DEF RoomInv, RoomTypes, ToldInv
<1>3. /\ link'[c] = "closed" /\ IsTable(typed')
      /\ \A d \in Client \ {c} :
            /\ users'[d] = users[d] /\ toServer'[d] = toServer[d] /\ link'[d] = link[d]
            /\ toClient'[d] = toClient[d] /\ typed'[d] = typed[d]
  BY <1>1, <1>2, TableChange
<1>4. ToldClient(c)'
  BY <1>3 DEF ToldClient
<1> QED
  BY <1>1, <1>3, <1>4, OnlyTold

LEMMA LeaveTold ==
  ASSUME RoomInv, ToldInv, NEW c \in Client, Leave(c) PROVE ToldInv'
<1>1. CloseClient(c) /\ UNCHANGED <<slots, room, info, serving>>
  BY DEF Leave, serverVars
<1> QED
  BY <1>1, CloseTold

LEMMA ReceiveEofTold ==
  ASSUME RoomInv, ToldInv, NEW c \in Client, ReceiveEof(c) PROVE ToldInv'
<1>1. CloseClient(c) /\ UNCHANGED <<slots, room, info, serving>>
  BY DEF ReceiveEof, serverVars
<1> QED
  BY <1>1, CloseTold

LEMMA ConnectTold ==
  ASSUME RoomInv, ToldInv, NEW c \in Client, Connect(c) PROVE ToldInv'
<1> DEFINE us == [users[c] EXCEPT ![1].lag = 0]
<1>1. /\ link[c] = "closed" /\ serving[c] = "none"
      /\ UNCHANGED <<slots, room, info, golf, typed, toServer, toClient>>
      /\ Changes(users, users', c, us) /\ Changes(link, link', c, "query")
      /\ Changes(serving, serving', c, "open")
  BY DEF Connect, Accept, serverVars, Changes
<1> HIDE DEF us
<1>2. /\ IsTable(users) /\ IsTable(link) /\ IsTable(serving) /\ toServer[c] = <<>>
  BY <1>1 DEF RoomInv, RoomTypes, GoodClient, Good, Session
<1>3. /\ serving'[c] = "open"
      /\ \A d \in Client \ {c} :
            /\ users'[d] = users[d] /\ link'[d] = link[d] /\ serving'[d] = serving[d]
  BY <1>1, <1>2, TableChange
<1>4. ToldClient(c)' /\ IsTable(typed')
  BY <1>1, <1>2, <1>3, TypingNone DEF ToldClient, ToldInv
<1> QED
  BY <1>1, <1>3, <1>4, OnlyTold

LEMMA SendJoinTold ==
  ASSUME RoomInv, ToldInv, NEW c \in Client, SendJoin(c) PROVE ToldInv'
<1> DEFINE m == [type |-> "JOIN", info |-> users[c][me[c]]]
           ms == <<m>>
           ts == Append(toServer[c], m)
<1>1. /\ link[c] = "query" /\ Changes(link, link', c, "joined") /\ Changes(toServer, toServer', c, ts)
      /\ UNCHANGED <<slots, room, info, serving, users, golf, typed, toClient>>
  BY DEF SendJoin, serverVars, clientVars, Changes
<1>2. IsTable(link) /\ IsTable(toServer) /\ IsChannel(toServer[c])
  BY DEF RoomInv, RoomTypes, GoodClient, Good, AllSane
<1>3. IsChannel(ms) /\ Typing(ms, typed[c])
  BY ChannelOne, TypingOne
<1> HIDE DEF m
<1>4. ts = toServer[c] \o ms
  BY <1>2, ChannelAppend
<1> HIDE DEF ms, ts
<1>5. /\ link'[c] = "joined" /\ toServer'[c] = ts
      /\ \A d \in Client \ {c} : link'[d] = link[d] /\ toServer'[d] = toServer[d]
  BY <1>1, <1>2, TableChange
<1>6. ToldClient(c)
  BY DEF ToldInv
<1>7. Typing(ts, typed[c])
  BY <1>1, <1>2, <1>3, <1>4, <1>6, TypingConcat DEF ToldClient
<1>8. serving[c] = "member" =>
        Told(c, ts, toClient[c], users[c], golf[c], typed[c], room.golf, slots, info)
  BY <1>1, <1>2, <1>3, <1>4, <1>6, ToldMore DEF ToldClient
<1>9. ToldClient(c)' /\ IsTable(typed')
  BY <1>1, <1>5, <1>7, <1>8 DEF ToldClient, ToldInv
<1> QED
  BY <1>1, <1>5, <1>9, OnlyTold

\* The client handles a message: vs is what becomes of its list, and ms what it
\* sends.
LEMMA ReceiveTold ==
  ASSUME RoomInv, ToldInv, NEW c \in Client, NEW types, Receives(c, types),
         Consume(c), UNCHANGED <<slots, room, info, serving, link, typed>>,
         NEW m, m = Head(toClient[c]),
         NEW vs, Changes(users, users', c, vs),
         \A i, f : f \in Fields => Held(vs, f, i) = Held(Apply(users[c], m), f, i),
         NEW ms, IsChannel(ms), ~Has(ms, "GOLF"), ~Has(ms, "INPUT_MAP"),
         Changes(toServer, toServer', c, toServer[c] \o ms) \/ UNCHANGED toServer,
         NEW g, IF m.type = "GOLF" THEN g = m.golf ELSE g = golf[c], Changes(golf, golf', c, g)
  PROVE  ToldInv'
<1>1. link[c] # "closed" /\ toClient[c] # <<>>
  BY DEF Receives
<1> DEFINE tc == Tail(toClient[c])
           ts == toServer[c] \o ms
<1>2. Changes(toClient, toClient', c, tc)
  BY DEF Consume, Changes
<1>3. /\ IsTable(toClient) /\ IsTable(toServer) /\ IsTable(users) /\ IsTable(golf)
      /\ IsChannel(toServer[c]) /\ IsChannel(toClient[c])
  BY DEF RoomInv, RoomTypes, GoodClient, Good, AllSane, IsTable
<1> HIDE DEF tc, ts
<1>4. /\ users'[c] = vs /\ \A d \in Client \ {c} : users'[d] = users[d]
      /\ toClient'[c] = tc /\ \A d \in Client \ {c} : toClient'[d] = toClient[d]
      /\ golf'[c] = g /\ \A d \in Client \ {c} : golf'[d] = golf[d]
  BY <1>2, <1>3, TableChange
<1>5. /\ toServer'[c] = ts \/ toServer'[c] = toServer[c]
      /\ \A d \in Client \ {c} : toServer'[d] = toServer[d]
  <2>1. CASE UNCHANGED toServer
    BY <2>1
  <2>2. CASE Changes(toServer, toServer', c, ts)
    BY <1>3, <2>2, TableChange
  <2> QED
    BY <2>1, <2>2 DEF ts
<1>6. Typing(toServer[c], typed[c]) /\ Typing(ts, typed[c])
  <2>1. Typing(toServer[c], typed[c]) /\ Typing(ms, typed[c])
    BY <1>1 DEF ToldInv, ToldClient, Typing
  <2> QED
    BY <1>3, <2>1, TypingConcat DEF ts
<1>7. ASSUME serving[c] = "member"
      PROVE  /\ Told(c, toServer[c], tc, vs, g, typed[c], room.golf, slots, info)
             /\ Told(c, ts, tc, vs, g, typed[c], room.golf, slots, info)
  <2>1. Told(c, toServer[c], toClient[c], users[c], golf[c], typed[c], room.golf, slots, info)
    BY <1>1, <1>7 DEF ToldInv, ToldClient
  <2>2. Copy(c, link[c], serving[c], toClient[c], users[c], me[c], slots)
    BY DEF RoomInv, GoodClient, Good
  <2>3. users[c] \in UserList /\ Reads(c, Shape(users[c]), toClient[c], slots)
    BY <1>1, <1>7, <2>2 DEF Copy
  <2>4. Told(c, toServer[c], tc, vs, g, typed[c], room.golf, slots, info)
    BY <1>1, <1>3, <2>1, <2>3, ToldReceive DEF tc
  <2> QED
    BY <1>3, <2>4, ToldMore DEF ts
<1>8. ToldClient(c)'
  <2>1. CASE toServer'[c] = ts
    BY <1>4, <1>6, <1>7, <2>1 DEF ToldClient
  <2>2. CASE toServer'[c] = toServer[c]
    BY <1>4, <1>6, <1>7, <2>2 DEF ToldClient
  <2> QED
    BY <1>5, <2>1, <2>2
<1>9. IsTable(typed')
  BY DEF ToldInv
<1> QED
  BY <1>4, <1>5, <1>8, <1>9, OnlyTold

\* A message that says nothing of the golf flag.
LEMMA ListTold ==
  ASSUME RoomInv, ToldInv, NEW c \in Client, NEW types, Receives(c, types), "GOLF" \notin types,
         Consume(c), UNCHANGED <<slots, room, info, serving, link, typed, golf>>,
         NEW m, m = Head(toClient[c]),
         NEW vs, Changes(users, users', c, vs),
         \A i, f : f \in Fields => Held(vs, f, i) = Held(Apply(users[c], m), f, i),
         NEW ms, IsChannel(ms), ~Has(ms, "GOLF"), ~Has(ms, "INPUT_MAP"),
         Changes(toServer, toServer', c, toServer[c] \o ms) \/ UNCHANGED toServer
  PROVE  ToldInv'
<1> DEFINE g == golf[c]
<1>1. m.type # "GOLF"
  BY DEF Receives
<1>2. Changes(golf, golf', c, g)
  BY TableSame DEF RoomInv, RoomTypes, IsTable
<1>3. IF m.type = "GOLF" THEN g = m.golf ELSE g = golf[c]
  BY <1>1
<1> HIDE DEF g
<1>4. UNCHANGED <<slots, room, info, serving, link, typed>>
  OBVIOUS
<1> QED
  BY <1>2, <1>3, <1>4, ReceiveTold

LEMMA QuietNone == IsChannel(<<>>) /\ ~Has(<<>>, "GOLF") /\ ~Has(<<>>, "INPUT_MAP")
BY ChannelNone, HasNone

LEMMA ReceiveViewTold ==
  ASSUME RoomInv, ToldInv, NEW c \in Client, ReceiveView(c) PROVE ToldInv'
<1> DEFINE m == Head(toClient[c])
           vs == Apply(users[c], m)
           types == {"JOIN", "LAG", "CONTROLLERS", "INPUT_MAP", "LATENCY", "NAME"}
<1>1. /\ Receives(c, types) /\ Consume(c) /\ UNCHANGED toServer
      /\ UNCHANGED <<slots, room, info, serving, link, typed, golf>>
      /\ Changes(users, users', c, vs) /\ "GOLF" \notin types
  BY DEF ReceiveView, serverVars, Changes
<1>2. m = Head(toClient[c]) /\ \A i, f : Held(vs, f, i) = Held(Apply(users[c], m), f, i)
  OBVIOUS
<1> HIDE DEF m, vs, types
<1> QED
  BY <1>1, <1>2, QuietNone, ListTold

LEMMA ReceiveAcceptTold ==
  ASSUME RoomInv, ToldInv, NEW c \in Client, ReceiveAccept(c) PROVE ToldInv'
<1> DEFINE m == Head(toClient[c])
           vs == Apply(users[c], m)
           types == {"ACCEPT"}
<1>1. /\ Receives(c, types) /\ Consume(c) /\ UNCHANGED toServer
      /\ UNCHANGED <<slots, room, info, serving, link, typed, golf>>
      /\ Changes(users, users', c, vs) /\ "GOLF" \notin types
  BY DEF ReceiveAccept, serverVars, Changes
<1>2. m = Head(toClient[c]) /\ \A i, f : Held(vs, f, i) = Held(Apply(users[c], m), f, i)
  OBVIOUS
<1> HIDE DEF m, vs, types
<1> QED
  BY <1>1, <1>2, QuietNone, ListTold

LEMMA ReceiveStartTold ==
  ASSUME RoomInv, ToldInv, NEW c \in Client, ReceiveStart(c) PROVE ToldInv'
<1> DEFINE m == Head(toClient[c])
           us == users[c]
           types == {"START"}
<1>1. /\ Receives(c, types) /\ Consume(c) /\ UNCHANGED <<toServer, users>>
      /\ UNCHANGED <<slots, room, info, serving, link, typed, golf>> /\ "GOLF" \notin types
  BY DEF ReceiveStart, serverVars
<1>2. Changes(users, users', c, us)
  BY <1>1, TableSame DEF RoomInv, RoomTypes
<1>3. m = Head(toClient[c]) /\ m.type = "START"
  BY <1>1 DEF Receives
<1>4. Apply(users[c], m) = us
  BY <1>3 DEF Apply
<1> HIDE DEF m, us, types
<1> QED
  BY <1>1, <1>2, <1>3, <1>4, QuietNone, ListTold

LEMMA ReceiveGolfTold ==
  ASSUME RoomInv, ToldInv, NEW c \in Client, ReceiveGolf(c) PROVE ToldInv'
<1> DEFINE m == Head(toClient[c])
           us == users[c]
           types == {"GOLF"}
           g == m.golf
<1>1. /\ Receives(c, types) /\ Consume(c) /\ UNCHANGED <<toServer, users>>
      /\ UNCHANGED <<slots, room, info, serving, link, typed>> /\ Changes(golf, golf', c, g)
  BY DEF ReceiveGolf, serverVars, Changes
<1>2. Changes(users, users', c, us)
  BY <1>1, TableSame DEF RoomInv, RoomTypes
<1>3. m = Head(toClient[c]) /\ m.type = "GOLF"
  BY <1>1 DEF Receives
<1>4. Apply(users[c], m) = us
  BY <1>3 DEF Apply
<1>5. IF m.type = "GOLF" THEN g = m.golf ELSE g = golf[c]
  BY <1>3
<1> HIDE DEF m, us, types, g
<1> QED
  BY <1>1, <1>2, <1>3, <1>4, <1>5, QuietNone, ReceiveTold

LEMMA ReceiveInputTold ==
  ASSUME RoomInv, ToldInv, NEW c \in Client, ReceiveInput(c) PROVE ToldInv'
<1> DEFINE m == Head(toClient[c])
           us == users[c]
           ok == us[m.user] # NoUser /\ us[m.user].inputs = m.first
           vs == IF ok THEN Extended(us, m.user, m.count) ELSE us
           types == {"INPUT_DATA"}
<1>1. /\ Receives(c, types) /\ Consume(c) /\ UNCHANGED toServer
      /\ UNCHANGED <<slots, room, info, serving, link, typed, golf>>
      /\ Changes(users, users', c, vs) /\ "GOLF" \notin types /\ "EOF" \notin types
  BY DEF ReceiveInput, serverVars, Changes
<1>2. m = Head(toClient[c]) /\ m.type = "INPUT_DATA"
  BY <1>1 DEF Receives
<1>3. us \in UserList /\ Apply(us, m) = us
  BY <1>2, OwnParts DEF Apply
<1> HIDE DEF m, types
<1>4. m.count \in Nat
  <2>1. Fits(c, Shape(users[c]), m)
    BY <1>1, <1>2, HeadParts
  <2> QED
    BY <1>2, <2>1 DEF Fits
<1>5. \A i, f : Held(vs, f, i) = Held(us, f, i)
  <2> HIDE DEF us
  <2>1. ok => \A i, f : Held(Extended(us, m.user, m.count), f, i) = Held(us, f, i)
    BY <1>3, <1>4, HeldExtended
  <2> QED
    BY <2>1
<1> HIDE DEF vs
<1> QED
  BY <1>1, <1>2, <1>3, <1>5, QuietNone, ListTold

LEMMA AnswersQuiet ==
  ASSUME NEW ms, NEW u, NEW a, NEW first, NEW n,
         ms = <<Authority("DELEGATE_AUTHORITY", u, a)>> \/ ms = <<Input(u, first, n)>>
  PROVE  IsChannel(ms) /\ ~Has(ms, "GOLF") /\ ~Has(ms, "INPUT_MAP")
<1>1. Authority("DELEGATE_AUTHORITY", u, a).type = "DELEGATE_AUTHORITY"
  BY DEF Authority
<1>2. Input(u, first, n).type = "INPUT_DATA"
  BY DEF Input
<1> QED
  BY <1>1, <1>2, ChannelOne, HasOne

LEMMA ReceiveQuitTold ==
  ASSUME RoomInv, ToldInv, NEW c \in Client, ReceiveQuit(c) PROVE ToldInv'
<1> DEFINE m == Head(toClient[c])
           us == Apply(users[c], m)
           i == me[c]
           n == IF started[c] THEN 1 ELSE 0
           vs == [us EXCEPT ![i].authority = i]
           ws == Extended(vs, i, n)
           a == <<Authority("DELEGATE_AUTHORITY", i, i)>>
           b == IF n = 0 THEN <<>> ELSE <<Input(i, us[i].inputs, n)>>
           ms == a \o b
           types == {"QUIT"}
           ts == toServer[c]
<1>1. /\ Receives(c, types) /\ Consume(c) /\ "GOLF" \notin types /\ "EOF" \notin types
      /\ UNCHANGED <<slots, room, info, serving, link, typed, golf>>
  BY DEF ReceiveQuit, serverVars
<1>2. /\ IsChannel(a) /\ ~Has(a, "GOLF") /\ ~Has(a, "INPUT_MAP")
      /\ IsChannel(b) /\ ~Has(b, "GOLF") /\ ~Has(b, "INPUT_MAP")
  BY AnswersQuiet, QuietNone
<1>3. IF us[i].authority # m.user
      THEN Changes(users, users', c, us) /\ UNCHANGED toServer
      ELSE Changes(users, users', c, ws) /\ Changes(toServer, toServer', c, (ts \o a) \o b)
  BY DEF ReceiveQuit, Changes
<1>4. m = Head(toClient[c]) /\ m.type = "QUIT"
  BY <1>1 DEF Receives
<1>5. n \in Nat /\ i \in Nat /\ IsChannel(ts)
  BY OwnParts DEF RoomInv, GoodClient, Good, AllSane
<1> HIDE DEF m, types, a, b
<1>6. us \in UserList /\ Present(us, i) /\ us[i] # NoUser
  BY <1>1, <1>4, HeadParts DEF Present
<1> HIDE DEF ts
<1>7. IsChannel(ms) /\ ~Has(ms, "GOLF") /\ ~Has(ms, "INPUT_MAP") /\ (ts \o a) \o b = ts \o ms
  BY <1>2, <1>5, ChannelConcat, HasConcat, Joined
<1> DEFINE as == Apply(users[c], m)
<1>8. us = as
  OBVIOUS
<1> HIDE DEF us, n, ms, i
<1>9. \A f, j : Held(ws, f, j) = Held(us, f, j)
  <2> DEFINE r == [us[i] EXCEPT !.authority = i]
  <2>1. Changes(us, vs, i, r)
    BY DEF Changes
  <2> HIDE DEF vs
  <2>2. vs \in UserList /\ Len(vs) = Len(us) /\ Shape(vs) = Shape(us)
    BY <1>5, <1>6, <2>1, AuthorityShape DEF r
  <2>3. Present(vs, i)
    BY <1>6, <2>2, ShapeParts
  <2>4. vs[i] # NoUser
    BY <2>3 DEF Present
  <2>5. \A f, j : Held(vs, f, j) = Held(us, f, j)
    BY <1>5, <1>6, <2>1, HeldAuthority DEF r
  <2>6. \A f, j : Held(ws, f, j) = Held(vs, f, j)
    BY <1>5, <2>2, <2>4, HeldExtended
  <2> QED
    BY <2>5, <2>6
<1> HIDE DEF vs, ws
<1>10. CASE us[i].authority # m.user
  BY <1>1, <1>3, <1>4, <1>8, <1>10, QuietNone, ListTold
<1>11. CASE ~(us[i].authority # m.user)
  <2>1. Changes(users, users', c, ws) /\ Changes(toServer, toServer', c, toServer[c] \o ms)
    BY <1>3, <1>7, <1>11 DEF ts
  <2>2. \A j, f : f \in Fields => Held(ws, f, j) = Held(Apply(users[c], m), f, j)
    BY <1>8, <1>9
  <2> QED
    BY <1>1, <1>4, <1>7, <2>1, <2>2, ListTold
<1> QED
  BY <1>10, <1>11

LEMMA ReceiveAuthorityTold ==
  ASSUME RoomInv, ToldInv, NEW c \in Client, ReceiveAuthority(c) PROVE ToldInv'
<1> DEFINE m == Head(toClient[c])
           u == m.user
           own == users[c]
           us == [own EXCEPT ![u].authority = m.authority]
           ws == Extended(us, u, 2)
           a == <<Authority("DELEGATE_AUTHORITY", u, m.authority)>>
           b == <<Input(u, us[u].inputs, 2)>>
           types == {"REQUEST_AUTHORITY", "DELEGATE_AUTHORITY"}
           ts == toServer[c]
<1>1. /\ Receives(c, types) /\ Consume(c) /\ "GOLF" \notin types
      /\ UNCHANGED <<slots, room, info, serving, link, typed, golf>>
  BY DEF ReceiveAuthority, serverVars
<1>2. Append(ts, a[1]) = ts \o a /\ Append(ts, b[1]) = ts \o b
  <2> DEFINE x == Authority("DELEGATE_AUTHORITY", u, m.authority)
             y == Input(u, us[u].inputs, 2)
  <2>1. IsChannel(ts)
    BY DEF RoomInv, GoodClient, Good, AllSane
  <2>2. a = <<x>> /\ b = <<y>> /\ a[1] = x /\ b[1] = y
    OBVIOUS
  <2> HIDE DEF x, y, ts, a, b
  <2> QED
    BY <2>1, <2>2, ChannelAppend
<1>3. \/ UNCHANGED <<users, toServer>>
      \/ /\ Present(own, u) /\ Present(own, m.authority)
         /\ \/ /\ Changes(users, users', c, us) /\ Changes(toServer, toServer', c, Append(ts, a[1]))
            \/ /\ Changes(users, users', c, us) /\ UNCHANGED toServer
            \/ /\ Changes(users, users', c, ws) /\ Changes(toServer, toServer', c, Append(ts, b[1]))
  BY DEF ReceiveAuthority, Changes
<1>4. m = Head(toClient[c]) /\ m.type \in types
  BY <1>1 DEF Receives
<1>5. own \in UserList /\ Apply(own, m) = own
  BY <1>4, OwnParts DEF Apply
<1>6. /\ IsChannel(a) /\ ~Has(a, "GOLF") /\ ~Has(a, "INPUT_MAP")
      /\ IsChannel(b) /\ ~Has(b, "GOLF") /\ ~Has(b, "INPUT_MAP")
  BY AnswersQuiet
<1> DEFINE as == Apply(users[c], m)
<1>7. as = own
  BY <1>5
<1>8. IsTable(users)
  BY DEF RoomInv, RoomTypes
<1>9. CASE UNCHANGED <<users, toServer>>
  <2>1. Changes(users, users', c, own)
    BY <1>8, <1>9, TableSame
  <2> HIDE DEF own, m, types
  <2> QED
    BY <1>1, <1>4, <1>7, <1>9, <2>1, QuietNone, ListTold
<1>10. CASE Present(own, u) /\ Present(own, m.authority)
  <2>1. own[u] # NoUser /\ m.authority \in Nat
    <3>1. Len(own) \in Nat
      BY <1>5, ListParts
    <3> QED
      BY <1>10, <3>1 DEF Present
  <2> DEFINE v == m.authority
             r == [own[u] EXCEPT !.authority = v]
  <2>2. Changes(own, us, u, r) /\ v \in Nat
    BY <2>1 DEF Changes
  <2> HIDE DEF us, own, u, v
  <2>3. us \in UserList /\ Len(us) = Len(own) /\ Shape(us) = Shape(own)
    BY <1>5, <2>1, <2>2, AuthorityShape DEF r
  <2>4. \A f, j : Held(us, f, j) = Held(own, f, j)
    BY <1>5, <2>1, <2>2, HeldAuthority DEF r
  <2>5. us[u] # NoUser
    <3>1. Present(us, u)
      BY <1>5, <1>10, <2>3, ShapeParts
    <3> QED
      BY <3>1 DEF Present
  <2>6. \A f, j : Held(ws, f, j) = Held(us, f, j)
    BY <2>3, <2>5, HeldExtended
  <2> HIDE DEF ws, a, b, types
  <2>7. /\ \A j, f : f \in Fields => Held(us, f, j) = Held(as, f, j)
        /\ \A j, f : f \in Fields => Held(ws, f, j) = Held(as, f, j)
    BY <1>7, <2>4, <2>6
  <2> HIDE DEF m
  <2>8. CASE Changes(users, users', c, us) /\ Changes(toServer, toServer', c, Append(ts, a[1]))
    <3>1. Changes(toServer, toServer', c, toServer[c] \o a)
      BY <1>2, <2>8
    <3> QED
      BY <1>1, <1>4, <1>6, <2>7, <2>8, <3>1, ListTold
  <2>9. CASE Changes(users, users', c, us) /\ UNCHANGED toServer
    BY <1>1, <1>4, <2>7, <2>9, QuietNone, ListTold
  <2>10. CASE Changes(users, users', c, ws) /\ Changes(toServer, toServer', c, Append(ts, b[1]))
    <3>1. Changes(toServer, toServer', c, toServer[c] \o b)
      BY <1>2, <2>10
    <3> QED
      BY <1>1, <1>4, <1>6, <2>7, <2>10, <3>1, ListTold
  <2>11. CASE UNCHANGED <<users, toServer>>
    BY <1>9, <2>11
  <2> QED
    BY <1>3, <2>8, <2>9, <2>10, <2>11
<1> QED
  BY <1>3, <1>9, <1>10

LEMMA CommandTold ==
  ASSUME RoomInv, ToldInv, NEW c \in Client, Command(c) PROVE ToldInv'
BY LagCommandTold, AutolagCommandTold, GolfCommandTold, MapCommandTold, AuthCommandTold,
   NameCommandTold, PlugControllersTold, StartCommandTold, StartAloneTold, LeaveTold
   DEF Command

LEMMA ReceivesTold ==
  ASSUME RoomInv, ToldInv, NEW c \in Client, Receive(c) PROVE ToldInv'
BY ReceiveEofTold, ReceiveViewTold, ReceiveAcceptTold, ReceiveQuitTold, ReceiveStartTold,
   ReceiveGolfTold, ReceiveInputTold, ReceiveAuthorityTold DEF Receive

LEMMA ToldInvInit == Init => ToldInv
BY DEF Init, ToldInv, ToldClient, IsTable

LEMMA ToldInvNext == RoomInv /\ ToldInv /\ [Next]_vars => ToldInv'
<1> SUFFICES ASSUME RoomInv, ToldInv, [Next]_vars PROVE ToldInv'
  OBVIOUS
<1>1. ASSUME NEW c \in Client,
             Connect(c) \/ SendJoin(c) \/ Command(c) \/ Receive(c) \/ Serve(c) \/ JoinRoom(c)
      PROVE  ToldInv'
  BY <1>1, ConnectTold, SendJoinTold, CommandTold, ReceivesTold, ServeTold, JoinRoomTold
<1>2. CASE Tick
  BY <1>2, TickTold
<1>3. CASE UNCHANGED vars
  BY <1>3 DEF vars, ToldInv, ToldClient
<1> QED
  BY <1>1, <1>2, <1>3 DEF Next

\* What every member is still sent ends with what the server has.
THEOREM ToldInvAlways == Spec => []ToldInv
<1>1. RoomInv /\ ToldInv /\ [Next]_vars => ToldInv'
  BY ToldInvNext
<1> QED
  BY <1>1, ToldInvInit, RoomInvAlways, PTL DEF Spec

\* Of a user in a member's list, as it will be, f is what the server has.
LEMMA ViewTold ==
  ASSUME RoomInv, ToldInv, NEW c \in Listed, NEW f \in Fields, NEW i \in Range(Live(View(c)))
  PROVE  \/ Of(View(c)[i], f) = Of(info[slots[i]], f)
         \/ slots[i] = c /\ Own(toServer[c], typed[c], f)
<1>1. c \in Client /\ serving[c] = "member" /\ link[c] # "closed"
  BY DEF Listed, Members
<1>2. /\ IsChannel(toClient[c])
      /\ Copy(c, link[c], serving[c], toClient[c], users[c], me[c], slots)
  BY <1>1 DEF RoomInv, GoodClient, Good
<1>3. users[c] \in UserList /\ Reads(c, Shape(users[c]), toClient[c], slots)
  BY <1>1, <1>2 DEF Copy
<1> DEFINE t == toClient[c]
<1>4. Len(t) \in Nat /\ Len(t) \in 0..Len(t)
  BY <1>2, ChannelParts
<1>5. PICK g : Lists(g, users[c], t, Len(t)) /\ View(c) = g[Len(t)]
  BY <1>4, ViewParts
<1> DEFINE v == View(c)
<1>6. v \in UserList /\ Shape(v) = slots
  <2>1. Through(c, g, users[c], t, slots)
    BY <1>3, <1>4, <1>5, ListsRead
  <2> QED
    BY <1>4, <1>5, <2>1 DEF Through
<1>7. Told(c, toServer[c], t, users[c], golf[c], typed[c], room.golf, slots, info)
  BY <1>1 DEF ToldInv, ToldClient
<1>8. i \in Range(Live(v))
  OBVIOUS
<1> HIDE DEF t, v
<1>9. Present(slots, i)
  <2>1. Len(v) \in Nat
    BY <1>6, ListParts
  <2>2. IsChannel(Live(v)) /\ \A n \in 1..Len(Live(v)) : Present(v, Live(v)[n])
    BY <2>1, LiveParts
  <2>3. PICK n \in 1..Len(Live(v)) : i = Live(v)[n]
    BY <1>8, <2>2, ChannelParts DEF Range
  <2>4. Present(v, i)
    BY <2>2, <2>3
  <2> QED
    BY <1>6, <2>4, ShapeParts
<1>10. \/ Ends(t, f, i, Held(users[c], f, i), Of(info[slots[i]], f))
       \/ slots[i] = c /\ Own(toServer[c], typed[c], f)
  BY <1>7, <1>9 DEF Told
<1>11. ASSUME NEW y, Ends(t, f, i, Held(users[c], f, i), y) PROVE Of(v[i], f) = y
  <2>1. Of(g[Len(t)][i], f) = y
    <3>1. Reads(c, Shape(users[c]), t, slots)
      BY <1>3 DEF t
    <3> QED
      BY <1>3, <1>4, <1>5, <1>9, <1>11, <3>1, ListsEnd
  <2> QED
    BY <1>5, <2>1 DEF v
<1> QED
  BY <1>10, <1>11 DEF v

\* Every member ends with the server's lag of every user, whoever changed it
\* and however the changes crossed (room::set_lag, user::set_lag and the
\* client's set_lag): the server answers even the one who asked.
THEOREM LagsAgreeAlways == Spec => []LagsAgree
<1>1. RoomInv /\ ToldInv => LagsAgree
  <2> SUFFICES ASSUME RoomInv, ToldInv, NEW c \in Listed, NEW i \in Range(Live(View(c)))
               PROVE  \/ View(c)[i].lag = info[slots[i]].lag
                      \/ slots[i] = c /\ Pending(c, "LAG")
    BY DEF LagsAgree
  <2>1. "lag" \in Fields
    BY DEF Fields
  <2>2. \/ Of(View(c)[i], "lag") = Of(info[slots[i]], "lag")
        \/ slots[i] = c /\ Own(toServer[c], typed[c], "lag")
    BY <2>1, ViewTold
  <2>3. Own(toServer[c], typed[c], "lag") => Pending(c, "LAG")
    BY DEF Own, Asks, Pending
  <2> QED
    BY <2>2, <2>3 DEF Of
<1> QED
  BY <1>1, RoomInvAlways, ToldInvAlways, PTL

\* Every member ends with the server's controllers and maps of every user
\* (room::update_controller_map, room::send_controllers), except for its own
\* while a change of it is on the way or after it typed a map.
THEOREM MapsAgreeAlways == Spec => []MapsAgree
<1>1. RoomInv /\ ToldInv => MapsAgree
  <2> SUFFICES ASSUME RoomInv, ToldInv, NEW c \in Listed, NEW i \in Range(Live(View(c)))
               PROVE  \/ slots[i] = c /\ (Pending(c, "CONTROLLERS") \/ "map" \in typed[c])
                      \/ /\ View(c)[i].map = info[slots[i]].map
                         /\ View(c)[i].plugged = info[slots[i]].plugged
    BY DEF MapsAgree
  <2>1. "map" \in Fields /\ "plugged" \in Fields
    BY DEF Fields
  <2>2. \/ Of(View(c)[i], "map") = Of(info[slots[i]], "map")
        \/ slots[i] = c /\ Own(toServer[c], typed[c], "map")
    BY <2>1, ViewTold
  <2>3. \/ Of(View(c)[i], "plugged") = Of(info[slots[i]], "plugged")
        \/ slots[i] = c /\ Own(toServer[c], typed[c], "plugged")
    BY <2>1, ViewTold
  <2>4. Own(toServer[c], typed[c], "map") \/ Own(toServer[c], typed[c], "plugged") =>
          Pending(c, "CONTROLLERS") \/ "map" \in typed[c]
    BY DEF Own, Asks, Pending
  <2> QED
    BY <2>2, <2>3, <2>4 DEF Of
<1> QED
  BY <1>1, RoomInvAlways, ToldInvAlways, PTL

\* Without the game that room::on_user_join knows, whoever never typed /golf
\* ends with the room's golf flag: room::set_golf tells everybody but the one
\* who typed it, and room::on_user_join the new user.
THEOREM GolfFollowsAlways == ASSUME ~GolfRom PROVE Spec => []GolfFollows
<1>1. RoomInv /\ ToldInv => GolfFollows
  <2> SUFFICES ASSUME RoomInv, ToldInv, NEW c \in Listed, "golf" \notin typed[c]
               PROVE  GolfTold(c) = room.golf
    BY DEF GolfFollows
  <2> DEFINE t == toClient[c]
             at == {n \in 1..Len(t) : t[n].type = "GOLF"}
             last == CHOOSE n \in at : \A k \in at : k <= n
  <2>1. Told(c, toServer[c], t, users[c], golf[c], typed[c], room.golf, slots, info)
        /\ IsChannel(t)
    BY DEF Listed, Members, ToldInv, ToldClient, RoomInv, GoodClient, Good
  <2>2. GolfTold(c) = IF at = {} THEN golf[c] ELSE t[last].golf
    BY DEF GolfTold
  <2>3. Ends(t, "golf", 0, {golf[c]}, room.golf) /\ Len(t) \in Nat
    BY <2>1, ChannelParts DEF Told
  <2> HIDE DEF t
  <2>4. \A n : Says(t[n], "golf", 0) <=> t[n].type = "GOLF"
    BY DEF Says, Fields
  <2>5. \A n : t[n].type = "GOLF" => Said(t[n], "golf", 0) = t[n].golf
    BY DEF Said
  <2>6. CASE room.golf \in {golf[c]} /\ \A n \in 1..Len(t) : ~Says(t[n], "golf", 0)
    BY <2>2, <2>4, <2>6
  <2>7. CASE \E n \in 1..Len(t) : /\ Says(t[n], "golf", 0) /\ Said(t[n], "golf", 0) = room.golf
                                  /\ \A k \in 1..Len(t) : k > n => ~Says(t[k], "golf", 0)
    <3>1. PICK n \in 1..Len(t) : /\ Says(t[n], "golf", 0) /\ Said(t[n], "golf", 0) = room.golf
                                 /\ \A k \in 1..Len(t) : k > n => ~Says(t[k], "golf", 0)
      BY <2>7
    <3>2. n \in at /\ \A k \in at : k <= n
      BY <2>3, <2>4, <3>1
    <3>3. \A k \in at : k \in Nat
      BY <2>3
    <3> HIDE DEF at
    <3>4. last \in at /\ n <= last /\ last <= n
      BY <3>2
    <3> HIDE DEF last
    <3>5. last = n
      BY <3>2, <3>3, <3>4
    <3>6. at # {} /\ t[last].golf = room.golf
      BY <2>4, <2>5, <3>1, <3>2, <3>5
    <3> QED
      BY <2>2, <3>6
  <2> QED
    BY <2>3, <2>6, <2>7 DEF Ends
<1> QED
  BY <1>1, RoomInvAlways, ToldInvAlways, PTL
=============================================================================
