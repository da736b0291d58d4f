-------------------------- MODULE ConnectionProofs --------------------------
(* What connection::flush guarantees on every socket, for any number of    *)
(* sockets and packets: one write at a time, and the byte stream intact;   *)
(* the same with the port queries of UdpQuery, which extends Connection,   *)
(* and one JOIN for each of them.                                           *)
EXTENDS UdpQuery, SequenceTheorems, TLAPS

WriteOp == [socket : Socket, data : Seq(Nat), failed : BOOLEAN]

\* The inductive invariant.  `flushing` is true while the open socket has a
\* write: that is what keeps a second one away.  (The converse fails after a
\* reconnection.)
InFlight ==
    /\ socket <= opened
    /\ \A w \in writes : w.socket <= opened
    /\ \A w \in Current : flushing
    /\ socket = 0 => out = <<>>

\* The streams, with the write in flight named instead of quantified over.
Streams ==
    /\ \A s \in Socket : Prefix(wire[s], sent[s])
    /\ \A s \in Socket : s > opened => wire[s] = <<>> /\ sent[s] = <<>>
    /\ \A w \in writes : w.socket # socket => Ended(w)
    /\ \A w \in Current : wire[socket] \o (w.data \o out) = sent[socket]
    /\ (socket # 0 /\ Current = {}) => wire[socket] \o out = sent[socket]

IInv == TypeOK /\ InFlight /\ OneWrite /\ Streams

\* Send without the bound of the model.
SendAny ==
    /\ socket # 0
    /\ count' = count + 1
    /\ sent' = [sent EXCEPT ![socket] = Append(@, count + 1)]
    /\ Flush(Append(out, count + 1), flushing, writes)
         \/ (out' = Append(out, count + 1) /\ UNCHANGED <<flushing, writes>>)
    /\ asked' \in {asked, count + 1}
    /\ UNCHANGED <<socket, opened, wire>>

\* The steps that leave the queries and the bound aside.
Steps == SendAny \/ [Next]_vars

-----------------------------------------------------------------------------
LEMMA InitType == Init => TypeOK
<1> SUFFICES ASSUME Init PROVE TypeOK
  OBVIOUS
<1>1. flushing \in BOOLEAN
  BY DEF Init
<1>2. socket \in 0..MaxConnections /\ opened \in Socket /\ asked \in Nat /\ count \in Nat
      /\ out \in Seq(Nat)
  BY ConnectionsAssumption DEF Init, Socket
<1>3. wire \in [Socket -> Seq(Nat)] /\ sent \in [Socket -> Seq(Nat)]
  BY DEF Init
<1>4. writes \in SUBSET WriteOp
  BY DEF Init
<1> QED
  BY <1>1, <1>2, <1>3, <1>4 DEF TypeOK, WriteOp

LEMMA SendIsAny == Send => SendAny
BY DEF Send, SendAny

LEMMA NextType == TypeOK /\ Steps => TypeOK'
<1> SUFFICES ASSUME TypeOK, Steps PROVE TypeOK'
  OBVIOUS
<1> USE ConnectionsAssumption DEF TypeOK, Socket
<1>1. \A w \in writes : [w EXCEPT !.failed = TRUE] \in WriteOp
  BY DEF WriteOp
<1>2. \A buf \in Seq(Nat), isFlushing \in BOOLEAN, ws \in SUBSET WriteOp :
        Flush(buf, isFlushing, ws)
          => /\ writes' \in SUBSET WriteOp /\ out' \in Seq(Nat) /\ flushing' \in BOOLEAN
  <2> SUFFICES ASSUME NEW buf \in Seq(Nat), NEW isFlushing \in BOOLEAN,
                      NEW ws \in SUBSET WriteOp, Flush(buf, isFlushing, ws)
               PROVE  /\ writes' \in SUBSET WriteOp /\ out' \in Seq(Nat)
                      /\ flushing' \in BOOLEAN
    OBVIOUS
  <2>1. socket # 0 => Write(socket, buf) \in WriteOp
    BY DEF Write, WriteOp
  <2>2. writes' = ws \/ (socket # 0 /\ writes' = ws \cup {Write(socket, buf)})
    BY DEF Flush
  <2>3. out' = buf \/ out' = <<>>
    BY DEF Flush
  <2>4. flushing' \in BOOLEAN
    BY Zenon DEF Flush
  <2>5. writes' \in SUBSET WriteOp
    BY <2>1, <2>2
  <2>6. out' \in Seq(Nat)
    <3>1. <<>> \in Seq(Nat)
      OBVIOUS
    <3> QED
      BY <2>3, <3>1, Zenon
  <2> QED
    BY <2>4, <2>5, <2>6
<1>3. \A ws \in SUBSET writes :
        CloseWith(ws) => socket' = 0 /\ writes' \in SUBSET WriteOp /\ out' \in Seq(Nat)
                         /\ flushing' = flushing
  BY <1>1 DEF CloseWith, Abort, WriteOp
<1>4. CASE SendAny
  <2>1. Append(out, count + 1) \in Seq(Nat) /\ count + 1 \in Nat
    OBVIOUS
  <2>2. sent' \in [Socket -> Seq(Nat)]
    BY <1>4 DEF SendAny
  <2>3. /\ writes' \in SUBSET WriteOp /\ out' \in Seq(Nat) /\ flushing' \in BOOLEAN
    BY <1>4, <1>2, <2>1 DEF SendAny, WriteOp
  <2> QED
    BY <1>4, <2>1, <2>2, <2>3 DEF SendAny, WriteOp
<1>5. CASE FlushAll
  BY <1>5, <1>2 DEF FlushAll, WriteOp
<1>6. CASE Close
  BY <1>6, <1>3 DEF Close, WriteOp
<1>7. CASE Connect
  BY <1>7 DEF Connect
<1>8. CASE WriteHandler
  <2> PICK w \in writes :
           IF w.socket # socket
           THEN writes' = writes \ {w} /\ UNCHANGED <<socket, out, flushing>>
           ELSE IF w.failed
           THEN CloseWith(writes \ {w})
           ELSE Flush(out, FALSE, writes \ {w}) /\ UNCHANGED socket
    BY <1>8 DEF WriteHandler
  <2>1. UNCHANGED <<opened, wire, sent, asked, count>>
    BY <1>8 DEF WriteHandler
  <2>2. CASE w.socket # socket
    BY <2>1, <2>2
  <2>3. CASE w.socket = socket /\ w.failed
    <3>1. CloseWith(writes \ {w})
      BY <2>3
    <3>2. writes \ {w} \in SUBSET writes
      OBVIOUS
    <3>3. /\ socket' = 0 /\ writes' \in SUBSET WriteOp /\ out' \in Seq(Nat)
          /\ flushing' = flushing
      BY <3>1, <3>2, <1>3
    <3> QED
      BY <2>1, <3>3 DEF WriteOp
  <2>4. CASE w.socket = socket /\ ~w.failed
    BY <2>1, <2>4, <1>2 DEF WriteOp
  <2> QED
    BY <2>2, <2>3, <2>4
<1>9. CASE WriteSome
  <2> PICK w \in writes :
        /\ ~Ended(w)
        /\ wire' = [wire EXCEPT ![w.socket] = Append(@, Head(w.data))]
        /\ writes' = (writes \ {w}) \cup {[w EXCEPT !.data = Tail(@)]}
    BY <1>9 DEF WriteSome
  <2>1. w.data # <<>> /\ w.data \in Seq(Nat) /\ w.socket \in Socket
    BY DEF Ended
  <2>2. Head(w.data) \in Nat /\ Tail(w.data) \in Seq(Nat)
    BY <2>1, HeadTailProperties
  <2>3. [w EXCEPT !.data = Tail(@)] \in WriteOp
    BY <2>2 DEF WriteOp
  <2>4. wire' \in [Socket -> Seq(Nat)]
    BY <2>1, <2>2
  <2>5. writes' \in SUBSET WriteOp
    BY <2>3 DEF WriteOp
  <2> QED
    BY <1>9, <2>4, <2>5 DEF WriteSome, WriteOp
<1>10. CASE WriteError
  BY <1>10, <1>1 DEF WriteError, WriteOp
<1>11. CASE UNCHANGED vars
  BY <1>11 DEF vars
<1> QED
  BY <1>4, <1>5, <1>6, <1>7, <1>8, <1>9, <1>10, <1>11, SendIsAny DEF Next, Steps

(* Every variable keeps its type. *)
THEOREM TypeCorrect == Spec => []TypeOK
<1>1. Init => TypeOK
  BY InitType
<1>2. TypeOK /\ [Next]_vars => TypeOK'
  BY NextType DEF Steps
<1> QED
  BY <1>1, <1>2, PTL DEF Spec

-----------------------------------------------------------------------------
(* Sequences. *)

LEMMA Associative ==
  \A x, y, z \in Seq(Nat) : (x \o y) \o z = x \o (y \o z)
<1> TAKE x, y, z \in Seq(Nat)
<1> QED
  BY ConcatAssociative

LEMMA ConcatAppend ==
  ASSUME NEW s \in Seq(Nat), NEW t \in Seq(Nat), NEW e \in Nat
  PROVE  s \o Append(t, e) = Append(s \o t, e)
<1>1. Append(t, e) = t \o <<e>> /\ Append(s \o t, e) = (s \o t) \o <<e>>
  BY AppendIsConcat, ConcatProperties
<1>2. <<e>> \in Seq(Nat)
  OBVIOUS
<1> QED
  BY <1>1, <1>2, ConcatAssociative

LEMMA MoveHead ==
  ASSUME NEW s \in Seq(Nat), NEW t \in Seq(Nat), NEW d \in Seq(Nat), d # <<>>
  PROVE  Append(s, Head(d)) \o (Tail(d) \o t) = s \o (d \o t)
<1> DEFINE h == <<Head(d)>>
<1>1. Head(d) \in Nat /\ Tail(d) \in Seq(Nat) /\ h \in Seq(Nat)
  BY HeadTailProperties
<1>2. d = h \o Tail(d)
  <2>1. Len(h \o Tail(d)) = Len(d) /\ h \o Tail(d) \in Seq(Nat)
    BY <1>1, HeadTailProperties, ConcatProperties
  <2>2. \A i \in 1..Len(d) : (h \o Tail(d))[i] = d[i]
    BY <1>1, HeadTailProperties, ConcatProperties
  <2> QED
    BY <2>1, <2>2, SeqEqual
<1>3. Append(s, Head(d)) = s \o h
  BY <1>1, AppendIsConcat
<1> HIDE DEF h
<1>4. Tail(d) \o t \in Seq(Nat)
  BY <1>1, ConcatProperties
<1>5. (s \o h) \o (Tail(d) \o t) = s \o (h \o (Tail(d) \o t))
  BY <1>1, <1>4, Associative
<1>6. h \o (Tail(d) \o t) = (h \o Tail(d)) \o t
  BY <1>1, Associative
<1>7. h \o (Tail(d) \o t) = d \o t
  BY <1>2, <1>6, Zenon
<1> QED
  BY <1>3, <1>5, <1>7, Zenon

LEMMA PrefixConcat ==
  ASSUME NEW s \in Seq(Nat), NEW t \in Seq(Nat)
  PROVE  Prefix(s, s \o t)
<1>1. Len(s) <= Len(s \o t) /\ s \o t \in Seq(Nat)
  BY ConcatProperties, LenProperties
<1> DEFINE p == SubSeq(s \o t, 1, Len(s))
<1>2. /\ Len(s) \in Nat
      /\ \A i \in 1..Len(s) : (s \o t)[i] = s[i] /\ s[i] \in Nat
  BY ConcatProperties, LenProperties
<1>3. /\ p \in Seq(Nat) /\ Len(p) = Len(s)
      /\ \A i \in 1..Len(s) : p[i] = s[i]
  <2>1. \A i \in 1..Len(s) : (s \o t)[i] \in Nat
    BY <1>2
  <2>2. /\ p \in Seq(Nat)
        /\ Len(p) = IF 1 <= Len(s) THEN Len(s) - 1 + 1 ELSE 0
        /\ \A i \in 1..(Len(s) - 1 + 1) : p[i] = (s \o t)[1 + i - 1]
    BY <2>1, <1>2, SubSeqProperties
  <2> QED
    BY <2>2, <1>2
<1>4. p = s
  BY <1>3, SeqEqual
<1> QED
  BY <1>1, <1>4 DEF Prefix

-----------------------------------------------------------------------------
\* With the write in flight or without, the wire is a prefix of what was sent.
LEMMA WirePrefix ==
  ASSUME TypeOK, NEW w \in Seq(Nat), NEW d \in Seq(Nat), NEW buf \in Seq(Nat),
         NEW target, w \o (d \o buf) = target \/ w \o buf = target
  PROVE  Prefix(w, target)
<1>1. d \o buf \in Seq(Nat)
  BY ConcatProperties
<1>2. Prefix(w, w \o (d \o buf)) /\ Prefix(w, w \o buf)
  BY <1>1, PrefixConcat
<1> QED
  BY <1>2

\* close leaves no write on an open socket and every stream a prefix.
LEMMA CloseKeeps ==
  ASSUME IInv, TypeOK', NEW ws \in SUBSET writes, CloseWith(ws),
         UNCHANGED <<opened, wire, sent>>
  PROVE  InFlight' /\ OneWrite' /\ Streams'
<1> USE DEF IInv
<1>1. socket' = 0 /\ out' = <<>> /\ flushing' = flushing
  BY DEF CloseWith
<1>2. Current' = {}
  BY <1>1 DEF Current, TypeOK, Socket
<1>3. \A w \in writes' : Ended(w) /\ \E x \in ws : x.socket = w.socket
  <2> SUFFICES ASSUME NEW x \in ws
               PROVE  LET w == IF Ended(x) \/ x.socket # socket THEN x
                               ELSE [x EXCEPT !.failed = TRUE]
                      IN  Ended(w) /\ x.socket = w.socket
    BY DEF CloseWith, Abort
  <2>1. CASE Ended(x) \/ x.socket # socket
    BY <2>1 DEF Streams
  <2>2. CASE ~(Ended(x) \/ x.socket # socket)
    BY <2>2 DEF Ended, TypeOK
  <2> QED
    BY <2>1, <2>2
<1>4. InFlight'
  <2>1. \A w \in writes' : w.socket <= opened'
    BY <1>3 DEF InFlight
  <2>2. socket' <= opened'
    BY <1>1 DEF TypeOK, Socket
  <2> QED
    BY <1>1, <1>2, <2>1, <2>2 DEF InFlight
<1>5. OneWrite'
  BY <1>2 DEF OneWrite
<1>6. Streams'
  BY <1>1, <1>2, <1>3 DEF Streams
<1> QED
  BY <1>4, <1>5, <1>6

\* A step that flushes keeps the invariant.
LEMMA FlushStep ==
  ASSUME IInv, TypeOK', socket # 0, UNCHANGED <<socket, opened, wire>>,
         NEW buf \in Seq(Nat), NEW ws \in SUBSET writes, NEW isFlushing \in BOOLEAN,
         \A w \in writes \ ws : Ended(w),
         \A s \in Socket : s # socket => sent'[s] = sent[s],
         \A w \in ws : w.socket = socket =>
                          isFlushing = TRUE /\ wire[socket] \o (w.data \o buf) = sent'[socket],
         (\A w \in ws : w.socket # socket) => wire[socket] \o buf = sent'[socket],
         Flush(buf, isFlushing, ws)
  PROVE  InFlight' /\ OneWrite' /\ Streams'
<1> USE DEF IInv
<1>1. ws \in SUBSET WriteOp
  BY DEF TypeOK, WriteOp
<1>2. \A w, x \in ws : w.socket = socket /\ x.socket = socket => w = x
  BY DEF OneWrite, Current
<1> DEFINE target == sent'[socket]
<1>3. /\ OneWrite'
      /\ \A w \in Current' : flushing' = TRUE /\ wire[socket] \o (w.data \o out') = target
      /\ Current' = {} => wire[socket] \o out' = target
      /\ \A w \in writes' : w \in ws \/ w.socket = socket
  <2>1. CASE buf # <<>> /\ ~isFlushing
    <3> DEFINE new == Write(socket, buf)
    <3>1. /\ writes' = ws \cup {new} /\ out' = <<>> /\ flushing' = TRUE
      BY <2>1 DEF Flush
    <3>2. new.socket = socket /\ new.data = buf
      BY DEF Write
    <3>3. \A w \in ws : w.socket # socket
      BY <2>1
    <3>4. Current' = {new}
      BY <3>1, <3>2, <3>3 DEF Current
    <3>5. wire[socket] \o (new.data \o out') = target
      BY <3>1, <3>2, <3>3, ConcatEmptySeq
    <3> QED
      BY <3>1, <3>2, <3>4, <3>5 DEF OneWrite
  <2>2. CASE ~(buf # <<>> /\ ~isFlushing)
    <3>1. writes' = ws /\ out' = buf /\ flushing' = isFlushing
      BY <2>2 DEF Flush
    <3>2. Current' = {w \in ws : w.socket = socket}
      BY <3>1 DEF Current
    <3>3. OneWrite'
      BY <3>2, <1>2 DEF OneWrite
    <3>4. \A w \in Current' : flushing' = TRUE /\ wire[socket] \o (w.data \o buf) = target
      BY <3>1, <3>2
    <3>5. Current' = {} => wire[socket] \o buf = target
      BY <3>2
    <3> QED
      BY <3>1, <3>3, <3>4, <3>5
  <2> QED
    BY <2>1, <2>2
<1>4. socket \in Socket /\ socket <= opened
  BY DEF TypeOK, Socket, InFlight
<1>5. InFlight'
  BY <1>3, <1>4 DEF InFlight
<1>6. Prefix(wire[socket], target)
  <2>1. out' \in Seq(Nat) /\ wire[socket] \in Seq(Nat)
    BY <1>4 DEF TypeOK
  <2>2. CASE Current' = {}
    BY <2>1, <2>2, <1>3, PrefixConcat
  <2>3. CASE Current' # {}
    <3> PICK w \in Current' : TRUE
      BY <2>3
    <3>1. w.data \in Seq(Nat)
      BY DEF Current, TypeOK
    <3> QED
      BY <3>1, <2>1, <1>3, WirePrefix
  <2> QED
    BY <2>2, <2>3
<1>7. Streams'
  <2>1. \A s \in Socket : Prefix(wire'[s], sent'[s])
    BY <1>6, <1>4 DEF Streams
  <2>2. \A s \in Socket : s > opened' => wire'[s] = <<>> /\ sent'[s] = <<>>
    BY <1>4 DEF Streams, TypeOK, Socket
  <2>3. \A w \in writes' : w.socket # socket' => Ended(w)
    BY <1>3 DEF Streams
  <2> QED
    BY <1>3, <2>1, <2>2, <2>3 DEF Streams
<1> QED
  BY <1>3, <1>5, <1>7

-----------------------------------------------------------------------------
(* The steps one by one. *)

LEMMA InitIInv == Init => IInv
<1> SUFFICES ASSUME Init PROVE IInv
  OBVIOUS
<1>1. TypeOK
  BY InitType
<1>2. InFlight /\ OneWrite
  BY DEF Init, InFlight, OneWrite, Current
<1>3. \A s \in Socket : wire[s] = <<>> /\ sent[s] = <<>>
  BY DEF Init
<1>4. Prefix(<<>>, <<>>)
  <2>1. <<>> \in Seq(Nat) /\ <<>> \o <<>> = <<>>
    BY EmptySeq, ConcatEmptySeq
  <2> QED
    BY <2>1, PrefixConcat
<1>5. socket = 1 /\ 1 \in Socket /\ out = <<>> /\ Current = {} /\ writes = {}
  BY ConnectionsAssumption DEF Init, Socket, Current
<1>6. Streams
  BY <1>3, <1>4, <1>5 DEF Streams
<1> QED
  BY <1>1, <1>2, <1>6 DEF IInv

LEMMA SendStep == IInv /\ TypeOK' /\ SendAny => InFlight' /\ OneWrite' /\ Streams'
<1> SUFFICES ASSUME IInv, TypeOK', SendAny PROVE InFlight' /\ OneWrite' /\ Streams'
  OBVIOUS
<1> DEFINE n == count + 1
           buf == Append(out, n)
<1>1. /\ socket # 0 /\ UNCHANGED <<socket, opened, wire>>
      /\ sent' = [sent EXCEPT ![socket] = Append(@, n)]
  BY DEF SendAny
<1>2. /\ socket \in Socket /\ socket <= opened /\ n \in Nat /\ buf \in Seq(Nat)
      /\ out \in Seq(Nat) /\ wire[socket] \in Seq(Nat) /\ sent[socket] \in Seq(Nat)
  <2>1. socket \in Socket /\ socket <= opened /\ n \in Nat
    BY <1>1 DEF IInv, TypeOK, Socket, InFlight
  <2>2. out \in Seq(Nat) /\ wire[socket] \in Seq(Nat) /\ sent[socket] \in Seq(Nat)
    BY <2>1 DEF IInv, TypeOK
  <2> HIDE DEF n
  <2>3. buf \in Seq(Nat)
    BY <2>1, <2>2, AppendProperties
  <2> QED
    BY <2>1, <2>2, <2>3
<1>3. /\ sent'[socket] = Append(sent[socket], n)
      /\ \A s \in Socket : s # socket => sent'[s] = sent[s]
  BY <1>1, <1>2 DEF IInv, TypeOK
<1> HIDE DEF n
<1>4. \A w \in Current : wire[socket] \o (w.data \o buf) = sent'[socket]
  <2> SUFFICES ASSUME NEW w \in Current
               PROVE  wire[socket] \o (w.data \o buf) = sent'[socket]
    OBVIOUS
  <2>1. w.data \in Seq(Nat) /\ w.data \o out \in Seq(Nat)
    BY <1>2, ConcatProperties DEF Current, IInv, TypeOK
  <2>2. w.data \o buf = Append(w.data \o out, n)
    BY <2>1, <1>2, ConcatAppend
  <2>3. wire[socket] \o Append(w.data \o out, n) = Append(wire[socket] \o (w.data \o out), n)
    BY <2>1, <1>2, ConcatAppend
  <2>4. wire[socket] \o (w.data \o out) = sent[socket]
    BY DEF IInv, Streams
  <2> QED
    BY <2>2, <2>3, <2>4, <1>3
<1>5. Current = {} => wire[socket] \o buf = sent'[socket]
  <2>1. wire[socket] \o buf = Append(wire[socket] \o out, n)
    BY <1>2, ConcatAppend
  <2>2. Current = {} => wire[socket] \o out = sent[socket]
    BY <1>1 DEF IInv, Streams
  <2> QED
    BY <2>1, <2>2, <1>3
<1>6. CASE Flush(buf, flushing, writes)
  <2>1. \A w \in writes : w.socket = socket =>
           flushing = TRUE /\ wire[socket] \o (w.data \o buf) = sent'[socket]
    BY <1>4 DEF Current, IInv, InFlight, TypeOK
  <2>2. (\A w \in writes : w.socket # socket) => wire[socket] \o buf = sent'[socket]
    BY <1>5 DEF Current
  <2>3. flushing \in BOOLEAN
    BY DEF IInv, TypeOK
  <2> HIDE DEF buf
  <2> QED
    BY <1>1, <1>2, <1>3, <1>6, <2>1, <2>2, <2>3, FlushStep
<1>7. CASE out' = buf /\ UNCHANGED <<flushing, writes>>
  <2>1. Current' = Current
    BY <1>1, <1>7 DEF Current
  <2>2. InFlight' /\ OneWrite'
    BY <1>1, <1>7, <2>1 DEF IInv, InFlight, OneWrite
  <2>3. Prefix(wire[socket], sent'[socket])
    <3>1. CASE Current = {}
      BY <3>1, <1>2, <1>5, PrefixConcat
    <3>2. CASE Current # {}
      <4> PICK w \in Current : TRUE
        BY <3>2
      <4>1. w.data \in Seq(Nat)
        BY DEF Current, IInv, TypeOK
      <4> QED
        BY <4>1, <1>2, <1>4, WirePrefix DEF IInv
    <3> QED
      BY <3>1, <3>2
  <2>4. \A s \in Socket : Prefix(wire'[s], sent'[s])
    BY <2>3, <1>1, <1>3 DEF IInv, Streams
  <2>5. \A s \in Socket : s > opened' => wire'[s] = <<>> /\ sent'[s] = <<>>
    BY <1>1, <1>2, <1>3 DEF IInv, Streams, TypeOK, Socket
  <2>6. \A w \in writes' : w.socket # socket' => Ended(w)
    BY <1>1, <1>7 DEF IInv, Streams
  <2>7. \A w \in Current' : wire'[socket'] \o (w.data \o out') = sent'[socket']
    BY <1>1, <1>4, <1>7, <2>1
  <2>8. Current' = {} => wire'[socket'] \o out' = sent'[socket']
    BY <1>1, <1>5, <1>7, <2>1
  <2>9. Streams'
    BY <2>4, <2>5, <2>6, <2>7, <2>8 DEF Streams
  <2> QED
    BY <2>2, <2>9
<1> QED
  BY <1>6, <1>7 DEF SendAny, n

LEMMA WriteHandlerStep ==
  IInv /\ TypeOK' /\ WriteHandler => InFlight' /\ OneWrite' /\ Streams'
<1> SUFFICES ASSUME IInv, TypeOK', WriteHandler PROVE InFlight' /\ OneWrite' /\ Streams'
  OBVIOUS
<1> PICK w \in writes :
      /\ Ended(w)
      /\ IF w.socket # socket
         THEN writes' = writes \ {w} /\ UNCHANGED <<socket, out, flushing>>
         ELSE IF w.failed
         THEN CloseWith(writes \ {w})
         ELSE Flush(out, FALSE, writes \ {w}) /\ UNCHANGED socket
  BY DEF WriteHandler
<1>1. UNCHANGED <<opened, wire, sent>>
  BY DEF WriteHandler
<1>2. CASE w.socket # socket
  <2>1. writes' = writes \ {w} /\ socket' = socket /\ out' = out /\ flushing' = flushing
    BY <1>2
  <2>2. Current' = Current
    BY <1>2, <2>1 DEF Current
  <2> QED
    BY <1>1, <2>1, <2>2 DEF IInv, InFlight, OneWrite, Streams
<1>3. CASE w.socket = socket /\ w.failed
  <2>1. CloseWith(writes \ {w}) /\ writes \ {w} \in SUBSET writes
    BY <1>3
  <2> QED
    BY <1>1, <2>1, CloseKeeps
<1>4. CASE w.socket = socket /\ ~w.failed
  <2>1. w.data = <<>> /\ Flush(out, FALSE, writes \ {w}) /\ socket' = socket
    BY <1>4 DEF Ended
  <2>2. socket \in Socket /\ socket # 0
    BY <1>4 DEF IInv, TypeOK, Socket
  <2>3. \A x \in writes \ {w} : x.socket # socket
    BY <1>4 DEF IInv, OneWrite, Current
  <2>4. wire[socket] \o out = sent'[socket]
    <3>1. wire[socket] \o (w.data \o out) = sent[socket]
      BY <1>4 DEF IInv, Streams, Current
    <3>2. <<>> \o out = out
      BY ConcatEmptySeq DEF IInv, TypeOK
    <3> QED
      BY <1>1, <2>1, <3>1, <3>2
  <2>5. out \in Seq(Nat) /\ FALSE \in BOOLEAN
    BY DEF IInv, TypeOK
  <2>6. \A s \in Socket : s # socket => sent'[s] = sent[s]
    BY <1>1
  <2>7. \A x \in writes \ (writes \ {w}) : Ended(x)
    OBVIOUS
  <2> QED
    BY <1>1, <2>1, <2>2, <2>3, <2>4, <2>5, <2>6, <2>7, FlushStep
<1> QED
  BY <1>2, <1>3, <1>4 DEF IInv, TypeOK

\* Only the open socket's one write can still put packets on the wire.
LEMMA OnlyWrite ==
  ASSUME IInv, NEW w \in writes, ~Ended(w)
  PROVE  /\ w.socket = socket /\ Current = {w} /\ flushing = TRUE
         /\ socket \in Socket /\ socket # 0 /\ socket <= opened
         /\ wire[socket] \o (w.data \o out) = sent[socket]
<1>1. w.socket = socket
  BY DEF IInv, Streams
<1>2. w \in Current
  BY <1>1 DEF Current
<1>3. Current = {w}
  BY <1>2 DEF IInv, OneWrite
<1>4. socket \in Socket /\ socket # 0
  BY <1>1 DEF IInv, TypeOK, Socket
<1>5. flushing = TRUE
  BY <1>2 DEF IInv, InFlight, TypeOK
<1> QED
  BY <1>1, <1>2, <1>3, <1>4, <1>5 DEF IInv, InFlight, Streams

LEMMA WriteSomeStep ==
  IInv /\ TypeOK' /\ WriteSome => InFlight' /\ OneWrite' /\ Streams'
<1> SUFFICES ASSUME IInv, TypeOK', WriteSome PROVE InFlight' /\ OneWrite' /\ Streams'
  OBVIOUS
<1> PICK w \in writes :
      /\ ~Ended(w)
      /\ wire' = [wire EXCEPT ![w.socket] = Append(@, Head(w.data))]
      /\ writes' = (writes \ {w}) \cup {[w EXCEPT !.data = Tail(@)]}
  BY DEF WriteSome
<1> DEFINE v == [w EXCEPT !.data = Tail(@)]
<1>1. UNCHANGED <<socket, opened, out, flushing, sent>>
  BY DEF WriteSome
<1>2. /\ w.socket = socket /\ Current = {w} /\ flushing = TRUE
      /\ socket \in Socket /\ socket # 0 /\ socket <= opened
      /\ wire[socket] \o (w.data \o out) = sent[socket]
  BY OnlyWrite
<1>3. /\ w.data \in Seq(Nat) /\ w.data # <<>> /\ out \in Seq(Nat)
      /\ wire[socket] \in Seq(Nat)
  BY <1>2 DEF Ended, IInv, TypeOK
<1>4. v.socket = socket /\ v.data = Tail(w.data)
  BY <1>2 DEF IInv, TypeOK
<1>5. Current' = {v}
  BY <1>1, <1>2, <1>4 DEF Current
<1>6. /\ wire'[socket] = Append(wire[socket], Head(w.data))
      /\ \A s \in Socket : s # socket => wire'[s] = wire[s]
  BY <1>2 DEF IInv, TypeOK
<1>7. wire'[socket] \o (v.data \o out) = sent[socket]
  <2>1. Append(wire[socket], Head(w.data)) \o (Tail(w.data) \o out)
          = wire[socket] \o (w.data \o out)
    BY <1>3, MoveHead
  <2> QED
    BY <2>1, <1>2, <1>4, <1>6
<1>8. Prefix(wire'[socket], sent[socket])
  <2>1. wire'[socket] \in Seq(Nat) /\ v.data \in Seq(Nat)
    <3>1. Tail(w.data) \in Seq(Nat)
      BY <1>3, HeadTailProperties
    <3>2. wire'[socket] \in Seq(Nat)
      BY <1>2 DEF TypeOK
    <3> QED
      BY <3>1, <3>2, <1>4
  <2> HIDE DEF v
  <2> QED
    BY <2>1, <1>3, <1>7, WirePrefix DEF IInv
<1>9. InFlight'
  <2>1. \A x \in writes' : x.socket <= opened'
    BY <1>1, <1>2, <1>4 DEF IInv, InFlight
  <2> QED
    BY <2>1, <1>1, <1>2 DEF IInv, InFlight
<1>10. OneWrite'
  BY <1>5 DEF OneWrite
<1>11. Streams'
  <2>1. \A s \in Socket : Prefix(wire'[s], sent'[s])
    BY <1>1, <1>6, <1>8 DEF IInv, Streams
  <2>2. \A s \in Socket : s > opened' => wire'[s] = <<>> /\ sent'[s] = <<>>
    BY <1>1, <1>2, <1>6 DEF IInv, Streams, TypeOK, Socket
  <2>3. \A x \in writes' : x.socket # socket' => Ended(x)
    BY <1>1, <1>4 DEF IInv, Streams
  <2> QED
    BY <1>1, <1>5, <1>7, <2>1, <2>2, <2>3 DEF Streams
<1> QED
  BY <1>9, <1>10, <1>11

LEMMA WriteErrorStep ==
  IInv /\ TypeOK' /\ WriteError => InFlight' /\ OneWrite' /\ Streams'
<1> SUFFICES ASSUME IInv, TypeOK', WriteError PROVE InFlight' /\ OneWrite' /\ Streams'
  OBVIOUS
<1> PICK w \in writes :
      ~Ended(w) /\ writes' = (writes \ {w}) \cup {[w EXCEPT !.failed = TRUE]}
  BY DEF WriteError
<1> DEFINE v == [w EXCEPT !.failed = TRUE]
<1>1. UNCHANGED <<socket, opened, out, flushing, wire, sent>>
  BY DEF WriteError
<1>2. /\ w.socket = socket /\ Current = {w} /\ flushing = TRUE
      /\ socket \in Socket /\ socket # 0 /\ socket <= opened
      /\ wire[socket] \o (w.data \o out) = sent[socket]
  BY OnlyWrite
<1>3. v.socket = socket /\ v.data = w.data
  BY <1>2 DEF IInv, TypeOK
<1>4. Current' = {v}
  BY <1>1, <1>2, <1>3 DEF Current
<1>5. InFlight'
  BY <1>1, <1>2, <1>3 DEF IInv, InFlight
<1>6. OneWrite'
  BY <1>4 DEF OneWrite
<1>7. Streams'
  BY <1>1, <1>2, <1>3, <1>4 DEF IInv, Streams
<1> QED
  BY <1>5, <1>6, <1>7

LEMMA FlushAllStep ==
  IInv /\ TypeOK' /\ FlushAll => InFlight' /\ OneWrite' /\ Streams'
<1> SUFFICES ASSUME IInv, TypeOK', FlushAll PROVE InFlight' /\ OneWrite' /\ Streams'
  OBVIOUS
<1>1. /\ socket # 0 /\ UNCHANGED <<socket, opened, wire, sent>>
      /\ Flush(out, flushing, writes)
  BY DEF FlushAll
<1>2. out \in Seq(Nat) /\ flushing \in BOOLEAN /\ writes \in SUBSET writes
  BY DEF IInv, TypeOK
<1>3. \A w \in writes : w.socket = socket =>
         flushing = TRUE /\ wire[socket] \o (w.data \o out) = sent'[socket]
  BY <1>1 DEF IInv, InFlight, Streams, Current, TypeOK
<1>4. (\A w \in writes : w.socket # socket) => wire[socket] \o out = sent'[socket]
  BY <1>1 DEF IInv, Streams, Current
<1>5. \A s \in Socket : s # socket => sent'[s] = sent[s]
  BY <1>1
<1>6. \A w \in writes \ writes : Ended(w)
  OBVIOUS
<1> QED
  BY <1>1, <1>2, <1>3, <1>4, <1>5, <1>6, FlushStep

LEMMA ConnectStep ==
  IInv /\ TypeOK' /\ Connect => InFlight' /\ OneWrite' /\ Streams'
<1> SUFFICES ASSUME IInv, TypeOK', Connect PROVE InFlight' /\ OneWrite' /\ Streams'
  OBVIOUS
<1>1. /\ socket = 0 /\ opened < MaxConnections /\ opened' = opened + 1
      /\ socket' = opened + 1 /\ UNCHANGED <<out, flushing, writes, wire, sent>>
  BY DEF Connect
<1>2. socket' \in Socket /\ socket' > opened /\ opened \in Nat
  BY <1>1, ConnectionsAssumption DEF IInv, TypeOK, Socket
<1>3. \A w \in writes : w.socket < socket' /\ Ended(w)
  BY <1>1, <1>2 DEF IInv, InFlight, Streams, TypeOK, Socket
<1>4. Current' = {}
  BY <1>1, <1>2, <1>3 DEF Current
<1>5. out = <<>> /\ wire[socket'] = <<>> /\ sent[socket'] = <<>>
  BY <1>1, <1>2 DEF IInv, InFlight, Streams
<1>6. <<>> \o <<>> = <<>>
  BY EmptySeq, ConcatEmptySeq
<1>7. InFlight'
  <2>1. \A w \in writes : w.socket <= opened /\ w.socket \in Int
    BY DEF IInv, InFlight, TypeOK, Socket
  <2>2. \A w \in writes' : w.socket <= opened'
    BY <1>1, <1>2, <2>1
  <2>3. socket' <= opened' /\ (socket' = 0 => out' = <<>>)
    BY <1>1, <1>2, <1>5
  <2> QED
    BY <1>4, <2>2, <2>3 DEF InFlight
<1>8. OneWrite'
  BY <1>4 DEF OneWrite
<1>9. Streams'
  <2>1. \A s \in Socket : s > opened' => wire'[s] = <<>> /\ sent'[s] = <<>>
    BY <1>1, <1>2 DEF IInv, Streams, Socket
  <2> QED
    BY <2>1, <1>1, <1>3, <1>4, <1>5, <1>6 DEF IInv, Streams
<1> QED
  BY <1>7, <1>8, <1>9

-----------------------------------------------------------------------------
LEMMA StepsKeep == IInv /\ Steps => IInv'
<1> SUFFICES ASSUME IInv, Steps PROVE IInv'
  OBVIOUS
<1>1. TypeOK'
  BY NextType DEF IInv
<1>2. CASE SendAny
  BY <1>1, <1>2, SendStep DEF IInv
<1>3. CASE FlushAll
  BY <1>1, <1>3, FlushAllStep DEF IInv
<1>4. CASE Close
  BY <1>1, <1>4, CloseKeeps DEF Close, IInv
<1>5. CASE Connect
  BY <1>1, <1>5, ConnectStep DEF IInv
<1>6. CASE WriteHandler
  BY <1>1, <1>6, WriteHandlerStep DEF IInv
<1>7. CASE WriteSome
  BY <1>1, <1>7, WriteSomeStep DEF IInv
<1>8. CASE WriteError
  BY <1>1, <1>8, WriteErrorStep DEF IInv
<1>9. CASE UNCHANGED vars
  <2>1. UNCHANGED <<socket, opened, out, flushing, writes, wire, sent, asked, count>>
    BY <1>9 DEF vars
  <2>2. Current' = Current
    BY <2>1 DEF Current
  <2> QED
    BY <1>1, <2>1, <2>2 DEF IInv, InFlight, OneWrite, Streams
<1> QED
  BY <1>2, <1>3, <1>4, <1>5, <1>6, <1>7, <1>8, <1>9, SendIsAny DEF Next, Steps

LEMMA Inductive == Spec => []IInv
<1>1. IInv /\ [Next]_vars => IInv'
  BY StepsKeep DEF Steps
<1> QED
  BY InitIInv, <1>1, PTL DEF Spec

(* However sends, flushes, errors, closes and reconnections interleave, the *)
(* open socket has at most one async_write in flight.                       *)
THEOREM OneWriteAlways == Spec => []OneWrite
<1>1. IInv => OneWrite
  BY DEF IInv
<1> QED
  BY Inductive, <1>1, PTL

LEMMA IntactNow == IInv => StreamIntact
<1> SUFFICES ASSUME IInv PROVE StreamIntact
  OBVIOUS
<1>1. \A s \in Socket : Prefix(wire[s], sent[s])
  BY DEF IInv, Streams
<1>2. ASSUME socket # 0
      PROVE  \E rest \in {w.data : w \in Current} \cup {<<>>} :
               wire[socket] \o rest \o out = sent[socket]
  <2>1. socket \in Socket /\ wire[socket] \in Seq(Nat) /\ out \in Seq(Nat)
    BY <1>2 DEF IInv, TypeOK, Socket
  <2>2. CASE Current = {}
    <3>1. wire[socket] \o <<>> = wire[socket]
      BY <2>1, ConcatEmptySeq
    <3> QED
      BY <2>2, <3>1, <1>2 DEF IInv, Streams
  <2>3. CASE Current # {}
    <3> PICK w \in Current : TRUE
      BY <2>3
    <3>1. w.data \in Seq(Nat)
      BY DEF IInv, TypeOK, Current
    <3>2. (wire[socket] \o w.data) \o out = wire[socket] \o (w.data \o out)
      BY <2>1, <3>1, Associative
    <3> QED
      BY <3>2 DEF IInv, Streams
  <2> QED
    BY <2>2, <2>3
<1> QED
  BY <1>1, <1>2 DEF StreamIntact

(* The peer of every connection sees the packets sent on it, each once and  *)
(* in order; a stale write or its handler never reaches a later connection. *)
THEOREM StreamIntactAlways == Spec => []StreamIntact
BY Inductive, IntactNow, PTL

-----------------------------------------------------------------------------
(* The connection together with its queries: a JOIN is a send whose number  *)
(* no bound limits, and nothing else of a query touches the TCP output.     *)

LEMMA QuerySteps ==
  ASSUME [QueryNext]_allVars
  PROVE  Steps
<1> USE DEF vars, connectionVars, Steps
<1>1. CASE UNCHANGED allVars
  BY <1>1 DEF allVars
<1>2. ASSUME NEW q, NEW r, Finish(q, r) PROVE Steps
  <2>1. CASE q \in Background \/ queries[q].handled
    BY <1>2, <2>1 DEF Finish
  <2>2. CASE SendJoin(q)
    <3>1. CASE socket = 0
      BY <2>2, <3>1 DEF SendJoin
    <3>2. CASE socket # 0
      BY <2>2, <3>2 DEF SendJoin, SendAny
    <3> QED
      BY <3>1, <3>2
  <2> QED
    BY <1>2, <2>1, <2>2 DEF Finish
<1>3. ASSUME NEW q, NEW r, Continue(q, r) PROVE Steps
  BY <1>3 DEF Continue
<1>4. ASSUME NEW q \in Query, Handler(q) \/ Answered(q) \/ TimerExpires(q) PROVE Steps
  <2>1. Resolved(q) => Steps
    BY <1>2, <1>3 DEF Resolved
  <2>2. Sent(q) => Steps
    BY <1>2, <1>3 DEF Sent
  <2>3. WaitHandler(q) => Steps
    BY <1>2 DEF WaitHandler
  <2>4. TimerHandler(q) => Steps
    BY <1>2, <1>3 DEF TimerHandler
  <2>5. Answered(q) \/ TimerExpires(q) => Steps
    BY <1>3 DEF Answered, TimerExpires
  <2> QED
    BY <1>4, <2>1, <2>2, <2>3, <2>4, <2>5 DEF Handler
<1>5. CASE CloseBoth \/ WriteHandlerBoth \/ Output \/ ConnectAndQuery
  BY <1>5 DEF CloseBoth, WriteHandlerBoth, Output, ConnectAndQuery, Next
<1> QED
  BY <1>1, <1>4, <1>5 DEF QueryNext

LEMMA QueryInductive == QuerySpec => []IInv
<1>1. QueryInit => IInv
  BY InitIInv DEF QueryInit
<1>2. IInv /\ [QueryNext]_allVars => IInv'
  BY StepsKeep, QuerySteps
<1> QED
  BY <1>1, <1>2, PTL DEF QuerySpec

(* The same with the port queries, whose handlers send a JOIN at any time:  *)
(* at most one async_write in flight on the open socket.                    *)
THEOREM QueryOneWrite == QuerySpec => []OneWrite
<1>1. IInv => OneWrite
  BY DEF IInv
<1> QED
  BY QueryInductive, <1>1, PTL

(* And the byte stream of every socket is intact, JOIN included.            *)
THEOREM QueryStreamIntact == QuerySpec => []StreamIntact
BY QueryInductive, IntactNow, PTL

-----------------------------------------------------------------------------
(* One JOIN for each connection.  A query calls its handler once and says so; *)
(* a query that was not made yet has nothing under way that could call it;   *)
(* and while the query of a connection runs, no earlier one can be open.     *)

QueryRecord ==
    [phase : {"none", "resolve", "send", "wait"}, ended : BOOLEAN,
     timer : {"none", "armed", "due", "aborted"}, handled : BOOLEAN, kept : BOOLEAN]

Joined(s) ==
    /\ ~queries[s].handled => joins[s] = <<>>
    /\ s > opened => queries[s] = Idle
    /\ joins[s] = <<>> \/ \E x \in Nat : joins[s] = <<x>> /\ (x = 0 \/ x >= s)

JoinInv ==
    /\ socket \in {0, opened} /\ opened \in Socket
    /\ queries \in [Query -> QueryRecord] /\ joins \in [Socket -> Seq(Nat)]
    /\ \A s \in Socket : Joined(s)

\* The query of an earlier connection, or of this one, goes on.
LEMMA ContinueKeeps ==
  ASSUME JoinInv, UNCHANGED <<socket, opened>>, NEW q \in Query, NEW r \in QueryRecord,
         q \in Socket => q <= opened /\ r.handled = queries[q].handled, Continue(q, r)
  PROVE  JoinInv'
<1>1. /\ queries' = [queries EXCEPT ![q] = r] /\ joins' = joins
      /\ queries' \in [Query -> QueryRecord]
  BY DEF Continue, JoinInv
<1>2. /\ queries'[q] = r /\ \A p \in Query : p # q => queries'[p] = queries[p]
      /\ Socket \subseteq Query
  BY DEF Continue, JoinInv, Query
<1>3. ASSUME NEW s \in Socket PROVE Joined(s)'
  <2>1. CASE s = q
    <3>1. ~(s > opened)
      BY <2>1 DEF JoinInv, Socket
    <3> QED
      BY <1>1, <1>2, <2>1, <3>1 DEF JoinInv, Joined
  <2>2. CASE s # q
    BY <1>1, <1>2, <2>2 DEF JoinInv, Joined
  <2> QED
    BY <2>1, <2>2
<1> QED
  BY <1>1, <1>3 DEF JoinInv

\* It ends, and the JOIN is sent if its handler was not called before.
LEMMA FinishKeeps ==
  ASSUME JoinInv, UNCHANGED <<socket, opened>>, NEW q \in Query, NEW r \in QueryRecord,
         q \in Socket => q <= opened, Finish(q, r)
  PROVE  JoinInv'
<1> DEFINE e == [r EXCEPT !.handled = TRUE]
<1>1. e \in QueryRecord /\ e.handled = TRUE
  BY DEF QueryRecord
<1>2. queries' = [queries EXCEPT ![q] = e]
  BY DEF Finish
<1> HIDE DEF e
<1>3. /\ queries'[q] = e /\ \A p \in Query : p # q => queries'[p] = queries[p]
      /\ Socket \subseteq Query /\ queries' \in [Query -> QueryRecord]
  BY <1>1, <1>2 DEF JoinInv, Query
<1>4. \A s \in Socket : s = q => ~(s > opened) /\ opened \in Nat
  BY DEF JoinInv, Socket
<1>5. CASE joins' = joins
  <2>1. \A s \in Socket : Joined(s)'
    BY <1>1, <1>3, <1>4, <1>5 DEF JoinInv, Joined
  <2> QED
    BY <1>3, <1>5, <2>1 DEF JoinInv
<1>6. CASE q \notin Background /\ ~queries[q].handled /\ SendJoin(q)
  <2>1. q \in Socket /\ socket \in Nat /\ joins' = [joins EXCEPT ![q] = Append(@, socket)]
    BY <1>6 DEF Query, SendJoin, JoinInv, Socket
  <2>2. joins[q] = <<>> /\ joins \in [Socket -> Seq(Nat)]
    BY <1>6, <2>1 DEF JoinInv, Joined
  <2>3. /\ joins'[q] = <<socket>> /\ \A s \in Socket : s # q => joins'[s] = joins[s]
        /\ joins' \in [Socket -> Seq(Nat)]
    BY <2>1, <2>2
  <2>4. socket = 0 \/ socket >= q
    BY <2>1, <1>4 DEF JoinInv, Socket
  <2>5. \A s \in Socket : Joined(s)'
    BY <1>1, <1>3, <1>4, <2>1, <2>3, <2>4 DEF JoinInv, Joined
  <2> QED
    BY <1>3, <2>3, <2>5 DEF JoinInv
<1> QED
  BY <1>5, <1>6 DEF Finish

\* A handler that runs is of a query that was made.
LEMMA QueryKeeps ==
  ASSUME JoinInv, NEW q \in Query, Handler(q) \/ Answered(q) \/ TimerExpires(q),
         UNCHANGED <<socket, opened>>
  PROVE  JoinInv'
<1> DEFINE r == queries[q]
<1>1. r \in QueryRecord
  BY DEF JoinInv
<1>2. r # Idle
  BY DEF Handler, Resolved, Sent, WaitHandler, TimerHandler, Answered, TimerExpires, Idle
<1>3. q \in Socket => q <= opened
  BY <1>2 DEF JoinInv, Joined, Socket
<1> HIDE DEF r
<1>4. Ends(r) \in QueryRecord /\ Ends(r).handled = r.handled
  BY <1>1 DEF Ends, QueryRecord
<1>5. /\ [r EXCEPT !.phase = "send"] \in QueryRecord
      /\ [r EXCEPT !.phase = "wait", !.timer = "armed"] \in QueryRecord
      /\ [r EXCEPT !.ended = TRUE] \in QueryRecord
      /\ [r EXCEPT !.timer = "due"] \in QueryRecord
      /\ [r EXCEPT !.timer = "none"] \in QueryRecord
      /\ TimedOut(r) \in QueryRecord
      /\ [r EXCEPT !.phase = "send"].handled = r.handled
      /\ [r EXCEPT !.phase = "wait", !.timer = "armed"].handled = r.handled
      /\ [r EXCEPT !.ended = TRUE].handled = r.handled
      /\ [r EXCEPT !.timer = "due"].handled = r.handled
      /\ [r EXCEPT !.timer = "none"].handled = r.handled
      /\ TimedOut(r).handled = r.handled
  BY <1>1 DEF TimedOut, QueryRecord
<1>6. [Ends(r) EXCEPT !.timer = "aborted"] \in QueryRecord
  BY <1>4 DEF QueryRecord
<1>7. ASSUME NEW e \in QueryRecord, Finish(q, e) PROVE JoinInv'
  BY <1>3, <1>7, FinishKeeps
<1>8. ASSUME NEW e \in QueryRecord, e.handled = r.handled, Continue(q, e) PROVE JoinInv'
  BY <1>3, <1>8, ContinueKeeps DEF r
<1>9. Resolved(q) => JoinInv'
  BY <1>4, <1>5, <1>7, <1>8 DEF Resolved, r
<1>10. Sent(q) => JoinInv'
  BY <1>4, <1>5, <1>7, <1>8 DEF Sent, r
<1>11. WaitHandler(q) => JoinInv'
  BY <1>4, <1>6, <1>7 DEF WaitHandler, r
<1>12. TimerHandler(q) => JoinInv'
  BY <1>5, <1>7, <1>8 DEF TimerHandler, r
<1>13. Answered(q) \/ TimerExpires(q) => JoinInv'
  BY <1>5, <1>8 DEF Answered, TimerExpires, r
<1> QED
  BY <1>9, <1>10, <1>11, <1>12, <1>13 DEF Handler

\* The connection is closed: its query is told, and the handler is not called.
LEMMA CloseUdpKeeps ==
  ASSUME JoinInv, socket # 0, CloseUdp, socket' = 0, opened' = opened
  PROVE  JoinInv'
<1> DEFINE r == queries[socket]
           e == [r EXCEPT !.kept = FALSE, !.ended = (r.phase = "wait")]
<1>1. /\ socket \in Socket /\ socket = opened /\ opened \in Nat
      /\ r \in QueryRecord /\ socket \in Query /\ Socket \subseteq Query
  BY DEF JoinInv, Socket, Query
<1>2. e \in QueryRecord /\ e.handled = r.handled
  BY <1>1 DEF QueryRecord
<1>3. queries' = [queries EXCEPT ![socket] = e] /\ joins' = joins
  BY DEF CloseUdp
<1> HIDE DEF e, r
<1>4. /\ queries'[socket] = e /\ \A p \in Query : p # socket => queries'[p] = queries[p]
      /\ queries' \in [Query -> QueryRecord]
  BY <1>1, <1>2, <1>3 DEF JoinInv
<1>5. \A s \in Socket : Joined(s)'
  BY <1>1, <1>2, <1>3, <1>4 DEF JoinInv, Joined, r, Socket
<1> QED
  BY <1>3, <1>4, <1>5 DEF JoinInv

LEMMA ConnectKeeps ==
  ASSUME JoinInv, ConnectAndQuery
  PROVE  JoinInv'
<1> DEFINE n == opened + 1
<1>1. /\ n \in Socket /\ n \in Nat /\ n > opened /\ opened \in Nat
      /\ socket' = n /\ opened' = n /\ n \in Query /\ Socket \subseteq Query
  BY ConnectionsAssumption DEF ConnectAndQuery, Connect, JoinInv, Socket, Query
<1>2. /\ Asked \in QueryRecord /\ [Idle EXCEPT !.handled = TRUE] \in QueryRecord
      /\ [Idle EXCEPT !.handled = TRUE].handled = TRUE
  BY DEF Asked, Idle, QueryRecord
<1> HIDE DEF n
<1>3. ~queries[n].handled /\ joins[n] = <<>>
  BY <1>1 DEF JoinInv, Joined, Idle
<1>4. PICK e \in QueryRecord :
         /\ queries' = [queries EXCEPT ![n] = e]
         /\ joins' = joins \/ (e.handled /\ joins' = [joins EXCEPT ![n] = <<n>>])
  BY <1>2 DEF ConnectAndQuery, n
<1>5. /\ queries'[n] = e /\ \A p \in Query : p # n => queries'[p] = queries[p]
      /\ queries' \in [Query -> QueryRecord]
  BY <1>1, <1>4 DEF JoinInv
<1>6. /\ joins' \in [Socket -> Seq(Nat)] /\ \A s \in Socket : s # n => joins'[s] = joins[s]
      /\ joins'[n] = <<>> \/ (e.handled /\ joins'[n] = <<n>>)
  <2>1. joins \in [Socket -> Seq(Nat)] /\ <<n>> \in Seq(Nat)
    BY <1>1 DEF JoinInv
  <2>2. CASE joins' = joins
    BY <1>3, <2>1, <2>2
  <2>3. CASE e.handled /\ joins' = [joins EXCEPT ![n] = <<n>>]
    BY <1>1, <2>1, <2>3
  <2> QED
    BY <1>4, <2>2, <2>3
<1>7. ASSUME NEW s \in Socket PROVE Joined(s)'
  <2>1. CASE s = n
    BY <1>1, <1>5, <1>6, <2>1 DEF Joined
  <2>2. CASE s # n
    <3>1. s > n => s > opened
      BY <1>1 DEF Socket
    <3> QED
      BY <1>1, <1>5, <1>6, <2>2, <3>1 DEF JoinInv, Joined
  <2> QED
    BY <2>1, <2>2
<1> QED
  BY <1>1, <1>5, <1>6, <1>7 DEF JoinInv

LEMMA JoinStep ==
  ASSUME JoinInv, [QueryNext]_allVars
  PROVE  JoinInv'
<1>1. CASE UNCHANGED <<socket, opened, queries, joins>>
  BY <1>1 DEF JoinInv, Joined
<1>2. CASE UNCHANGED allVars
  BY <1>1, <1>2 DEF allVars, connectionVars, queryVars
<1>3. CASE Output
  BY <1>1, <1>3 DEF Output, queryVars, Send, FlushAll, WriteSome, WriteError
<1>4. CASE CloseBoth
  BY <1>4, CloseUdpKeeps DEF CloseBoth, Close, CloseWith
<1>5. CASE WriteHandlerBoth
  <2>1. opened' = opened
    BY <1>5 DEF WriteHandlerBoth, WriteHandler
  <2>2. CASE socket' = socket
    BY <1>1, <1>5, <2>1, <2>2 DEF WriteHandlerBoth, queryVars
  <2>3. CASE socket' # socket
    <3>1. CloseUdp
      BY <1>5, <2>3 DEF WriteHandlerBoth
    <3>2. socket' = 0
      BY <1>5, <2>3 DEF WriteHandlerBoth, WriteHandler, CloseWith
    <3> QED
      BY <2>1, <2>3, <3>1, <3>2, CloseUdpKeeps
  <2> QED
    BY <2>2, <2>3
<1>6. CASE ConnectAndQuery
  BY <1>6, ConnectKeeps
<1>7. ASSUME NEW q \in Query, Handler(q) \/ Answered(q) \/ TimerExpires(q) PROVE JoinInv'
  <2>1. ASSUME NEW r, Finish(q, r) \/ Continue(q, r) PROVE UNCHANGED <<socket, opened>>
    BY <2>1 DEF Finish, Continue, SendJoin, connectionVars
  <2>2. UNCHANGED <<socket, opened>>
    BY <1>7, <2>1 DEF Handler, Resolved, Sent, WaitHandler, TimerHandler, Answered, TimerExpires
  <2> QED
    BY <1>7, <2>2, QueryKeeps
<1> QED
  BY <1>2, <1>3, <1>4, <1>5, <1>6, <1>7 DEF QueryNext

(* The answer, the timer and the close may race, and each ends the query:   *)
(* still a connection has one JOIN, sent on it or on a later one, or on     *)
(* none when the client has closed.                                         *)
THEOREM OneJoinAlways == QuerySpec => []OneJoin
<1>1. QueryInit => JoinInv
  <2> SUFFICES ASSUME QueryInit PROVE JoinInv
    OBVIOUS
  <2>1. socket = 1 /\ opened = 1 /\ 1 \in Socket
    BY ConnectionsAssumption DEF QueryInit, Init, Socket
  <2>2. Idle \in QueryRecord /\ Asked \in QueryRecord
    BY DEF Idle, Asked, QueryRecord
  <2>3. queries \in [Query -> QueryRecord] /\ joins \in [Socket -> Seq(Nat)]
    BY <2>2 DEF QueryInit
  <2>4. ASSUME NEW s \in Socket PROVE Joined(s)
    <3>1. joins[s] = <<>>
      BY DEF QueryInit
    <3>2. s > opened => queries[s] = Idle
      BY <2>1, BackgroundAssumption DEF QueryInit, Query, Socket
    <3> QED
      BY <3>1, <3>2 DEF Joined
  <2> QED
    BY <2>1, <2>3, <2>4 DEF JoinInv
<1>2. JoinInv /\ [QueryNext]_allVars => JoinInv'
  BY JoinStep
<1>3. JoinInv => OneJoin
  <2> SUFFICES ASSUME JoinInv, NEW s \in Socket
               PROVE  /\ Len(joins[s]) <= 1
                      /\ \A i \in 1..Len(joins[s]) : joins[s][i] = 0 \/ joins[s][i] >= s
    BY DEF OneJoin
  <2>1. Joined(s)
    BY DEF JoinInv
  <2>2. CASE joins[s] = <<>>
    <3>1. Len(joins[s]) = 0
      BY <2>2
    <3> QED
      BY <3>1
  <2>3. ASSUME NEW x \in Nat, joins[s] = <<x>>, x = 0 \/ x >= s
        PROVE  /\ Len(joins[s]) <= 1
               /\ \A i \in 1..Len(joins[s]) : joins[s][i] = 0 \/ joins[s][i] >= s
    <3>1. Len(joins[s]) = 1 /\ joins[s][1] = x
      BY <2>3
    <3> QED
      BY <2>3, <3>1
  <2> QED
    BY <2>1, <2>2, <2>3 DEF Joined
<1> QED
  BY <1>1, <1>2, <1>3, PTL DEF QuerySpec

=============================================================================
