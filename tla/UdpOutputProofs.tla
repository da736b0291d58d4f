-------------------------- MODULE UdpOutputProofs --------------------------
(* The UDP output buffer, for every MAX_UDP_SIZE, every set of packet sizes *)
(* and every number of packets.                                             *)
EXTENDS UdpOutput, SequenceTheorems, TLAPS

\* What send_udp takes for the size of a packet is what the buffer grows by.
LEMMA PrefixIsVarLength ==
  ASSUME NEW n \in Nat, n <= 65535
  PROVE  SizeOf(n) = Encoded(n) /\ Encoded(n) \in Nat
<1> DEFINE Fits(k) == n < VarLimit[k] /\ \A j \in 1..k-1 : n >= VarLimit[j]
           length == PrefixSize(n)
<1>1. VarLimit[1] = 128 /\ VarLimit[2] = 16384 /\ VarLimit[3] = 2097152
  BY DEF VarLimit
<1>2. length \in 1..3 /\ Fits(length)
  BY <1>1 DEF PrefixSize
<1>3. \A k \in 1..3 : Fits(k) => k = length
  BY <1>1 DEF PrefixSize
<1>4. VarLength(n) = CHOOSE k \in 1..3 : Fits(k)
  BY DEF VarLength
<1>5. VarLength(n) = length
  BY <1>2, <1>3, <1>4
<1> QED
  BY <1>2, <1>5 DEF SizeOf, Encoded

-----------------------------------------------------------------------------
LEMMA ConcatAppend ==
  \A s, t \in Seq(Nat), e \in Nat : s \o Append(t, e) = Append(s \o t, e)
<1> SUFFICES ASSUME NEW s \in Seq(Nat), NEW t \in Seq(Nat), NEW e \in Nat
             PROVE  s \o Append(t, e) = Append(s \o t, e)
  OBVIOUS
<1>1. <<e>> \in Seq(Nat)
  OBVIOUS
<1>2. s \o t \in Seq(Nat)
  BY ConcatProperties
<1>3. Append(t, e) = t \o <<e>>
  BY AppendIsConcat
<1>4. Append(s \o t, e) = (s \o t) \o <<e>>
  BY <1>2, AppendIsConcat
<1>5. (s \o t) \o <<e>> = s \o (t \o <<e>>)
  BY <1>1, ConcatAssociative
<1> QED
  BY <1>3, <1>4, <1>5

LEMMA InitType == Init => TypeOK
<1> SUFFICES ASSUME Init PROVE TypeOK
  OBVIOUS
<1>1. open \in BOOLEAN
  BY DEF Init
<1>2. bytes \in Nat /\ datagram \in Nat /\ count \in Nat /\ refused \in SUBSET Nat
  BY DEF Init
<1>3. buffer \in Seq(Nat) /\ delivered \in Seq(Nat) /\ accepted \in Seq(Nat)
  BY DEF Init
<1> QED
  BY <1>1, <1>2, <1>3 DEF TypeOK

Inv == TypeOK /\ DatagramFits /\ PacketsInOrder /\ OnlyTooBigRefused

\* Taking a packet with room for it, or after a flush that makes room.
LEMMA TakeStep ==
  ASSUME Inv, NEW n \in PayloadSizes, SendUdp(n) \/ SendUdpFull(n)
  PROVE  Inv'
<1>1. /\ n \in Nat /\ n <= 65535 /\ Encoded(n) \in Nat /\ SizeOf(n) = Encoded(n)
  <2>1. n \in Nat /\ n <= 65535
    BY SizeAssumption
  <2> QED
    BY <2>1, PrefixIsVarLength
<1>2. /\ buffer \in Seq(Nat) /\ delivered \in Seq(Nat) /\ accepted \in Seq(Nat)
      /\ delivered \o buffer = accepted /\ bytes \in Nat /\ datagram \in Nat
      /\ bytes <= MaxUdpSize /\ datagram <= MaxUdpSize /\ count \in Nat
  BY DEF Inv, TypeOK, DatagramFits, PacketsInOrder
<1>3. UNCHANGED <<open, refused>> /\ count' = count + 1 /\ accepted' = Append(accepted, n)
  BY DEF SendUdp, SendUdpFull
<1>4. delivered \o Append(buffer, n) = Append(accepted, n)
  <2>1. n \in Nat /\ buffer \in Seq(Nat) /\ delivered \in Seq(Nat)
    BY <1>1, <1>2
  <2>2. delivered \o Append(buffer, n) = Append(delivered \o buffer, n)
    BY <2>1, ConcatAppend
  <2>3. delivered \o buffer = accepted
    BY <1>2
  <2> QED
    BY <2>2, <2>3, Zenon
<1>5. Append(buffer, n) \in Seq(Nat) /\ Append(accepted, n) \in Seq(Nat)
  BY <1>1, <1>2, AppendProperties
<1>6. /\ bytes' \in Nat /\ bytes' <= MaxUdpSize
      /\ datagram' \in Nat /\ datagram' <= MaxUdpSize
  <2>1. Encoded(n) <= MaxUdpSize
    BY <1>1, <1>2, SizeAssumption DEF SendUdp, SendUdpFull, TooBig
  <2>2. CASE SendUdp(n)
    <3>1. bytes + Encoded(n) <= MaxUdpSize
      BY <1>1, <1>2, <2>2, SizeAssumption DEF SendUdp, Overflows
    <3>2. \/ bytes' = 0 /\ datagram' = bytes + Encoded(n)
          \/ bytes' = bytes + Encoded(n) /\ datagram' = datagram
      BY <2>2 DEF SendUdp, Flush
    <3> QED
      BY <1>1, <1>2, <3>1, <3>2, SizeAssumption
  <2>3. CASE SendUdpFull(n)
    <3>1. \/ bytes' = 0 /\ datagram' = Encoded(n)
          \/ bytes' = Encoded(n) /\ datagram' = bytes
      BY <2>3 DEF SendUdpFull
    <3> QED
      BY <1>1, <1>2, <2>1, <3>1, SizeAssumption
  <2> QED
    BY <2>2, <2>3
<1>7. /\ buffer' \in Seq(Nat) /\ delivered' \in Seq(Nat)
      /\ delivered' \o buffer' = Append(accepted, n)
  <2>1. CASE buffer' = Append(buffer, n) /\ delivered' = delivered
    BY <2>1, <1>2, <1>4, <1>5
  <2>2. CASE buffer' = <<>> /\ delivered' = delivered \o Append(buffer, n)
    <3>1. <<>> \in Seq(Nat) /\ delivered' \in Seq(Nat)
      BY <2>2, <1>2, <1>5, ConcatProperties, EmptySeq
    <3>2. delivered' \o <<>> = delivered'
      BY <3>1, ConcatEmptySeq
    <3> QED
      BY <2>2, <3>1, <3>2, <1>4
  <2>3. accepted \o <<n>> = Append(accepted, n) /\ <<n>> \in Seq(Nat)
    BY <1>1, <1>2, AppendIsConcat
  <2>4. CASE buffer' = <<n>> /\ delivered' = delivered \o buffer
    BY <2>3, <2>4, <1>2
  <2>5. CASE buffer' = <<>> /\ delivered' = delivered \o buffer \o <<n>>
    <3>1. <<>> \in Seq(Nat) /\ delivered' = Append(accepted, n)
      BY <2>3, <2>5, <1>2, EmptySeq
    <3>2. delivered' \o <<>> = delivered'
      BY <3>1, <1>5, ConcatEmptySeq
    <3> QED
      BY <2>5, <3>1, <3>2, <1>5
  <2> QED
    BY <2>1, <2>2, <2>4, <2>5 DEF SendUdp, SendUdpFull, Flush
<1>8. TypeOK'
  BY <1>2, <1>3, <1>5, <1>6, <1>7 DEF Inv, TypeOK
<1> QED
  BY <1>3, <1>6, <1>7, <1>8 DEF Inv, DatagramFits, PacketsInOrder, OnlyTooBigRefused

\* Dropping the buffer drops its packets from what was accepted.
LEMMA UndroppedIsDelivered == Inv => Undropped = delivered
<1> SUFFICES ASSUME Inv PROVE Undropped = delivered
  OBVIOUS
<1>1. buffer \in Seq(Nat) /\ delivered \in Seq(Nat) /\ accepted = delivered \o buffer
  BY DEF Inv, TypeOK, PacketsInOrder
<1> DEFINE kept == SubSeq(accepted, 1, Len(delivered))
<1>2. /\ Len(delivered) \in Nat /\ Len(accepted) - Len(buffer) = Len(delivered)
      /\ \A i \in 1..Len(delivered) : accepted[i] = delivered[i] /\ delivered[i] \in Nat
  BY <1>1, ConcatProperties, LenProperties
<1>3. kept = delivered
  <2>1. \A i \in 1..Len(delivered) : accepted[i] \in Nat
    BY <1>2
  <2>2. kept \in Seq(Nat) /\ Len(kept) = Len(delivered)
    BY <1>2, <2>1, SubSeqProperties
  <2>3. \A i \in 1..Len(delivered) : kept[i] = delivered[i]
    BY <1>2, <2>1, SubSeqProperties
  <2> HIDE DEF kept
  <2> QED
    BY <1>1, <2>2, <2>3, SeqEqual
<1> QED
  BY <1>2, <1>3 DEF Undropped

LEMMA DropStep ==
  ASSUME Inv, DropBuffer, open' \in BOOLEAN, UNCHANGED <<datagram, delivered, refused, count>>
  PROVE  Inv'
<1>1. delivered \in Seq(Nat)
  BY DEF Inv, TypeOK
<1>2. buffer' = <<>> /\ bytes' = 0 /\ accepted' = delivered /\ delivered' = delivered
  BY UndroppedIsDelivered DEF DropBuffer
<1>3. <<>> \in Seq(Nat) /\ delivered \o <<>> = delivered
  BY <1>1, EmptySeq, ConcatEmptySeq
<1>4. TypeOK'
  BY <1>1, <1>2, <1>3 DEF Inv, TypeOK
<1>5. DatagramFits'
  BY <1>2, SizeAssumption DEF Inv, DatagramFits
<1>6. PacketsInOrder'
  BY <1>2, <1>3 DEF PacketsInOrder
<1>7. OnlyTooBigRefused'
  BY DEF Inv, OnlyTooBigRefused
<1> QED
  BY <1>4, <1>5, <1>6, <1>7 DEF Inv

\* The packet left in the buffer of a socket that failed.
LEMMA FailStep ==
  ASSUME Inv, NEW n \in PayloadSizes, SendUdpFailing(n)
  PROVE  Inv'
<1>1. n \in Nat /\ n <= 65535
  BY SizeAssumption
<1>2. SizeOf(n) = Encoded(n) /\ Encoded(n) \in Nat
  BY <1>1, PrefixIsVarLength
<1>3. /\ open' = FALSE /\ buffer' = <<n>> /\ bytes' = Encoded(n)
      /\ accepted' = Append(delivered, n) /\ count' = count + 1
      /\ UNCHANGED <<datagram, delivered, refused>>
  BY UndroppedIsDelivered DEF SendUdpFailing
<1>4. delivered \in Seq(Nat) /\ count \in Nat
  BY DEF Inv, TypeOK
<1>5. <<n>> \in Seq(Nat) /\ Append(delivered, n) = delivered \o <<n>>
      /\ Append(delivered, n) \in Seq(Nat)
  BY <1>1, <1>4, AppendIsConcat, AppendProperties
<1>6. TypeOK'
  <2>1. open' \in BOOLEAN
    BY <1>3, Zenon
  <2>2. bytes' \in Nat /\ count' \in Nat
    BY <1>2, <1>3, <1>4
  <2>3. buffer' \in Seq(Nat) /\ accepted' \in Seq(Nat)
    BY <1>3, <1>5, Zenon
  <2>4. datagram' \in Nat
    BY <1>3 DEF Inv, TypeOK
  <2>5. delivered' \in Seq(Nat)
    BY <1>3, <1>4
  <2>6. refused' \in SUBSET Nat
    BY <1>3 DEF Inv, TypeOK
  <2> QED
    BY <2>1, <2>2, <2>3, <2>4, <2>5, <2>6 DEF TypeOK
<1>7. DatagramFits'
  <2>1. Encoded(n) <= MaxUdpSize
    BY <1>2, SizeAssumption DEF SendUdpFailing, TooBig
  <2> QED
    BY <1>3, <2>1 DEF Inv, DatagramFits
<1>8. PacketsInOrder'
  BY <1>3, <1>5 DEF PacketsInOrder
<1>9. OnlyTooBigRefused'
  BY <1>3 DEF Inv, OnlyTooBigRefused
<1> QED
  BY <1>6, <1>7, <1>8, <1>9 DEF Inv

LEMMA FlushStep == Inv /\ FlushUdp => Inv'
<1> SUFFICES ASSUME Inv, FlushUdp PROVE Inv'
  OBVIOUS
<1>1. /\ buffer' = <<>> /\ bytes' = 0 /\ datagram' = bytes /\ delivered' = delivered \o buffer
      /\ UNCHANGED <<open, accepted, refused, count>>
  BY DEF FlushUdp, Flush
<1>2. /\ accepted \in Seq(Nat) /\ delivered \o buffer = accepted /\ <<>> \in Seq(Nat)
  BY EmptySeq DEF Inv, TypeOK, PacketsInOrder
<1>3. delivered' \o <<>> = accepted
  BY <1>1, <1>2, ConcatEmptySeq
<1>4. TypeOK'
  BY <1>1, <1>2 DEF Inv, TypeOK
<1>5. DatagramFits'
  BY <1>1, SizeAssumption DEF Inv, DatagramFits
<1>6. PacketsInOrder'
  BY <1>1, <1>3 DEF PacketsInOrder
<1>7. OnlyTooBigRefused'
  BY <1>1 DEF Inv, OnlyTooBigRefused
<1> QED
  BY <1>4, <1>5, <1>6, <1>7 DEF Inv

LEMMA Inductive == Spec => []Inv
<1>1. Init => Inv
  <2> SUFFICES ASSUME Init PROVE Inv
    OBVIOUS
  <2>1. <<>> \o <<>> = <<>>
    BY EmptySeq, ConcatEmptySeq
  <2>2. PacketsInOrder
    BY <2>1 DEF Init, PacketsInOrder
  <2>3. DatagramFits /\ OnlyTooBigRefused
    BY SizeAssumption DEF Init, DatagramFits, OnlyTooBigRefused
  <2> QED
    BY <2>2, <2>3, InitType DEF Inv
<1>2. Inv /\ [Next]_vars => Inv'
  <2> SUFFICES ASSUME Inv, [Next]_vars PROVE Inv'
    OBVIOUS
  <2>1. ASSUME NEW n \in PayloadSizes, SendUdp(n) \/ SendUdpFull(n)
        PROVE  Inv'
    BY <2>1, TakeStep
  <2>2. ASSUME NEW n \in PayloadSizes, Refuse(n)
        PROVE  Inv'
    <3>1. n \in Nat /\ n <= 65535 /\ SizeOf(n) = Encoded(n) /\ Encoded(n) \in Nat
      <4>1. n \in Nat /\ n <= 65535
        BY SizeAssumption
      <4> QED
        BY <4>1, PrefixIsVarLength
    <3>2. Encoded(n) > MaxUdpSize
      BY <2>2, <3>1 DEF Refuse, TooBig
    <3>3. /\ refused' = refused \cup {n} /\ count' = count + 1
          /\ UNCHANGED <<open, buffer, bytes, datagram, delivered, accepted>>
      BY <2>2 DEF Refuse
    <3>4. TypeOK'
      BY <3>1, <3>3 DEF Inv, TypeOK
    <3>5. OnlyTooBigRefused'
      BY <3>2, <3>3 DEF Inv, OnlyTooBigRefused
    <3> QED
      BY <3>3, <3>4, <3>5 DEF Inv, DatagramFits, PacketsInOrder
  <2>3. CASE FlushUdp
    BY <2>3, FlushStep
  <2>4. CASE CloseUdp
    BY <2>4, DropStep DEF CloseUdp
  <2>5. CASE ClearOnQuit
    BY <2>5, DropStep DEF ClearOnQuit, Inv, TypeOK
  <2>6. CASE Reopen
    BY <2>6, DropStep DEF Reopen
  <2>7. ASSUME NEW n \in PayloadSizes, SendUdpFailing(n)
        PROVE  Inv'
    BY <2>7, FailStep
  <2>8. CASE UNCHANGED vars
    BY <2>8 DEF vars, Inv, TypeOK, DatagramFits, PacketsInOrder, OnlyTooBigRefused
  <2> QED
    BY <2>1, <2>2, <2>3, <2>4, <2>5, <2>6, <2>7, <2>8 DEF Next
<1> QED
  BY <1>1, <1>2, PTL DEF Spec

(* No datagram exceeds MAX_UDP_SIZE, whatever is sent and flushed. *)
THEOREM DatagramFitsAlways == Spec => []DatagramFits
<1>1. Inv => DatagramFits
  BY DEF Inv
<1> QED
  BY Inductive, <1>1, PTL

(* The packets send_udp takes leave in order and once, or are dropped with *)
(* the whole buffer.                                                       *)
THEOREM PacketsInOrderAlways == Spec => []PacketsInOrder
<1>1. Inv => PacketsInOrder
  BY DEF Inv
<1> QED
  BY Inductive, <1>1, PTL

(* send_udp refuses only packets that fit no datagram. *)
THEOREM OnlyTooBigRefusedAlways == Spec => []OnlyTooBigRefused
<1>1. Inv => OnlyTooBigRefused
  BY DEF Inv
<1> QED
  BY Inductive, <1>1, PTL

=============================================================================
