---------------------------- MODULE PacketCodec ----------------------------
(***************************************************************************)
(* How class packet codes numbers, runs of bytes, histories of inputs and  *)
(* whole packets, as operators and recursive functions of what is left to  *)
(* write or to read.                                                       *)
(***************************************************************************)
EXTENDS Integers, Sequences, SequencesExt, FiniteSetsExt

Byte == 0..255

\* packet::MAX_SIZE
MaxSize == 65535

From(s, i) == SubSeq(s, i, Len(s))

-----------------------------------------------------------------------------
(* Numbers. *)

\* write_var: seven bits a byte, the lowest first; all but the last have the
\* top bit set.
Var[n \in Nat] == IF n > 127 THEN <<128 + (n % 128)>> \o Var[n \div 128] ELSE <<n>>

\* The bytes that read_var takes, and receive_tcp_packet_size one by one.
HasVar(s) == \E n \in 1..Len(s) : s[n] < 128
VarLen(s) == Min({n \in 1..Len(s) : s[n] < 128})
AfterVar(s) == From(s, VarLen(s) + 1)

\* read_var, of bytes that hold a number.
ReadVar[s \in Seq(Byte)] ==
    IF s = <<>> THEN 0
    ELSE IF s[1] < 128 THEN s[1] ELSE s[1] - 128 + 128 * ReadVar[Tail(s)]

-----------------------------------------------------------------------------
(* Run-length coding. *)

\* How many bytes at the front are equal, and how many count up by one.
Equal(v) == Max({n \in 1..Len(v) : \A k \in 1..n : v[k] = v[1]})
Rising(v) == Max({n \in 1..Len(v) : \A k \in 1..n : v[k] = (v[1] + k - 1) % 256})

Run(v) == IF Equal(v) > 1 THEN Equal(v) ELSE Rising(v)

\* Mutant of Worth: a run of two is coded even in the middle of raw bytes.
WorthShort(v, first) == Run(v) >= 2

\* Whether the run at the front is coded as one; first if no raw bytes precede.
Worth(v, first) == Run(v) >= 4 \/ (Run(v) >= 2 /\ first)

\* How many bytes are raw at the front of what raw bytes precede, and of all.
RawRest[v \in Seq(Byte)] ==
    IF v = <<>> \/ Worth(v, FALSE) THEN 0 ELSE Run(v) + RawRest[From(v, Run(v) + 1)]
RawSize(v) == IF Worth(v, TRUE) THEN 0 ELSE Run(v) + RawRest[From(v, Run(v) + 1)]

Raw(s) == IF s = <<>> THEN <<>> ELSE Var[Len(s) * 4] \o s

\* Mutant of CodedRun: the kind of a run is told from its length.
CodedRunLong(v) ==
    IF Run(v) > 2 /\ v[1] = 0 THEN Var[Run(v) * 4 + 1]
    ELSE Var[Run(v) * 4 + (IF v[1] = v[2] THEN 2 ELSE 3)] \o <<v[1]>>

CodedRun(v) ==
    IF v[1] # v[2] THEN Var[Run(v) * 4 + 3] \o <<v[1]>>
    ELSE IF v[1] = 0 THEN Var[Run(v) * 4 + 1]
    ELSE Var[Run(v) * 4 + 2] \o <<v[1]>>

\* write_rle
WriteRle[v \in Seq(Byte)] ==
    LET rest == From(v, RawSize(v) + 1)
    IN  IF v = <<>> THEN Var[0]
        ELSE Raw(SubSeq(v, 1, RawSize(v)))
             \o IF rest = <<>> THEN Var[0]
                ELSE CodedRun(rest) \o WriteRle[From(rest, Run(rest) + 1)]

\* The bytes that a piece of type stands for, t being what follows its length,
\* of which it takes so many.
Piece(type, size, t) ==
    CASE type = 0 -> SubSeq(t, 1, size)
      [] type = 1 -> [k \in 1..size |-> 0]
      [] type = 2 -> [k \in 1..size |-> t[1]]
      [] type = 3 -> [k \in 1..size |-> (t[1] + k - 1) % 256]
Taken(type, size) == IF type = 0 THEN size ELSE IF type = 1 THEN 0 ELSE 1

Prepend(bytes, r) == [thrown |-> r.thrown, bytes |-> bytes \o r.bytes, left |-> r.left]

\* What comes of a read that throws.
Thrown == [thrown |-> TRUE, bytes |-> <<>>, left |-> <<>>]

\* read_rle: the bytes, and what is left behind the end marker.
ReadRle[s \in Seq(Byte)] ==
    LET type == ReadVar[s] % 4
        size == ReadVar[s] \div 4
        t == AfterVar(s)
    IN  IF ~HasVar(s) THEN Thrown
        ELSE IF ReadVar[s] = 0 THEN [thrown |-> FALSE, bytes |-> <<>>, left |-> t]
        ELSE IF size > MaxSize \/ Taken(type, size) > Len(t) THEN Thrown
        ELSE Prepend(Piece(type, size, t), ReadRle[From(t, Taken(type, size) + 1)])

-----------------------------------------------------------------------------
(* Histories.  An input is the 18 bytes that write<input_data> makes of it.   *)

InputSize == 18

\* Mutant of Columns: the bytes of each input one after the other.
ColumnsRows(history) == FlattenSeq(history)

\* write<std::list<input_data>>: the first byte of every input, then the second.
Columns(history) ==
    FlattenSeq([b \in 1..InputSize |-> [e \in 1..Len(history) |-> history[e][b]]])

\* packet::transpose
Transpose(src, rows) ==
    LET cols == Len(src) \div rows
    IN  FlattenSeq([c \in 1..cols |->
            [k \in 1..((Len(src) - c) \div cols + 1) |-> src[c + (k - 1) * cols]]])

-----------------------------------------------------------------------------
(* INPUT_DATA packets, and the datagrams they are buffered in. *)

INPUT_DATA == 16

InputData(m) ==
    <<INPUT_DATA>> \o Var[m.user] \o Var[m.first] \o WriteRle[Columns(m.history)]

\* What on_receive reads: the user, the first input's number and the inputs.
ReadInputData(p) ==
    LET body == AfterVar(Tail(p))
        bytes == Transpose(ReadRle[AfterVar(body)].bytes, InputSize)
    IN  [user |-> ReadVar[Tail(p)], first |-> ReadVar[body],
         history |-> [e \in 1..(Len(bytes) \div InputSize) |->
                        SubSeq(bytes, (e - 1) * InputSize + 1, e * InputSize)]]

\* packet::write(packet)
WritePacket(p) == Var[Len(p)] \o p

\* receive_udp_packet: the packets of a datagram, up to a read that throws.
ReadPackets[s \in Seq(Byte)] ==
    LET n == ReadVar[s]
        t == AfterVar(s)
    IN  IF ~HasVar(s) \/ n > MaxSize \/ n > Len(t) THEN <<>>
        ELSE (IF n = 0 THEN <<>> ELSE <<SubSeq(t, 1, n)>>) \o ReadPackets[From(t, n + 1)]
=============================================================================
