-------------------------------- MODULE Data --------------------------------
(***************************************************************************)
(* The operators of PacketCodec and InputMerge at work on samples: strings *)
(* of bytes, INPUT_DATA messages of one datagram, the inputs of a frame    *)
(* and the members of a room.  A step makes a sample longer.               *)
(***************************************************************************)
EXTENDS PacketCodec, InputMerge

CONSTANTS
    SomeBytes,      \* the bytes of which strings are made
    LongStrings,    \* longer strings to begin with
    SomeMessages,   \* the messages of which datagrams are made
    SomeInputs,     \* a user's input and map in one frame
    LongInputs,     \* inputs of more users than MaxUsers
    SomeMembers,    \* a user's controllers
    MaxBytes,       \* bound: length of a string
    MaxMessages,    \* bound: messages of a datagram
    MaxUsers        \* bound: users

VARIABLES kind, sample

\* Strings are shorter than this, by far the most that a datagram holds.
Limit == 4096

\* The inputs of a history, and what an INPUT_DATA carries: user and frame are
\* numbers of 32 bits, which write_var puts into five bytes at most.
IsHistory(h) == h \in Seq(Seq(Byte)) /\ \A e \in 1..Len(h) : Len(h[e]) = InputSize
IsMessage(m) ==
    /\ m = [user |-> m.user, first |-> m.first, history |-> m.history]
    /\ m.user \in Nat /\ Len(Var[m.user]) <= 5
    /\ m.first \in Nat /\ Len(Var[m.first]) <= 5
    /\ IsHistory(m.history) /\ InputSize * Len(m.history) < Limit

IsMap(map) == map \subseteq 0..15
IsInput(i) ==
    IsMap(i.map) /\ \A p \in Port : i.ports[p].x \in -128..127 /\ i.ports[p].y \in -128..127
IsMember(m) ==
    /\ m.present \subseteq Port /\ m.manual \in BOOLEAN /\ IsMap(m.map)
    /\ \A p \in Port : m.plugin[p] \in Nat \ {0}

ASSUME BoundAssumption == MaxBytes \in Nat /\ MaxBytes < Limit
ASSUME StringAssumption ==
    SomeBytes \subseteq Byte /\ \A v \in LongStrings : v \in Seq(Byte) /\ Len(v) < Limit
ASSUME MessageAssumption == \A m \in SomeMessages : IsMessage(m)
ASSUME InputAssumption == (\A i \in SomeInputs : IsInput(i)) /\ LongInputs \subseteq Seq(SomeInputs)
ASSUME MemberAssumption == \A m \in SomeMembers : IsMember(m)

Init ==
    \/ kind = "bytes" /\ sample \in {<<>>} \cup LongStrings
    \/ kind = "inputs" /\ sample \in LongInputs
    \/ kind \in {"datagram", "inputs", "members"} /\ sample = <<>>

Longer(k, elements, bound) ==
    /\ kind = k /\ Len(sample) < bound
    /\ \E e \in elements : sample' = Append(sample, e)
    /\ UNCHANGED kind

Next ==
    \/ Longer("bytes", SomeBytes, MaxBytes)
    \/ Longer("datagram", SomeMessages, MaxMessages)
    \/ Longer("inputs", SomeInputs, MaxUsers)
    \/ Longer("members", SomeMembers, MaxUsers + 1)

Spec == Init /\ [][Next]_<<kind, sample>>

-----------------------------------------------------------------------------
\* Whatever the bytes, read_rle gives back what write_rle was given, and stops
\* behind its end marker.
RleRoundTrip ==
    kind = "bytes" =>
        ReadRle[WriteRle[sample] \o <<7>>] = [thrown |-> FALSE, bytes |-> sample, left |-> <<7>>]

\* Coding makes nothing much longer, so that a history of 12 inputs always fits
\* a datagram of 508 bytes: send_udp never refuses one.
CodingFits == kind = "bytes" => Len(WriteRle[sample]) <= Len(sample) + 3

\* A datagram is read as the INPUT_DATA packets that were buffered for it, with
\* the users, numbers and inputs they were made of.
DatagramRoundTrip ==
    kind = "datagram" =>
        LET ps == ReadPackets[FlattenSeq([i \in 1..Len(sample) |-> WritePacket(InputData(sample[i]))])]
        IN  [i \in 1..Len(ps) |-> ReadInputData(ps[i])] = sample

\* The sticks that meet at a port give a signed byte, which is their sum if that
\* fits: one user's stick reaches the game as it is, both extremes included.  The
\* stick points to the side of the sum for at most 64 users: their 256 controllers
\* are what 16 bits have room for at one port.
MergeFits ==
    kind = "inputs" =>
        \A dst \in Port :
            LET x == Total(sample, dst, "x")
                y == Total(sample, dst, "y")
                m == Merged(sample)[dst]
            IN  /\ {m.x, m.y} \subseteq -128..127
                /\ {x, y} \subseteq -128..127 => m.x = x /\ m.y = y
                /\ Len(sample) <= 64 =>
                     (x > 0 => m.x >= 0) /\ (x < 0 => m.x < 0)

\* A button is held at a port exactly if somebody holds it on a controller that
\* is mapped there.
MergeMapped ==
    kind = "inputs" =>
        \A dst \in Port, b \in {"A", "B"} :
            b \in Merged(sample)[dst].buttons <=>
                \E u \in DOMAIN sample, src \in Port :
                    Maps(sample[u].map, src, dst) /\ b \in sample[u].ports[src].buttons

\* The users without maps of their own get the ports in turn: each has at most
\* one controller, the first ones are used, and where nobody else's map leads
\* the game sees its pak.
Automatic == {u \in DOMAIN sample : ~sample[u].manual}
Drivers(dst) == {c \in Automatic \X Port : Maps(Assigned(sample)[c[1]], c[2], dst)}
PortsFilled ==
    kind = "members" =>
        \A dst \in Port :
            /\ Cardinality(Drivers(dst)) =
                 IF dst < MapThenSumSet(LAMBDA u : Cardinality(sample[u].present), Automatic) THEN 1 ELSE 0
            /\ \A c \in Drivers(dst) :
                 (\A u \in DOMAIN sample, src \in Port : sample[u].manual => ~Maps(sample[u].map, src, dst))
                   => Plugins(sample, Assigned(sample), dst) = sample[c[1]].plugin[c[2]]
=============================================================================
