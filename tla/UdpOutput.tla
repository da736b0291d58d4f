----------------------------- MODULE UdpOutput -----------------------------
(***************************************************************************)
(* The UDP output of class connection: send_udp collects packets in        *)
(* udp_output_buffer so that each datagram stays within MAX_UDP_SIZE, and  *)
(* flush_udp sends the buffer as one datagram.  A packet is known by the   *)
(* number of its payload bytes; the buffer holds each one behind a prefix, *)
(* its size in groups of 7 bits.                                           *)
(***************************************************************************)
EXTENDS Integers, Sequences

CONSTANTS
    MaxUdpSize,     \* MAX_UDP_SIZE
    PayloadSizes,   \* sizes of the packets passed to send_udp
    MaxSends        \* bound: packets passed to send_udp

\* packet::MAX_SIZE is 0xFFFF.
ASSUME SizeAssumption == MaxUdpSize \in Nat /\ \A n \in PayloadSizes : n \in Nat /\ n <= 65535
ASSUME SendsAssumption == MaxSends \in Nat

VARIABLES
    open,       \* udp_socket is open
    buffer,     \* the packets in udp_output_buffer
    bytes,      \* udp_output_buffer.size()
    datagram,   \* the size of the datagram sent last
    delivered,  \* the packets sent in datagrams, one datagram after the other
    accepted,   \* the packets send_udp took, but for those dropped with a buffer
    refused,    \* the packets an open socket did not take
    count       \* bound: calls of send_udp

vars == <<open, buffer, bytes, datagram, delivered, accepted, refused, count>>

\* packet::write_var of a size: as many bytes as it takes groups of 7 bits.
VarLimit == <<128, 128 * 128, 128 * 128 * 128>>
VarLength(n) ==
    CHOOSE k \in 1..3 : n < VarLimit[k] /\ \A j \in 1..k-1 : n >= VarLimit[j]
Encoded(n) == VarLength(n) + n

\* Mutant of PrefixSize: one byte more than the prefix takes.
PrefixSizeLongest(n) == IF n < 128 THEN 2 ELSE 3

\* How send_udp computes the same.
PrefixSize(n) == IF n < 128 THEN 1 ELSE IF n < 16384 THEN 2 ELSE 3
SizeOf(n) == PrefixSize(n) + n

-----------------------------------------------------------------------------
\* The buffer buf of size b leaves as one datagram.
Flush(buf, b) ==
    /\ buffer' = <<>> /\ bytes' = 0
    /\ datagram' = b
    /\ delivered' = delivered \o buf

\* Mutant of Overflows: the prefix is forgotten.
OverflowsBare(n) == bytes + n > MaxUdpSize

\* What was accepted and not delivered is dropped with the buffer.
Undropped == SubSeq(accepted, 1, Len(accepted) - Len(buffer))

TooBig(n) == SizeOf(n) > MaxUdpSize
Overflows(n) == bytes + SizeOf(n) > MaxUdpSize

\* connection::send_udp into a buffer with room for the packet.
SendUdp(n) ==
    /\ open /\ count < MaxSends
    /\ ~TooBig(n) /\ ~Overflows(n)
    /\ \E flush \in BOOLEAN :
         IF flush
         THEN Flush(Append(buffer, n), bytes + Encoded(n))
         ELSE /\ buffer' = Append(buffer, n) /\ bytes' = bytes + Encoded(n)
              /\ UNCHANGED <<datagram, delivered>>
    /\ accepted' = Append(accepted, n)
    /\ count' = count + 1
    /\ UNCHANGED <<open, refused>>

\* Mutant of SendUdpFull: the buffer is cleared instead of sent.
SendUdpFullCleared(n) ==
    /\ open /\ count < MaxSends
    /\ ~TooBig(n) /\ Overflows(n)
    /\ buffer' = <<n>> /\ bytes' = Encoded(n)
    /\ accepted' = Append(accepted, n)
    /\ count' = count + 1
    /\ UNCHANGED <<open, datagram, delivered, refused>>

\* The same without room: the buffer goes out first, then the packet is
\* alone in it, and goes out too if the caller wants it flushed.
SendUdpFull(n) ==
    /\ open /\ count < MaxSends
    /\ ~TooBig(n) /\ Overflows(n)
    /\ \E flush \in BOOLEAN :
         IF flush
         THEN /\ buffer' = <<>> /\ bytes' = 0
              /\ datagram' = Encoded(n)
              /\ delivered' = delivered \o buffer \o <<n>>
         ELSE /\ buffer' = <<n>> /\ bytes' = Encoded(n)
              /\ datagram' = bytes
              /\ delivered' = delivered \o buffer
    /\ accepted' = Append(accepted, n)
    /\ count' = count + 1
    /\ UNCHANGED <<open, refused>>

\* The same when sending the datagram fails: flush_udp closes the socket and
\* drops the buffer, and the packet is put in the buffer of a closed socket.
SendUdpFailing(n) ==
    /\ open /\ count < MaxSends
    /\ ~TooBig(n) /\ Overflows(n)
    /\ open' = FALSE
    /\ buffer' = <<n>> /\ bytes' = Encoded(n)
    /\ accepted' = Append(Undropped, n)
    /\ count' = count + 1
    /\ UNCHANGED <<datagram, delivered, refused>>

Refuse(n) ==
    /\ open /\ count < MaxSends
    /\ TooBig(n)
    /\ refused' = refused \cup {n}
    /\ count' = count + 1
    /\ UNCHANGED <<open, buffer, bytes, datagram, delivered, accepted>>

\* flush_udp
FlushUdp ==
    /\ open /\ buffer # <<>>
    /\ Flush(buffer, bytes)
    /\ UNCHANGED <<open, accepted, refused, count>>

DropBuffer ==
    /\ buffer' = <<>> /\ bytes' = 0
    /\ accepted' = Undropped

\* close_udp: after an error of send or receive, or with the connection.
CloseUdp ==
    /\ open \/ buffer # <<>>
    /\ open' = FALSE
    /\ DropBuffer
    /\ UNCHANGED <<datagram, delivered, refused, count>>

\* The server clears the buffers of all members when a user quits.
ClearOnQuit ==
    /\ buffer # <<>>
    /\ DropBuffer
    /\ UNCHANGED <<open, datagram, delivered, refused, count>>

\* "/join": close, with what a closed socket had left in its buffer, and
\* connect with a new socket.
Reopen ==
    /\ ~open
    /\ open' = TRUE
    /\ DropBuffer
    /\ UNCHANGED <<datagram, delivered, refused, count>>

-----------------------------------------------------------------------------
Init ==
    /\ open = TRUE
    /\ buffer = <<>>
    /\ bytes = 0
    /\ datagram = 0
    /\ delivered = <<>>
    /\ accepted = <<>>
    /\ refused = {}
    /\ count = 0

Next ==
    \/ \E n \in PayloadSizes : SendUdp(n) \/ SendUdpFull(n) \/ SendUdpFailing(n)
                             \/ Refuse(n)
    \/ FlushUdp \/ CloseUdp \/ ClearOnQuit \/ Reopen

Spec == Init /\ [][Next]_vars

-----------------------------------------------------------------------------
TypeOK ==
    /\ open \in BOOLEAN
    /\ buffer \in Seq(Nat)
    /\ bytes \in Nat
    /\ datagram \in Nat
    /\ delivered \in Seq(Nat)
    /\ accepted \in Seq(Nat)
    /\ refused \in SUBSET Nat
    /\ count \in Nat

\* No datagram is larger than MAX_UDP_SIZE, prefixes included, at any mix of
\* packet sizes and flushes; a flush before the packet is why.
DatagramFits == datagram <= MaxUdpSize /\ bytes <= MaxUdpSize

\* The packets accepted go out in order, each once, none forgotten when the
\* buffer is flushed early to make room.
PacketsInOrder == delivered \o buffer = accepted

\* A packet is refused only when no datagram could hold it.
OnlyTooBigRefused == \A n \in refused : Encoded(n) > MaxUdpSize

=============================================================================
