----------------------------- MODULE Connection -----------------------------
(***************************************************************************)
(* The TCP output of class connection: packets are collected in            *)
(* tcp_output_buffer and flush hands the whole buffer to one async_write;  *)
(* its completion handler clears `flushing` and flushes what came in       *)
(* meanwhile.  The operating system and asio are modelled as far as the    *)
(* handler can see them: a write puts its packets on the wire one by one,  *)
(* it ends with success or an error, and its handler runs some time after  *)
(* that, maybe when the connection object already has another socket.      *)
(***************************************************************************)
EXTENDS Integers, Sequences, FiniteSets

CONSTANTS
    MaxConnections, \* sockets the object has in its life: 1 for the server's
                    \* user, more for a client that joins again after a close
    MaxSends        \* bound: packets sent

ASSUME ConnectionsAssumption == MaxConnections \in Nat \ {0}
ASSUME SendsAssumption == MaxSends \in Nat

VARIABLES
    socket,     \* the number of the open tcp_socket, 0 when there is none
    opened,     \* how many sockets there have been
    out,        \* tcp_output_buffer
    flushing,
    writes,     \* the async_write operations whose handler has not run
    wire,       \* wire[s]: the packets that reached the network on socket s
    sent,       \* sent[s]: the packets passed to send while s was open
    asked,      \* history: flush was called when packet `asked` was the last one sent
    count       \* bound: packets sent; a packet is known by its number

vars == <<socket, opened, out, flushing, writes, wire, sent, asked, count>>

Socket == 1..MaxConnections

\* An async_write: what is left to put on its socket, and whether it failed.
Write(s, data) == [socket |-> s, data |-> data, failed |-> FALSE]
Ended(w) == w.failed \/ w.data = <<>>

-----------------------------------------------------------------------------
\* Mutant of Flush: a write is started although one is in flight.
FlushTwice(buf, isFlushing, ws) ==
    IF socket # 0 /\ buf # <<>>
    THEN writes' = ws \cup {Write(socket, buf)} /\ out' = <<>> /\ flushing' = TRUE
    ELSE writes' = ws /\ out' = buf /\ flushing' = isFlushing

(* connection::flush, called with buffer buf and the writes ws. *)
Flush(buf, isFlushing, ws) ==
    IF socket # 0 /\ buf # <<>> /\ ~isFlushing
    THEN /\ writes' = ws \cup {Write(socket, buf)}
         /\ out' = <<>>
         /\ flushing' = TRUE
    ELSE /\ writes' = ws
         /\ out' = buf
         /\ flushing' = isFlushing

\* connection::send
Send ==
    /\ socket # 0 /\ count < MaxSends
    /\ count' = count + 1
    /\ sent' = [sent EXCEPT ![socket] = Append(@, count + 1)]
    /\ \E flush \in BOOLEAN :
         IF flush
         THEN Flush(Append(out, count + 1), flushing, writes) /\ asked' = count + 1
         ELSE out' = Append(out, count + 1) /\ UNCHANGED <<flushing, writes, asked>>
    /\ UNCHANGED <<socket, opened, wire>>

\* flush_all, which the loop of process_input and write_input_from call; nothing
\* makes them call it.
FlushAll ==
    /\ socket # 0 /\ out # <<>>
    /\ Flush(out, flushing, writes)
    /\ asked' = count
    /\ UNCHANGED <<socket, opened, wire, sent, count>>

\* The operations of a closed socket end with operation_aborted.
Abort(ws) == {IF Ended(w) \/ w.socket # socket THEN w ELSE [w EXCEPT !.failed = TRUE] : w \in ws}

\* Mutant of CloseWith: tcp_output_buffer is not cleared.
CloseWithOutput(ws) ==
    /\ socket' = 0
    /\ writes' = Abort(ws)
    /\ UNCHANGED <<out, flushing>>

\* connection::close, with ws the writes whose handler is still to run.
CloseWith(ws) ==
    /\ socket' = 0
    /\ out' = <<>>
    /\ writes' = Abort(ws)
    /\ UNCHANGED flushing

\* Closed by the user, by the room, or after a failed read.
Close ==
    /\ socket # 0
    /\ CloseWith(writes)
    /\ UNCHANGED <<opened, wire, sent, asked, count>>

\* client::connect, after a close.
Connect ==
    /\ socket = 0 /\ opened < MaxConnections
    /\ opened' = opened + 1
    /\ socket' = opened + 1
    /\ UNCHANGED <<out, flushing, writes, wire, sent, asked, count>>

\* Mutant of WriteHandler: `flushing` is not cleared before the next flush.
WriteHandlerBusy ==
    /\ \E w \in {x \in writes : Ended(x)} :
         IF w.socket = socket /\ ~w.failed
         THEN Flush(out, flushing, writes \ {w}) /\ UNCHANGED socket
         ELSE writes' = writes \ {w} /\ UNCHANGED <<socket, out, flushing>>
    /\ UNCHANGED <<opened, wire, sent, asked, count>>

\* The completion handler of an async_write.
WriteHandler ==
    /\ \E w \in {x \in writes : Ended(x)} :
         IF w.socket # socket
         THEN writes' = writes \ {w} /\ UNCHANGED <<socket, out, flushing>>
         ELSE IF w.failed
         THEN CloseWith(writes \ {w})
         ELSE Flush(out, FALSE, writes \ {w}) /\ UNCHANGED socket
    /\ UNCHANGED <<opened, wire, sent, asked, count>>

-----------------------------------------------------------------------------
(* The operating system. *)

WriteSome ==
    /\ \E w \in {x \in writes : ~Ended(x)} :
         /\ wire' = [wire EXCEPT ![w.socket] = Append(@, Head(w.data))]
         /\ writes' = (writes \ {w}) \cup {[w EXCEPT !.data = Tail(@)]}
    /\ UNCHANGED <<socket, opened, out, flushing, sent, asked, count>>

WriteError ==
    /\ \E w \in {x \in writes : ~Ended(x)} :
         writes' = (writes \ {w}) \cup {[w EXCEPT !.failed = TRUE]}
    /\ UNCHANGED <<socket, opened, out, flushing, wire, sent, asked, count>>

-----------------------------------------------------------------------------
Init ==
    /\ socket = 1
    /\ opened = 1
    /\ out = <<>>
    /\ flushing = FALSE
    /\ writes = {}
    /\ wire = [s \in Socket |-> <<>>]
    /\ sent = [s \in Socket |-> <<>>]
    /\ asked = 0
    /\ count = 0

Next ==
    \/ Send \/ FlushAll \/ Close \/ Connect \/ WriteHandler
    \/ WriteSome \/ WriteError

Spec == Init /\ [][Next]_vars

\* asio runs the handlers of ended operations, and a connected peer takes the
\* bytes or the write fails.  That anything is sent or flushed is not assumed: a
\* tick of a client in the lobby writes nothing over TCP once UDP is established.
FairSpec == Spec /\ WF_vars(WriteHandler) /\ WF_vars(WriteSome)

-----------------------------------------------------------------------------
(* Properties. *)

TypeOK ==
    /\ socket \in 0..MaxConnections
    /\ opened \in Socket
    /\ out \in Seq(Nat)
    /\ flushing \in BOOLEAN
    /\ writes \in SUBSET [socket : Socket, data : Seq(Nat), failed : BOOLEAN]
    /\ wire \in [Socket -> Seq(Nat)]
    /\ sent \in [Socket -> Seq(Nat)]
    /\ asked \in Nat
    /\ count \in Nat

Current == {w \in writes : w.socket = socket}

\* The open socket never has two writes in flight: asio would interleave
\* their bytes.
OneWrite == \A w, x \in Current : w = x

Prefix(s, t) == Len(s) <= Len(t) /\ SubSeq(t, 1, Len(s)) = s

\* A connection's peer sees the packets sent on that connection, each once and
\* in order, and never one of an earlier connection: what is on the wire, what
\* the write in flight has left and what is buffered make up what was sent.
StreamIntact ==
    /\ \A s \in Socket : Prefix(wire[s], sent[s])
    /\ socket # 0 =>
         \E rest \in {w.data : w \in Current} \cup {<<>>} :
             wire[socket] \o rest \o out = sent[socket]

\* The packets there can be: what Send sends, and a JOIN for each connection.
Packet == 1..(MaxSends + MaxConnections)

\* Packet n was sent on the open socket s, and flush was called then or later.
FlushAsked(n, s) == socket = s /\ n <= asked /\ \E i \in 1..Len(sent[s]) : sent[s][i] = n
WrittenOn(n, s) == \E i \in 1..Len(wire[s]) : wire[s][i] = n

\* Every packet for which flush was called reaches the network or its connection
\* closes, although that flush may have come while another write was in flight
\* and have done nothing.
EventuallyWritten ==
    \A n \in Packet, s \in Socket : FlushAsked(n, s) ~> (socket # s \/ WrittenOn(n, s))

\* The same, but for a later socket only while flushing is not left set by an
\* earlier close: with the one socket of the server's connection, and with any
\* socket whose flag starts clear, the completion handlers alone see to it that
\* no flush is forgotten behind a write.
WrittenOrStuck ==
    \A n \in Packet, s \in Socket :
        (FlushAsked(n, s) /\ (s = 1 \/ ~flushing \/ Current # {}))
            ~> (socket # s \/ WrittenOn(n, s))

=============================================================================
