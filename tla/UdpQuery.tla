------------------------------ MODULE UdpQuery ------------------------------
(***************************************************************************)
(* The client's connection object together with the queries it makes over  *)
(* UDP: query_udp_port, which every connect makes and whose handler sends  *)
(* the JOIN, and the pings of the public servers and the question for the  *)
(* external address, which have sockets of their own.  A query resolves a  *)
(* name, sends a datagram, and then waits for the answer beside a timer    *)
(* that closes the socket.  (get_external_address does not test whether    *)
(* its name was resolved; what happens then is left out.)                  *)
(*                                                                         *)
(* asio runs one completion handler at a time, in any order: a timer that  *)
(* has expired can no longer be cancelled, though its handler is still to  *)
(* run, and closing a socket ends the wait on it with an error.            *)
(***************************************************************************)
EXTENDS Connection

CONSTANT Background     \* pings of public servers and the external address

ASSUME BackgroundAssumption == Background \cap Socket = {}

VARIABLES
    queries,    \* queries[q]: how far query q has come; q is a connection or in Background
    joins       \* joins[s]: the sockets on which the JOIN of connection s was sent, 0 for none

connectionVars == <<socket, opened, out, flushing, writes, wire, sent, asked, count>>
queryVars == <<queries, joins>>
allVars == <<connectionVars, queryVars>>

Query == Socket \cup Background

\* phase is the operation under way; ended says that the wait has ended and its
\* handler is to run; timer is armed, or its handler is to run: "due" after it
\* expired, "aborted" after it was cancelled; kept is u = udp_socket.
Idle == [phase |-> "none", ended |-> FALSE, timer |-> "none",
         handled |-> FALSE, kept |-> TRUE]
Asked == [Idle EXCEPT !.phase = "resolve"]

-----------------------------------------------------------------------------
\* Mutant of Finish: nothing remembers that the handler was called.
FinishAgain(q, r) ==
    /\ queries' = [queries EXCEPT ![q] = [r EXCEPT !.handled = TRUE]]
    /\ UNCHANGED connectionVars
    /\ joins' = IF q \in Background THEN joins ELSE [joins EXCEPT ![q] = Append(@, socket)]

\* client::send_join, called by query q.
SendJoin(q) ==
    /\ joins' = [joins EXCEPT ![q] = Append(@, socket)]
    /\ IF socket = 0
       THEN UNCHANGED connectionVars
       ELSE /\ count' = count + 1
            /\ sent' = [sent EXCEPT ![socket] = Append(@, count + 1)]
            /\ Flush(Append(out, count + 1), flushing, writes)
            /\ asked' = count + 1
            /\ UNCHANGED <<socket, opened, wire>>

\* handle, which calls its handler once, and done, whose result only the list
\* of servers shows: what is left of the query is r.
Finish(q, r) ==
    /\ queries' = [queries EXCEPT ![q] = [r EXCEPT !.handled = TRUE]]
    /\ IF q \in Background \/ queries[q].handled
       THEN UNCHANGED <<connectionVars, joins>>
       ELSE SendJoin(q)

Ends(r) == [r EXCEPT !.phase = "none", !.ended = FALSE]
Continue(q, r) ==
    queries' = [queries EXCEPT ![q] = r] /\ UNCHANGED <<connectionVars, joins>>

\* The name is resolved, or not.
Resolved(q) ==
    LET r == queries[q]
    IN  /\ r.phase = "resolve"
        /\ \/ Finish(q, Ends(r))
           \/ r.kept /\ Continue(q, [r EXCEPT !.phase = "send"])

\* The datagram is sent, or not: the wait and the timer begin.
Sent(q) ==
    LET r == queries[q]
    IN  /\ r.phase = "send"
        /\ \/ Finish(q, Ends(r))
           \/ r.kept /\ Continue(q, [r EXCEPT !.phase = "wait", !.timer = "armed"])

\* A datagram arrives: the socket can be read.
Answered(q) ==
    LET r == queries[q]
    IN  /\ r.phase = "wait" /\ ~r.ended
        /\ Continue(q, [r EXCEPT !.ended = TRUE])

\* The handler of async_wait.  Whatever it reads, the query is over; the timer
\* is left alone if the connection has another udp_socket by now.
WaitHandler(q) ==
    LET r == queries[q]
    IN  /\ r.ended
        /\ Finish(q, IF r.kept /\ r.timer = "armed" THEN [Ends(r) EXCEPT !.timer = "aborted"]
                     ELSE Ends(r))

TimerExpires(q) ==
    LET r == queries[q]
    IN  /\ r.timer = "armed"
        /\ Continue(q, [r EXCEPT !.timer = "due"])

\* Mutant of TimedOut: the socket stays open.
TimedOutOpen(r) == [r EXCEPT !.timer = "none"]

\* The socket is closed, which ends the wait if there still is one.
TimedOut(r) ==
    [r EXCEPT !.timer = "none", !.ended = (r.phase = "wait")]

\* The handler of the timer.
TimerHandler(q) ==
    LET r == queries[q]
    IN  /\ r.timer \in {"due", "aborted"}
        /\ IF r.kept /\ r.timer = "due" THEN Continue(q, TimedOut(r))
           ELSE IF q \in Background THEN Continue(q, [r EXCEPT !.timer = "none"])
           ELSE Finish(q, [r EXCEPT !.timer = "none"])

-----------------------------------------------------------------------------
(* The connection. *)

\* connection::close_udp, as part of close: udp_socket is closed and let go.
CloseUdp ==
    LET r == queries[socket]
    IN  /\ queries' = [queries EXCEPT ![socket] =
                         [r EXCEPT !.kept = FALSE, !.ended = (r.phase = "wait")]]
        /\ UNCHANGED joins

CloseBoth == Close /\ CloseUdp

WriteHandlerBoth ==
    /\ WriteHandler
    /\ IF socket' = socket THEN UNCHANGED queryVars ELSE CloseUdp

Output == (Send \/ FlushAll \/ WriteSome \/ WriteError) /\ UNCHANGED queryVars

\* connect, and query_udp_port, which asks nothing if there is no UDP socket or
\* neither side is behind a router; that JOIN is the first packet of Send.
ConnectAndQuery ==
    /\ Connect
    /\ \/ queries' = [queries EXCEPT ![opened + 1] = Asked] /\ UNCHANGED joins
       \/ /\ queries' = [queries EXCEPT ![opened + 1] = [Idle EXCEPT !.handled = TRUE]]
          /\ joins' = [joins EXCEPT ![opened + 1] = <<opened + 1>>]

-----------------------------------------------------------------------------
QueryInit ==
    /\ Init
    /\ queries = [q \in Query |-> IF q \in {1} \cup Background THEN Asked ELSE Idle]
    /\ joins = [s \in Socket |-> <<>>]

Handler(q) == Resolved(q) \/ Sent(q) \/ WaitHandler(q) \/ TimerHandler(q)

QueryNext ==
    \/ CloseBoth \/ WriteHandlerBoth \/ Output \/ ConnectAndQuery
    \/ \E q \in Query : Handler(q) \/ Answered(q) \/ TimerExpires(q)

\* asio runs the handlers of what has ended, and timers expire; nobody has to
\* answer.
QuerySpec ==
    /\ QueryInit /\ [][QueryNext]_allVars
    /\ WF_allVars(WriteHandlerBoth)
    /\ WF_allVars(WriteSome /\ UNCHANGED queryVars)
    /\ \A q \in Query : WF_allVars(Handler(q)) /\ WF_allVars(TimerExpires(q))

-----------------------------------------------------------------------------
(* Properties. *)

\* Every query comes to an end, although nobody may answer: a connection whose
\* query is under way will send its JOIN.
QueryAnswered == \A q \in Query : queries[q].phase # "none" ~> queries[q].handled

\* The answer, the timer and the close may race, and each ends the query: still
\* one JOIN is sent for it, and none before its own connection was open.
OneJoin ==
    \A s \in Socket :
        /\ Len(joins[s]) <= 1
        /\ \A i \in 1..Len(joins[s]) : joins[s][i] = 0 \/ joins[s][i] >= s

=============================================================================
