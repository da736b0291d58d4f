------------------------------ MODULE Lockstep ------------------------------
(***************************************************************************)
(* A started netplay game: the clients' lockstep loop, the relay server,   *)
(* and the movement of input authority between users.                      *)
(*                                                                         *)
(* Every user owns an input stream.  The client holding authority over a   *)
(* stream produces its inputs, the server (server, room, user) relays each *)
(* input it accepts to every other member, and each client (client) runs   *)
(* its emulator one frame whenever it has the next input of every user.    *)
(*                                                                         *)
(* A client has two threads.  The emulator thread alternates between       *)
(* computing a frame (pc "game"), having the service thread run the body   *)
(* of process_input (pc "send", then "request"), and waiting on            *)
(* next_input_condition (pc "wait").  The service thread runs one handler  *)
(* at a time, so no other handler of the client runs while pc is "send" or *)
(* "request", or while calls of change_input_authority are left in todo.   *)
(***************************************************************************)
EXTENDS Integers, Sequences, FiniteSets

CONSTANTS
    User,           \* the users in the room when the game starts
    Input,          \* the values of input_data
    Active,         \* the inputs for which input_detected holds
    Lags,           \* the values u->lag takes in any client's copy
    HistoryLength,  \* INPUT_HISTORY_LENGTH
    UdpUser,        \* the users whose UDP path is established
    GolfModes,      \* the values the golf flag takes in any client
    MaxFrame,       \* bound: frames a client asks for
    MaxCommands,    \* bound: authority commands typed
    MaxQuits        \* bound: users that leave

ASSUME InputAssumption == Active \subseteq Input /\ Input # {}
ASSUME LagAssumption == Lags \subseteq Nat /\ Lags # {}
ASSUME HistoryAssumption == HistoryLength \in Nat \ {0}
ASSUME UdpAssumption == UdpUser \subseteq User
ASSUME GolfAssumption == GolfModes \subseteq BOOLEAN /\ GolfModes # {}
ASSUME BoundAssumption == MaxFrame \in Nat /\ MaxCommands \in Nat /\ MaxQuits \in Nat

VARIABLES
    members,    \* server: room::user_list
    srvLog,     \* server: srvLog[u], the inputs of u it accepted; user::input_id is the length
    srvAuth,    \* server: srvAuth[u], user::authority
    up,         \* up[c]: TCP packets from client c the server has not handled
    down,       \* down[c]: TCP packets to client c it has not handled
    upUdp,      \* upUdp[c]: every datagram c ever sent; any may be lost, repeated or late
    downUdp,    \* downUdp[c]: every datagram ever sent to c
    present,    \* client: present[c], its user_list
    auth,       \* client: auth[c][u], its view of u->authority
    log,        \* client: log[c][u], the inputs of u added by add_input_history
    queue,      \* client: queue[c][u], u->input_queue
    frame,      \* client: frame[c], input_id
    ready,      \* client: ready[c], next_input holds an input
    udp,        \* client: udp[c], udp_established
    pc,         \* client: pc[c], where the emulator thread is
    todo,       \* client: todo[c], change_input_authority calls its handler has left
    commands    \* bound: commands typed so far

serverVars == <<members, srvLog, srvAuth>>
inputVars == <<log, queue, frame, ready>>
controlVars == <<present, auth, udp, pc, todo, commands>>
vars == <<members, srvLog, srvAuth, up, down, upUdp, downUdp, present, auth, log,
          queue, frame, ready, udp, pc, todo, commands>>

-----------------------------------------------------------------------------
(* Packets. *)

InputData(u, first, inputs) ==
    [type |-> "INPUT_DATA", user |-> u, first |-> first, inputs |-> inputs]
Delegate(u, a) == [type |-> "DELEGATE_AUTHORITY", user |-> u, authority |-> a]
Request(u, a) == [type |-> "REQUEST_AUTHORITY", user |-> u, authority |-> a]
Quit(u) == [type |-> "QUIT", user |-> u]

InputPacket == [type : {"INPUT_DATA"}, user : User, first : Nat, inputs : Seq(Input)]
AuthorityPacket == [type : {"DELEGATE_AUTHORITY", "REQUEST_AUTHORITY"},
                    user : User, authority : User]
QuitPacket == [type : {"QUIT"}, user : User]
Packet == InputPacket \cup AuthorityPacket \cup QuitPacket

Longer(a, b) == IF a > b THEN a ELSE b

\* The input_history of a stream: its last HistoryLength inputs.
History(s) == SubSeq(s, Longer(1, Len(s) - HistoryLength + 1), Len(s))

\* Mutant of Datagrams: the first input of a history numbered one too low.
DatagramsEarly(u, s, vs) ==
    {InputData(u, Len(t) - Len(History(t)) - 1, History(t)) :
        t \in {s \o SubSeq(vs, 1, i) : i \in 1..Len(vs)}}

\* What send_input and write_input_from put on TCP for the inputs vs that
\* extend the stream s of u, one packet each, and on UDP: the whole history.
Packets(u, s, vs) == [i \in 1..Len(vs) |-> InputData(u, Len(s) + i - 1, <<vs[i]>>)]
Datagrams(u, s, vs) ==
    {InputData(u, Len(t) - Len(History(t)), History(t)) :
        t \in {s \o SubSeq(vs, 1, i) : i \in 1..Len(vs)}}

\* Mutant of Fresh: add_input_history takes whatever comes after what it has,
\* without requiring the very next input.
FreshGap(m, s) ==
    IF Len(s) < m.first + Len(m.inputs)
    THEN SubSeq(m.inputs, Longer(1, Len(s) - m.first + 1), Len(m.inputs))
    ELSE <<>>

\* The inputs of packet m that add_input_history accepts one after the other
\* onto the stream s: those from the first missing one on, if m has it.
Fresh(m, s) ==
    IF m.first <= Len(s) /\ Len(s) < m.first + Len(m.inputs)
    THEN SubSeq(m.inputs, Len(s) - m.first + 1, Len(m.inputs))
    ELSE <<>>

NoInputs == [u \in User |-> <<>>]

-----------------------------------------------------------------------------
(* The parts of client handlers. *)

ServiceIdle(c) == c \in members /\ pc[c] \in {"game", "wait"} /\ todo[c] = {}

\* client::on_input: with an input of every user in pres and next_input
\* empty, merge the heads into the next frame's input.  q is queue[c] as the
\* handler left it.
OnInput(c, pres, q) ==
    IF ready[c] \/ \E u \in pres : q[u] = <<>>
    THEN /\ queue' = [queue EXCEPT ![c] = q]
         /\ UNCHANGED <<frame, ready>>
    ELSE /\ queue' = [queue EXCEPT ![c] =
                        [u \in User |-> IF u \in pres THEN Tail(q[u]) ELSE q[u]]]
         /\ frame' = [frame EXCEPT ![c] = @ + 1]
         /\ ready' = [ready EXCEPT ![c] = TRUE]

\* client::send_input, once for each value of vs: extend u's stream here and
\* send it to the server after the packets of before.
SendInputs(c, u, before, vs) ==
    /\ log' = [log EXCEPT ![c][u] = @ \o vs]
    /\ up' = [up EXCEPT ![c] = @ \o before \o Packets(u, log[c][u], vs)]
    /\ upUdp' = IF udp[c]
                THEN [upUdp EXCEPT ![c] = @ \cup Datagrams(u, log[c][u], vs)]
                ELSE upUdp

\* Mutant of ChangeAuthority: the holder tells the others but not itself.
ChangeAuthorityKept(c, u, a) ==
    /\ auth' = auth
    /\ up' = IF auth[c][u] = a THEN up
             ELSE [up EXCEPT ![c] =
                     Append(@, IF auth[c][u] = c THEN Delegate(u, a) ELSE Request(u, a))]

\* client::change_input_authority: a holder gives authority away and says so,
\* anyone else asks the holder to.
ChangeAuthority(c, u, a) ==
    /\ IF auth[c][u] = c /\ a # c
       THEN auth' = [auth EXCEPT ![c][u] = a]
       ELSE auth' = auth
    /\ up' = IF auth[c][u] = a THEN up
             ELSE [up EXCEPT ![c] =
                     Append(@, IF auth[c][u] = c THEN Delegate(u, a) ELSE Request(u, a))]

-----------------------------------------------------------------------------
(* client::process_input, called by the emulator thread for each frame. *)

\* The emulator asks for a frame; the body is posted to the service thread.
ProcessInput(c) ==
    /\ ServiceIdle(c) /\ pc[c] = "game"
    /\ frame[c] < MaxFrame
    /\ pc' = [pc EXCEPT ![c] = "send"]
    /\ UNCHANGED <<serverVars, up, down, upUdp, downUdp, inputVars, present, auth, udp,
                   todo, commands>>

\* Mutant of SendInput: inputs are sent however far ahead the stream is.
SendInputAhead(c, u) ==
    /\ c \in members /\ pc[c] = "send"
    /\ u \in present[c] /\ auth[c][u] = c
    /\ \E v \in Input :
         /\ SendInputs(c, u, <<>>, <<v>>)
         /\ queue' = [queue EXCEPT ![c][u] = Append(@, v)]
    /\ UNCHANGED <<serverVars, down, downUdp, frame, ready, controlVars>>

\* One round of the while loop: one more input of a stream c has authority over.
SendInput(c, u) ==
    /\ c \in members /\ pc[c] = "send"
    /\ u \in present[c] /\ auth[c][u] = c
    /\ \E lag \in Lags : Len(log[c][u]) <= frame[c] + lag
    /\ \E v \in Input :
         /\ SendInputs(c, u, <<>>, <<v>>)
         /\ queue' = [queue EXCEPT ![c][u] = Append(@, v)]
    /\ UNCHANGED <<serverVars, down, downUdp, frame, ready, controlVars>>

LoopDone(c) ==
    \A u \in present[c] :
        auth[c][u] = c => \E lag \in Lags : Len(log[c][u]) > frame[c] + lag

\* Golf mode: pressing a button while another client holds authority over
\* this user's input asks for authority over everyone's.
GolfSwing(c) ==
    /\ c \in members /\ pc[c] = "send" /\ LoopDone(c)
    /\ auth[c][c] # c
    /\ TRUE \in GolfModes /\ Active # {}
    /\ todo' = [todo EXCEPT ![c] = present[c] \X {c}]
    /\ pc' = [pc EXCEPT ![c] = "request"]
    /\ UNCHANGED <<serverVars, up, down, upUdp, downUdp, inputVars, present, auth, udp,
                   commands>>

\* One call of change_input_authority in a loop over user_list.
ChangeNext(c) ==
    /\ c \in members
    /\ \E call \in todo[c] :
         /\ ChangeAuthority(c, call[1], call[2])
         /\ todo' = [todo EXCEPT ![c] = @ \ {call}]
    /\ UNCHANGED <<serverVars, down, upUdp, downUdp, inputVars, present, udp, pc, commands>>

\* The end of the body: on_input, and the emulator thread starts to wait.
FinishInput(c) ==
    /\ c \in members
    /\ \/ pc[c] = "send" /\ LoopDone(c)
       \/ pc[c] = "request" /\ todo[c] = {}
    /\ pc' = [pc EXCEPT ![c] = "wait"]
    /\ OnInput(c, present[c], queue[c])
    /\ UNCHANGED <<serverVars, up, down, upUdp, downUdp, log, present, auth, udp, todo,
                   commands>>

\* The emulator thread wakes up and takes the input of its next frame.
TakeInput(c) ==
    /\ c \in members
    /\ pc[c] = "wait" /\ ready[c]
    /\ ready' = [ready EXCEPT ![c] = FALSE]
    /\ pc' = [pc EXCEPT ![c] = "game"]
    /\ UNCHANGED <<serverVars, up, down, upUdp, downUdp, log, queue, frame, present, auth,
                   udp, todo, commands>>

-----------------------------------------------------------------------------
(* Commands typed in the dialog, run by the service thread. *)

\* "/auth <authority> [<user>]"
AuthCommand(c, u, a) ==
    /\ ServiceIdle(c) /\ commands < MaxCommands
    /\ {u, a} \subseteq present[c] /\ auth[c][u] # a
    /\ ChangeAuthority(c, u, a)
    /\ commands' = commands + 1
    /\ UNCHANGED <<serverVars, down, upUdp, downUdp, inputVars, present, udp, pc, todo>>

\* "/golf": on, ask for everyone's authority; off, ask each user to have their own.
GolfCommand(c) ==
    /\ ServiceIdle(c) /\ commands < MaxCommands /\ TRUE \in GolfModes
    /\ \E golf \in GolfModes :
         todo' = [todo EXCEPT ![c] =
                    {<<u, IF golf THEN c ELSE u>> : u \in present[c]}]
    /\ commands' = commands + 1
    /\ UNCHANGED <<serverVars, up, down, upUdp, downUdp, inputVars, present, auth, udp, pc>>

-----------------------------------------------------------------------------
(* client::on_receive. *)

\* Mutant of AcceptInputs: inputs are queued even if add_input_history refuses.
AcceptInputsAll(c, m) ==
    /\ log' = [log EXCEPT ![c][m.user] = @ \o Fresh(m, log[c][m.user])]
    /\ OnInput(c, present[c], [queue[c] EXCEPT ![m.user] = @ \o m.inputs])
    /\ UNCHANGED <<auth, up>>

\* INPUT_DATA: add and queue what is new; in golf mode a button of another
\* user's stream hands that user the authority over this user's own.
AcceptInputs(c, m) ==
    LET u == m.user
        fresh == Fresh(m, log[c][u])
    IN  /\ log' = [log EXCEPT ![c][u] = @ \o fresh]
        /\ \E golf \in GolfModes :
             IF golf /\ auth[c][c] = c /\ \E i \in 1..Len(fresh) : fresh[i] \in Active
             THEN ChangeAuthority(c, c, u)
             ELSE UNCHANGED <<auth, up>>
        /\ OnInput(c, present[c], [queue[c] EXCEPT ![u] = @ \o fresh])

Receives(c, type) ==
    ServiceIdle(c) /\ down[c] # <<>> /\ Head(down[c]).type = type

Consume(c) == down' = [down EXCEPT ![c] = Tail(@)]

ReceiveInput(c) ==
    /\ Receives(c, "INPUT_DATA")
    /\ Head(down[c]).user \in present[c]
    /\ Consume(c)
    /\ AcceptInputs(c, Head(down[c]))
    /\ UNCHANGED <<serverVars, upUdp, downUdp, present, udp, pc, todo, commands>>

\* The same handler for a datagram.  One with nothing new changes nothing.
ReceiveDatagram(c) ==
    /\ ServiceIdle(c) /\ udp[c]
    /\ \E m \in downUdp[c] :
         /\ m.user \in present[c] /\ Fresh(m, log[c][m.user]) # <<>>
         /\ AcceptInputs(c, m)
    /\ UNCHANGED <<serverVars, down, upUdp, downUdp, present, udp, pc, todo, commands>>

\* A datagram about a user who is gone: the handler goes on reading the rest of
\* it as if it were other records.  An exception closes UDP, which is this
\* action; with none it is as if the datagram were lost.  Left out: a rest that
\* decodes to the next input of a user who is present.
ReceiveOrphanDatagram(c) ==
    /\ ServiceIdle(c) /\ udp[c]
    /\ \E m \in downUdp[c] : m.user \notin present[c]
    /\ udp' = [udp EXCEPT ![c] = FALSE]
    /\ UNCHANGED <<serverVars, up, down, upUdp, downUdp, inputVars, present, auth, pc, todo,
                   commands>>

\* Mutant of ReceiveDelegate: the new holder sends nothing until its next frame.
ReceiveDelegateSilent(c) ==
    /\ Receives(c, "DELEGATE_AUTHORITY")
    /\ Consume(c)
    /\ LET m == Head(down[c])
       IN  auth' = IF {m.user, m.authority} \subseteq present[c]
                   THEN [auth EXCEPT ![c][m.user] = m.authority]
                   ELSE auth
    /\ UNCHANGED <<serverVars, up, upUdp, downUdp, inputVars, present, udp, pc, todo,
                   commands>>

\* DELEGATE_AUTHORITY: the new holder sends two inputs at once.
ReceiveDelegate(c) ==
    /\ Receives(c, "DELEGATE_AUTHORITY")
    /\ Consume(c)
    /\ LET u == Head(down[c]).user
           a == Head(down[c]).authority
       IN  IF ~({u, a} \subseteq present[c])
           THEN UNCHANGED <<auth, up, upUdp, inputVars>>
           ELSE /\ auth' = [auth EXCEPT ![c][u] = a]
                /\ IF a # c
                   THEN UNCHANGED <<up, upUdp, inputVars>>
                   ELSE \E v \in Input :
                          /\ SendInputs(c, u, <<>>, <<v, v>>)
                          /\ OnInput(c, present[c], [queue[c] EXCEPT ![u] = @ \o <<v, v>>])
    /\ UNCHANGED <<serverVars, downUdp, present, udp, pc, todo, commands>>

\* REQUEST_AUTHORITY: whoever holds it gives it away.
ReceiveRequest(c) ==
    /\ Receives(c, "REQUEST_AUTHORITY")
    /\ Consume(c)
    /\ LET u == Head(down[c]).user
           a == Head(down[c]).authority
       IN  IF {u, a} \subseteq present[c] /\ auth[c][u] = c
           THEN ChangeAuthority(c, u, a)
           ELSE UNCHANGED <<auth, up>>
    /\ UNCHANGED <<serverVars, upUdp, downUdp, inputVars, present, udp, pc, todo, commands>>

\* Mutant of ReceiveQuit: the user is dropped, authority stays with the quitter.
ReceiveQuitOnly(c) ==
    /\ Receives(c, "QUIT")
    /\ Consume(c)
    /\ LET gone == Head(down[c]).user
           pres == present[c] \ {gone}
       IN  /\ present' = [present EXCEPT ![c] = pres]
           /\ OnInput(c, pres, [queue[c] EXCEPT ![gone] = <<>>])
    /\ UNCHANGED <<serverVars, up, upUdp, downUdp, log, auth, udp, pc, todo, commands>>

\* QUIT (remove_user): drop the user, and take the authority over this user's
\* own input back if the quitter had it.
ReceiveQuit(c) ==
    /\ Receives(c, "QUIT")
    /\ Consume(c)
    /\ LET gone == Head(down[c]).user
           pres == present[c] \ {gone}
           q == [queue[c] EXCEPT ![gone] = <<>>]
       IN  /\ present' = [present EXCEPT ![c] = pres]
           /\ IF auth[c][c] = gone
              THEN /\ auth' = [auth EXCEPT ![c][c] = c]
                   /\ \E v \in Input :
                        /\ SendInputs(c, c, <<Delegate(c, c)>>, <<v>>)
                        /\ OnInput(c, pres, [q EXCEPT ![c] = Append(@, v)])
              ELSE /\ OnInput(c, pres, q)
                   /\ UNCHANGED <<auth, up, upUdp, log>>
    /\ UNCHANGED <<serverVars, downUdp, udp, pc, todo, commands>>

-----------------------------------------------------------------------------
(* user::on_receive and room::on_user_quit on the server. *)

SendAll(to, packets) ==
    down' = [d \in User |-> IF d \in to THEN down[d] \o packets ELSE down[d]]

\* Mutant of RelayInputs: the server does not check that the user is still there.
RelayInputsAny(c, m) ==
    LET u == m.user
        fresh == Fresh(m, srvLog[u])
    IN  /\ srvLog' = [srvLog EXCEPT ![u] = @ \o fresh]
        /\ SendAll(members \ {c}, Packets(u, srvLog[u], fresh))
        /\ UNCHANGED downUdp

\* INPUT_DATA: every input accepted is written to every other member.
RelayInputs(c, m) ==
    LET u == m.user
        fresh == IF u \in members THEN Fresh(m, srvLog[u]) ELSE <<>>
    IN  /\ srvLog' = [srvLog EXCEPT ![u] = @ \o fresh]
        /\ SendAll(members \ {c}, Packets(u, srvLog[u], fresh))
        /\ downUdp' = [d \in User |->
                         IF d \in (members \cap UdpUser) \ {c}
                         THEN downUdp[d] \cup Datagrams(u, srvLog[u], fresh)
                         ELSE downUdp[d]]

Handles(c, type) == c \in members /\ up[c] # <<>> /\ Head(up[c]).type = type

ServerInput(c) ==
    /\ Handles(c, "INPUT_DATA")
    /\ up' = [up EXCEPT ![c] = Tail(@)]
    /\ RelayInputs(c, Head(up[c]))
    /\ UNCHANGED <<members, srvAuth, upUdp, inputVars, controlVars>>

ServerDatagram(c) ==
    /\ c \in members
    /\ \E m \in upUdp[c] :
         /\ m.user \in members /\ Fresh(m, srvLog[m.user]) # <<>>
         /\ RelayInputs(c, m)
    /\ UNCHANGED <<members, srvAuth, up, upUdp, inputVars, controlVars>>

\* Mutant of ServerDelegate: relayed, but user::authority is not updated.
ServerDelegateUnstored(c) ==
    /\ Handles(c, "DELEGATE_AUTHORITY")
    /\ up' = [up EXCEPT ![c] = Tail(@)]
    /\ LET m == Head(up[c])
       IN  IF {m.user, m.authority} \subseteq members
           THEN SendAll(members \ {c}, <<m>>)
           ELSE UNCHANGED down
    /\ UNCHANGED <<serverVars, upUdp, downUdp, inputVars, controlVars>>

\* DELEGATE_AUTHORITY: dropped if either user is gone, else stored and relayed.
ServerDelegate(c) ==
    /\ Handles(c, "DELEGATE_AUTHORITY")
    /\ up' = [up EXCEPT ![c] = Tail(@)]
    /\ LET m == Head(up[c])
       IN  IF {m.user, m.authority} \subseteq members
           THEN /\ srvAuth' = [srvAuth EXCEPT ![m.user] = m.authority]
                /\ SendAll(members \ {c}, <<m>>)
           ELSE UNCHANGED <<srvAuth, down>>
    /\ UNCHANGED <<members, srvLog, upUdp, downUdp, inputVars, controlVars>>

\* REQUEST_AUTHORITY: dropped if either user is gone, else relayed.
ServerRequest(c) ==
    /\ Handles(c, "REQUEST_AUTHORITY")
    /\ up' = [up EXCEPT ![c] = Tail(@)]
    /\ LET m == Head(up[c])
       IN  IF {m.user, m.authority} \subseteq members
           THEN SendAll(members \ {c}, <<m>>)
           ELSE UNCHANGED down
    /\ UNCHANGED <<serverVars, upUdp, downUdp, inputVars, controlVars>>

\* The connection of c ends, whatever it had in flight is lost, and the room
\* tells the others.  c plays no further part, so its state is forgotten.
ServerQuit(c) ==
    /\ c \in members /\ members # {c}
    /\ Cardinality(User \ members) < MaxQuits
    /\ members' = members \ {c}
    /\ down' = [d \in User |->
                  IF d = c THEN <<>>
                  ELSE IF d \in members THEN Append(down[d], Quit(c)) ELSE down[d]]
    /\ up' = [up EXCEPT ![c] = <<>>]
    /\ upUdp' = [upUdp EXCEPT ![c] = {}]
    /\ downUdp' = [downUdp EXCEPT ![c] = {}]
    /\ present' = [present EXCEPT ![c] = {}]
    /\ auth' = [auth EXCEPT ![c] = [u \in User |-> u]]
    /\ log' = [log EXCEPT ![c] = NoInputs]
    /\ queue' = [queue EXCEPT ![c] = NoInputs]
    /\ frame' = [frame EXCEPT ![c] = 0]
    /\ ready' = [ready EXCEPT ![c] = FALSE]
    /\ udp' = [udp EXCEPT ![c] = FALSE]
    /\ pc' = [pc EXCEPT ![c] = "game"]
    /\ todo' = [todo EXCEPT ![c] = {}]
    /\ UNCHANGED <<srvLog, srvAuth, commands>>

-----------------------------------------------------------------------------
Init ==
    /\ members = User
    /\ srvLog = NoInputs
    /\ srvAuth = [u \in User |-> u]
    /\ up = [c \in User |-> <<>>]
    /\ down = [c \in User |-> <<>>]
    /\ upUdp = [c \in User |-> {}]
    /\ downUdp = [c \in User |-> {}]
    /\ present = [c \in User |-> User]
    /\ auth = [c \in User |-> [u \in User |-> u]]
    /\ log = [c \in User |-> NoInputs]
    /\ queue = [c \in User |-> NoInputs]
    /\ frame = [c \in User |-> 0]
    /\ ready = [c \in User |-> FALSE]
    /\ udp = [c \in User |-> c \in UdpUser]
    /\ pc = [c \in User |-> "game"]
    /\ todo = [c \in User |-> {}]
    /\ commands = 0

\* What the emulator and service threads of client c do without a packet.
Emulate(c) ==
    \/ ProcessInput(c)
    \/ \E u \in User : SendInput(c, u)
    \/ GolfSwing(c)
    \/ ChangeNext(c)
    \/ FinishInput(c)
    \/ TakeInput(c)

Receive(c) ==
    \/ ReceiveInput(c)
    \/ ReceiveDelegate(c)
    \/ ReceiveRequest(c)
    \/ ReceiveQuit(c)

Serve(c) ==
    \/ ServerInput(c)
    \/ ServerDelegate(c)
    \/ ServerRequest(c)

ReceiveUdp(c) == ReceiveDatagram(c) \/ ReceiveOrphanDatagram(c) \/ ServerDatagram(c)

Command(c) == GolfCommand(c) \/ \E u, a \in User : AuthCommand(c, u, a)

\* Nothing is on its way over TCP and no handler is half done.
Quiet ==
    \A c \in members : up[c] = <<>> /\ down[c] = <<>> /\ ServiceIdle(c)

\* The bound of the model is reached: stopping here is not a deadlock.
Finished ==
    /\ Quiet
    /\ \A c \in members : frame[c] >= MaxFrame /\ pc[c] = "game"
    /\ UNCHANGED vars

Next ==
    \/ \E c \in User : Emulate(c) \/ Receive(c) \/ Serve(c) \/ ReceiveUdp(c)
                       \/ Command(c) \/ ServerQuit(c)
    \/ Finished

Spec == Init /\ [][Next]_vars

\* The threads of a client and the server's handlers run whenever they can;
\* TCP delivers what was sent, UDP promises nothing, people may stay silent.
\* For games over TCP alone: there each tick of the server sends LATENCY and a
\* PING, which the client answers, and each of these flushes what was buffered.
Fairness ==
    \A c \in User : WF_vars(Emulate(c)) /\ WF_vars(Receive(c)) /\ WF_vars(Serve(c))

FairSpec == Spec /\ Fairness

-----------------------------------------------------------------------------
(* Properties. *)

TypeOK ==
    /\ members \in SUBSET User
    /\ srvLog \in [User -> Seq(Input)]
    /\ srvAuth \in [User -> User]
    /\ up \in [User -> Seq(Packet)]
    /\ down \in [User -> Seq(Packet)]
    /\ upUdp \in [User -> SUBSET InputPacket]
    /\ downUdp \in [User -> SUBSET InputPacket]
    /\ present \in [User -> SUBSET User]
    /\ auth \in [User -> [User -> User]]
    /\ log \in [User -> [User -> Seq(Input)]]
    /\ queue \in [User -> [User -> Seq(Input)]]
    /\ frame \in [User -> Nat]
    /\ ready \in [User -> BOOLEAN]
    /\ udp \in [User -> BOOLEAN]
    /\ pc \in [User -> {"game", "send", "request", "wait"}]
    /\ todo \in [User -> SUBSET (User \X User)]
    /\ commands \in Nat

Prefix(s, t) == Len(s) <= Len(t) /\ SubSeq(t, 1, Len(s)) = s
Agree(s, t) == Prefix(s, t) \/ Prefix(t, s)

\* No desynchronisation: for every user the input streams the server and the
\* members' clients hold agree, whichever way an input reached them (TCP, UDP
\* history, local send_input) and whoever had authority when it was produced.
LogsAgree ==
    \A u \in User :
        /\ \A c \in members : Agree(log[c][u], srvLog[u])
        /\ \A c, d \in members : Agree(log[c][u], log[d][u])

\* Every client consumes the streams in step with its frame counter: what is
\* queued for a user is exactly the inputs from the frame about to be merged
\* on.  The assertion of on_input (u->input_id > input_id) rests on it.
QueueAligned ==
    \A c \in members : \A u \in present[c] :
        /\ frame[c] <= Len(log[c][u])
        /\ queue[c][u] = SubSeq(log[c][u], frame[c] + 1, Len(log[c][u]))

Delegates(s, u, a) ==
    {i \in 1..Len(s) : s[i].type = "DELEGATE_AUTHORITY" /\ s[i].user = u
                       /\ s[i].authority \in a}

\* The authority over u's input, wherever it is: with a client that believes
\* it has it, or in a DELEGATE_AUTHORITY packet that will give it to a client.
\* A packet to the holder itself (remove_user announces what it took back) or
\* to a departed user, which the server drops, gives authority to nobody.
Holders(u) == {c \in members : auth[c][u] = c}
Tokens(u) ==
    {<<"hold", c, 0>> : c \in Holders(u)}
    \cup (UNION {{<<"up", c, i>> : i \in Delegates(up[c], u, members \ {c})} : c \in members})
    \cup (UNION {{<<"down", c, i>> : i \in Delegates(down[c], u, {c})} : c \in members})

\* At most one client produces a user's inputs at any time: authority is never
\* duplicated by requests, delegations and quits that cross.
SingleProducer == \A u \in members : Cardinality(Tokens(u)) <= 1

\* Input of a departed user is never relayed after the QUIT that removes them:
\* over TCP the "user is gone" branch of INPUT_DATA is never taken.
NoOrphanInput ==
    \A c \in members :
        (down[c] # <<>> /\ Head(down[c]).type = "INPUT_DATA")
            => Head(down[c]).user \in present[c]

\* When everything sent over TCP was handled and nobody left, the server and
\* all clients agree on who has authority over whom.
QuietAuthority ==
    (Quiet /\ members = User) =>
        \A c, u \in User : auth[c][u] = srvAuth[u]

\* While nobody changes authority, no client runs ahead of another by more
\* than the lag the inputs are sent ahead with, plus the frame being merged.
BoundedSkew ==
    \A c, d \in members :
        \E lag \in Lags : frame[c] <= frame[d] + lag + 1

\* The stream of every user still in the room always has a producer once the
\* packets in flight are handled: delegating authority to another user ("/auth
\* <id>") leaves it with someone who is there.
AlwaysAProducer ==
    Quiet => \A u \in members : Holders(u) # {}

\* Lockstep never stalls: every client that stays reaches every frame.
Progress == \A c \in User : <>(frame[c] >= MaxFrame \/ c \notin members)

=============================================================================
