-------------------------------- MODULE Room --------------------------------
(***************************************************************************)
(* A room of the server before and at the start of a game: clients         *)
(* connect, wait for the port query, join, change settings, leave and      *)
(* start, each over one ordered TCP stream per direction.  A client keeps  *)
(* its own copy of the room (user_map), built from ACCEPT and changed by   *)
(* the messages that follow; some of those name a user by id, others only  *)
(* by the position in the list.                                            *)
(*                                                                         *)
(* The inputs that process_input sends once the game runs are Lockstep's;  *)
(* those that handlers send, which they also do in the lobby, are counted  *)
(* here.  The answer to the port query is UdpQuery's.  A user is known by  *)
(* the position in user_map, which is the id plus one.                     *)
(***************************************************************************)
EXTENDS Integers, Sequences, FiniteSets, SequencesExt

CONSTANTS
    Client,
    NoUser,         \* nullptr in a user_map
    DefaultLag,     \* room::lag of a new room
    Lags,           \* the lags that are typed
    GolfRom,        \* whether the game is the one that room::on_user_join knows
    Commands,       \* the commands that are typed
    MaxEvents       \* bound: connections, commands and 500 ms ticks of the server

ASSUME LagAssumption == DefaultLag \in Nat /\ Lags \subseteq Nat
\* What a user_info may hold: inputs is input_id, which messages do not carry.
UserInfos ==
    [name : Client, lag : Nat, plugged : BOOLEAN, map : Nat, authority : Nat, inputs : Nat]

\* A null pointer is no user.
ASSUME NoUserAssumption == NoUser \notin Client /\ NoUser \notin UserInfos
ASSUME GolfRomAssumption == GolfRom \in BOOLEAN

VARIABLES
    slots,      \* server: room::user_map; <<>> when there is no room
    room,       \* server: the other members of class room
    info,       \* server: info[c], the user_info of c's user
    manual,     \* server: the users with manual_map
    driving,    \* server: the users with has_authority
    serving,    \* server: serving[c], how far c's user has come
    link,       \* client: link[c], how far c's connection has come
    users,      \* client: users[c], its user_map
    me,         \* client: me[c], the position of me
    golf,       \* client: golf[c]
    started,    \* client: started[c]
    typed,      \* history: the commands c typed on its connection
    toServer,   \* toServer[c]: messages the server has not handled
    toClient,   \* toClient[c]: messages client c has not handled
    events      \* bound: connections, commands and ticks so far

serverVars == <<slots, room, info, manual, driving>>
clientVars == <<users, me, golf, started>>
vars == <<slots, room, info, manual, driving, serving, link, users, me, golf, started,
          typed, toServer, toClient, events>>

-----------------------------------------------------------------------------
(* Data. *)

NewRoom == [started |-> FALSE, lag |-> DefaultLag, autolag |-> TRUE, golf |-> FALSE]

\* An input_map: 0 is empty, 1 to 4 the port a user's controller is mapped to,
\* Typed one that was typed, Identity that of a game played alone.
Typed == 5
Identity == 6

UserInfo(c) ==
    [name |-> c, lag |-> 0, plugged |-> TRUE, map |-> 0, authority |-> 1, inputs |-> 0]

\* A set of positions, in order.
Ordered(at) ==
    [n \in 1..Cardinality(at) |-> CHOOSE i \in at : Cardinality({j \in at : j <= i}) = n]

\* The positions of a list that have a user, in order.
Live(us) == Ordered({i \in 1..Len(us) : us[i] # NoUser})
Present(us, i) == i \in 1..Len(us) /\ us[i] # NoUser

Members == {c \in Client : serving[c] = "member"}
Pos(s, c) == CHOOSE i \in 1..Len(s) : s[i] = c
Names(s) == [n \in 1..Len(Live(s)) |-> s[Live(s)[n]]]

\* room::update_controller_map: the controllers of all users without a map of
\* their own are given the ports 1 to 4 in turn.
Earlier(s, c, inf, man) ==
    {d \in {s[i] : i \in 1..Pos(s, c)} \ ({NoUser, c} \cup man) : inf[d].plugged}
ControllerMap(s, inf, man) ==
    [c \in Client |->
        IF c \notin {s[i] : i \in 1..Len(s)} \ man THEN inf[c]
        ELSE LET port == Cardinality(Earlier(s, c, inf, man)) + 1
             IN  [inf[c] EXCEPT !.map = IF inf[c].plugged /\ port <= 4 THEN port ELSE 0]]

-----------------------------------------------------------------------------
(* Messages.  Those that list users carry the server's list for the         *)
(* properties; no handler reads it.                                          *)

Message(type) == [type |-> type]
Lag(lag, ids) == [type |-> "LAG", lag |-> lag, ids |-> ids]
Controllers(s, inf) ==
    [type |-> "CONTROLLERS", list |-> s,
     records |-> [i \in 1..Len(Names(s)) |->
                    [plugged |-> inf[Names(s)[i]].plugged, map |-> inf[Names(s)[i]].map]]]
Latency(s) == [type |-> "LATENCY", list |-> s]
Authority(type, u, a) == [type |-> type, user |-> u, authority |-> a]
Input(u, first, n) == [type |-> "INPUT_DATA", user |-> u, first |-> first, count |-> n]

\* The ids a message names, each of which its handler looks up in user_map.
NamedBy(m) ==
    CASE m.type = "LAG" -> m.ids
      [] m.type \in {"QUIT", "NAME", "INPUT_MAP", "INPUT_DATA"} -> {m.user}
      [] m.type \in {"REQUEST_AUTHORITY", "DELEGATE_AUTHORITY"} -> {m.user, m.authority}
      [] OTHER -> {}

SendAll(to, ms) == [d \in Client |-> IF d \in to THEN toClient[d] \o ms ELSE toClient[d]]

\* What client c's user_map us becomes when it handles m.  CONTROLLERS is read
\* by position: the n-th record belongs to the n-th user of the list.
Apply(us, m) ==
    CASE m.type = "ACCEPT" -> m.users
      [] m.type = "JOIN" -> Append(us, m.info)
      [] m.type = "QUIT" -> [us EXCEPT ![m.user] = NoUser]
      [] m.type = "LAG" ->
           [i \in 1..Len(us) |-> IF i \in m.ids THEN [us[i] EXCEPT !.lag = m.lag] ELSE us[i]]
      [] m.type = "INPUT_MAP" ->
           IF us[m.user] = NoUser THEN us ELSE [us EXCEPT ![m.user].map = m.map]
      [] m.type = "CONTROLLERS" ->
           [i \in 1..Len(us) |->
              IF us[i] = NoUser THEN NoUser
              ELSE LET n == Cardinality({j \in 1..i : us[j] # NoUser})
                   IN  [us[i] EXCEPT !.plugged = m.records[n].plugged,
                                     !.map = m.records[n].map]]
      [] OTHER -> us

-----------------------------------------------------------------------------
(* The parts of client handlers. *)

\* change_input_authority for each <<user, authority>> of the sequence: what
\* becomes of the client's user_map, and what it sends.
NewAuthority(us, i, pairs) ==
    [j \in 1..Len(us) |->
        LET mine == {p \in Range(pairs) : p[1] = j}
        IN  IF us[j] # NoUser /\ us[j].authority = i /\ mine # {}
            THEN [us[j] EXCEPT !.authority = (CHOOSE p \in mine : TRUE)[2]]
            ELSE us[j]]
AuthorityMessages(us, i, pairs) ==
    LET told == Live([n \in 1..Len(pairs) |->
                        IF us[pairs[n][1]].authority = pairs[n][2] THEN NoUser ELSE n])
    IN  [n \in 1..Len(told) |->
            LET u == pairs[told[n]][1]
            IN  Authority(IF us[u].authority = i THEN "DELEGATE_AUTHORITY"
                          ELSE "REQUEST_AUTHORITY", u, pairs[told[n]][2])]

\* send_input, n times for the user at position u.
Extended(us, u, n) == [us EXCEPT ![u].inputs = @ + n]

\* client::close: the connection is gone and the client alone in its list.
\* What it had sent may still arrive.
CloseClient(c) ==
    /\ link' = [link EXCEPT ![c] = "closed"]
    /\ LET mine == users[c][me[c]]
       IN  users' = [users EXCEPT ![c] =
                        <<[mine EXCEPT !.lag = 0, !.authority = 1, !.inputs =
                             IF started[c] THEN mine.inputs + 1 ELSE mine.inputs]>>]
    /\ me' = [me EXCEPT ![c] = 1]
    /\ typed' = [typed EXCEPT ![c] = {}]
    /\ toClient' = [toClient EXCEPT ![c] = <<>>]
    /\ \E arrives \in {<<>>, toServer[c]} :
         toServer' = [toServer EXCEPT ![c] =
                        IF serving[c] = "none" THEN <<>> ELSE Append(arrives, Message("EOF"))]
    /\ UNCHANGED <<golf, started>>

-----------------------------------------------------------------------------
(* client: connecting. *)

Happens == events < MaxEvents /\ events' = events + 1

\* server::accept: a user without a room.
Accept(c) == serving[c] = "none" /\ serving' = [serving EXCEPT ![c] = "open"]

\* /join and /host: the TCP connection is made at once, and the port query sent.
Connect(c) ==
    /\ link[c] = "closed" /\ ~started[c]
    /\ Accept(c)
    /\ Happens
    /\ link' = [link EXCEPT ![c] = "query"]
    /\ users' = [users EXCEPT ![c][1].lag = 0]
    /\ UNCHANGED <<serverVars, me, golf, started, typed, toServer, toClient>>

\* The handler given to query_udp_port.
SendJoin(c) ==
    /\ link[c] = "query"
    /\ link' = [link EXCEPT ![c] = "joined"]
    /\ toServer' = [toServer EXCEPT ![c] =
                      Append(@, [type |-> "JOIN", info |-> users[c][me[c]]])]
    /\ UNCHANGED <<serverVars, clientVars, serving, typed, toClient, events>>

-----------------------------------------------------------------------------
(* client::on_message and the other things a user does. *)

Types(c, command) ==
    /\ command \in Commands
    /\ Happens

\* A command of an open connection: what it sends and its effect on the list.
Tell(c, command, us, ms) ==
    /\ Types(c, command) /\ link[c] # "closed"
    /\ users' = [users EXCEPT ![c] = us]
    /\ toServer' = [toServer EXCEPT ![c] = IF serving[c] = "none" THEN @ ELSE @ \o ms]
    /\ typed' = [typed EXCEPT ![c] = @ \cup {command}]
    /\ UNCHANGED <<serverVars, serving, link, me, started, toClient>>

\* /lag (mine and theirs), /my_lag and /your_lag.
LagCommand(c) ==
    /\ \E lag \in Lags, mine, theirs \in BOOLEAN :
         /\ mine \/ theirs
         /\ Tell(c, "lag",
                 IF mine THEN [users[c] EXCEPT ![me[c]].lag = lag] ELSE users[c],
                 (IF theirs THEN <<[type |-> "AUTOLAG", value |-> 0]>> ELSE <<>>)
                 \o <<[type |-> "LAG", lag |-> lag, mine |-> mine, theirs |-> theirs]>>)
    /\ UNCHANGED golf

AutolagCommand(c) ==
    /\ Tell(c, "autolag", users[c], <<[type |-> "AUTOLAG", value |-> -1]>>)
    /\ UNCHANGED golf

\* /golf: every user's input is asked for, or given back.
GolfCommand(c) ==
    LET on == ~golf[c]
        live == Live(users[c])
        pairs == [n \in 1..Len(live) |-> <<live[n], IF on THEN me[c] ELSE live[n]>>]
    IN  /\ golf' = [golf EXCEPT ![c] = on]
        /\ Tell(c, "golf", NewAuthority(users[c], me[c], pairs),
                <<[type |-> "GOLF", golf |-> on]>> \o AuthorityMessages(users[c], me[c], pairs))

MapCommand(c) ==
    /\ users[c][me[c]].map # Typed
    /\ Tell(c, "map", [users[c] EXCEPT ![me[c]].map = Typed],
            <<[type |-> "INPUT_MAP", map |-> Typed]>>)
    /\ UNCHANGED golf

AuthCommand(c) ==
    /\ \E u, a \in Range(Live(users[c])) :
         /\ users[c][u].authority # a
         /\ Tell(c, "auth", NewAuthority(users[c], me[c], <<<<u, a>>>>),
                 AuthorityMessages(users[c], me[c], <<<<u, a>>>>))
    /\ UNCHANGED golf

\* /name, and a line of chat: the message names its sender.
NameCommand(c) ==
    /\ Tell(c, "name", users[c], <<Message("NAME")>>)
    /\ UNCHANGED golf

\* set_src_controllers, after the plugin's configuration dialog.
PlugControllers(c) ==
    /\ Tell(c, "plug", [users[c] EXCEPT ![me[c]].plugged = ~@],
            <<[type |-> "CONTROLLERS", plugged |-> ~users[c][me[c]].plugged]>>)
    /\ UNCHANGED golf

StartCommand(c) ==
    /\ ~started[c]
    /\ Tell(c, "start", users[c], <<Message("START")>>)
    /\ UNCHANGED golf

\* /start without a connection: the game is played alone.
StartAlone(c) ==
    /\ Types(c, "start") /\ link[c] = "closed" /\ ~started[c]
    /\ started' = [started EXCEPT ![c] = TRUE]
    /\ users' = [users EXCEPT ![c][1].map = Identity, ![c][1].lag = 0]
    /\ UNCHANGED <<serverVars, serving, link, me, golf, typed, toServer, toClient>>

\* The user leaves, or the connection fails.
Leave(c) ==
    /\ Types(c, "close") /\ link[c] # "closed"
    /\ CloseClient(c)
    /\ UNCHANGED <<serverVars, serving>>

-----------------------------------------------------------------------------
(* client::on_receive. *)

Receives(c, types) ==
    link[c] # "closed" /\ toClient[c] # <<>> /\ Head(toClient[c]).type \in types

Consume(c) == toClient' = [toClient EXCEPT ![c] = Tail(@)]

ReceiveEof(c) ==
    /\ Receives(c, {"EOF"})
    /\ CloseClient(c)
    /\ UNCHANGED <<serverVars, serving, events>>

\* Messages that only change the user list, and LATENCY and NAME, whose values
\* matter to nothing else.
ReceiveView(c) ==
    /\ Receives(c, {"JOIN", "LAG", "CONTROLLERS", "INPUT_MAP", "LATENCY", "NAME"})
    /\ Consume(c)
    /\ users' = [users EXCEPT ![c] = Apply(@, Head(toClient[c]))]
    /\ UNCHANGED <<serverVars, serving, link, me, golf, started, typed, toServer, events>>

\* ACCEPT: the list is the server's, and the last one in it is me.
ReceiveAccept(c) ==
    /\ Receives(c, {"ACCEPT"})
    /\ Consume(c)
    /\ users' = [users EXCEPT ![c] = Apply(@, Head(toClient[c]))]
    /\ me' = [me EXCEPT ![c] = Len(Head(toClient[c]).users)]
    /\ UNCHANGED <<serverVars, serving, link, golf, started, typed, toServer, events>>

\* QUIT (remove_user): authority over my input comes back if the quitter had it.
ReceiveQuit(c) ==
    /\ Receives(c, {"QUIT"})
    /\ Consume(c)
    /\ LET us == Apply(users[c], Head(toClient[c]))
           i == me[c]
           n == IF started[c] THEN 1 ELSE 0
       IN  IF us[i].authority # Head(toClient[c]).user
           THEN users' = [users EXCEPT ![c] = us] /\ UNCHANGED toServer
           ELSE /\ users' = [users EXCEPT ![c] =
                               Extended([us EXCEPT ![i].authority = i], i, n)]
                /\ toServer' = [toServer EXCEPT ![c] =
                     @ \o <<Authority("DELEGATE_AUTHORITY", i, i)>>
                       \o (IF n = 0 THEN <<>> ELSE <<Input(i, us[i].inputs, n)>>)]
    /\ UNCHANGED <<serverVars, serving, link, me, golf, started, typed, events>>

ReceiveStart(c) ==
    /\ Receives(c, {"START"})
    /\ Consume(c)
    /\ started' = [started EXCEPT ![c] = TRUE]
    /\ UNCHANGED <<serverVars, serving, link, users, me, golf, typed, toServer, events>>

ReceiveGolf(c) ==
    /\ Receives(c, {"GOLF"})
    /\ Consume(c)
    /\ golf' = [golf EXCEPT ![c] = Head(toClient[c]).golf]
    /\ UNCHANGED <<serverVars, serving, link, users, me, started, typed, toServer, events>>

\* INPUT_DATA: taken if it is the next input of that user.
ReceiveInput(c) ==
    /\ Receives(c, {"INPUT_DATA"})
    /\ Consume(c)
    /\ LET m == Head(toClient[c])
       IN  users' = [users EXCEPT ![c] =
                       IF @[m.user] # NoUser /\ @[m.user].inputs = m.first
                       THEN Extended(@, m.user, m.count) ELSE @]
    /\ UNCHANGED <<serverVars, serving, link, me, golf, started, typed, toServer, events>>

\* REQUEST_AUTHORITY and DELEGATE_AUTHORITY, which sends two inputs at once.
ReceiveAuthority(c) ==
    /\ Receives(c, {"REQUEST_AUTHORITY", "DELEGATE_AUTHORITY"})
    /\ Consume(c)
    /\ LET m == Head(toClient[c])
           u == m.user
           us == [users[c] EXCEPT ![u].authority = m.authority]
       IN  IF ~(Present(users[c], u) /\ Present(users[c], m.authority))
           THEN UNCHANGED <<users, toServer>>
           ELSE IF m.type = "REQUEST_AUTHORITY"
           THEN IF users[c][u].authority # me[c] \/ m.authority = me[c]
                THEN UNCHANGED <<users, toServer>>
                ELSE /\ users' = [users EXCEPT ![c] = us]
                     /\ toServer' = [toServer EXCEPT ![c] =
                          Append(@, Authority("DELEGATE_AUTHORITY", u, m.authority))]
           ELSE IF m.authority # me[c]
           THEN users' = [users EXCEPT ![c] = us] /\ UNCHANGED toServer
           ELSE /\ users' = [users EXCEPT ![c] = Extended(us, u, 2)]
                /\ toServer' = [toServer EXCEPT ![c] = Append(@, Input(u, us[u].inputs, 2))]
    /\ UNCHANGED <<serverVars, serving, link, me, golf, started, typed, events>>

-----------------------------------------------------------------------------
(* server, room and user. *)

\* Mutant of Farewell: the controllers of those who stay come before the QUIT.
FarewellLate(i, s, inf) ==
    (IF room.started THEN <<>> ELSE <<Controllers(s, inf)>>)
    \o <<[type |-> "QUIT", user |-> i]>>

\* Mutant of Farewell: the maps are recomputed but not sent.
FarewellBare(i, s, inf) == <<[type |-> "QUIT", user |-> i]>>

\* What those who stay are sent about the user who was at position i.
Farewell(i, s, inf) ==
    <<[type |-> "QUIT", user |-> i]>>
    \o IF room.started THEN <<>> ELSE <<Controllers(s, inf)>>

\* room::close, of the last to leave, and server::on_room_close.
CloseRoom == slots' = <<>> /\ room' = NewRoom

\* The connection of c's user ends: room::on_user_quit.  The last one to leave
\* closes the room.  down is what c itself is still sent.
Drop(c, down) ==
    LET left == Members \ {c}
        s == [i \in 1..Len(slots) |-> IF slots[i] = c THEN NoUser ELSE slots[i]]
        inf == IF room.started THEN info ELSE ControllerMap(s, info, manual)
    IN  /\ serving' = [serving EXCEPT ![c] = "none"]
        /\ toServer' = [toServer EXCEPT ![c] = <<>>]
        /\ manual' = manual \ {c}
        /\ driving' = driving \ {c}
        /\ IF c \notin Members
           THEN /\ toClient' = [toClient EXCEPT ![c] = down]
                /\ UNCHANGED <<slots, room, info>>
           ELSE IF left = {}
           THEN /\ CloseRoom
                /\ toClient' = [toClient EXCEPT ![c] = down]
                /\ UNCHANGED info
           ELSE /\ slots' = s /\ info' = inf
                /\ toClient' = [SendAll(left, Farewell(Pos(slots, c), s, inf)) EXCEPT ![c] = down]
                /\ UNCHANGED room

Hangup(c) == IF link[c] = "closed" THEN <<>> ELSE Append(toClient[c], Message("EOF"))

ServerEof(c) ==
    /\ serving[c] # "none" /\ toServer[c] # <<>> /\ Head(toServer[c]).type = "EOF"
    /\ Drop(c, <<>>)
    /\ UNCHANGED <<clientVars, link, typed, events>>

\* Before the user has a room, every packet but JOIN ends the connection.
ServerNotJoined(c) ==
    /\ serving[c] \in {"open", "query"} /\ toServer[c] # <<>>
    /\ Head(toServer[c]).type \notin {"JOIN", "EOF"}
    /\ Drop(c, Hangup(c))
    /\ UNCHANGED <<clientVars, link, typed, events>>

\* JOIN: the room is entered when the server's own port query is done.
ServerJoin(c) ==
    /\ serving[c] = "open" /\ toServer[c] # <<>> /\ Head(toServer[c]).type = "JOIN"
    /\ serving' = [serving EXCEPT ![c] = "query"]
    /\ info' = [info EXCEPT ![c] = [Head(toServer[c]).info EXCEPT !.inputs = 0]]
    /\ toServer' = [toServer EXCEPT ![c] = Tail(@)]
    /\ UNCHANGED <<slots, room, manual, driving, clientVars, link, typed, toClient, events>>

\* Mutant of Refuses: a user who comes after the start is let in.
RefusesOther(other) == other /\ slots # <<>>

\* Who is turned away: a user with another game than the room's, and one who
\* comes after the start.
Refuses(other) == room.started \/ (other /\ slots # <<>>)

\* Mutant of Refuse: the user is told, but its connection stays open.
RefuseOnly(c) ==
    /\ serving' = [serving EXCEPT ![c] = "open"]
    /\ UNCHANGED <<serverVars, toServer, toClient>>

Refuse(c) == Drop(c, Hangup(c))

\* Mutant of Entered: the id is the number of users, as if nobody had left.
EnteredCompact(c) == Append(Names(slots), c)

\* The new user's place is after all there ever were.
Entered(c) == Append(slots, c)

\* Mutant of Announcement: JOIN comes after the messages that name the user.
AnnouncementLate(new, common) == common \o <<[type |-> "JOIN", info |-> new]>>

\* What the others are sent about a new user, and what it is sent itself.
Announcement(new, common) == <<[type |-> "JOIN", info |-> new]>> \o common

\* Mutant of Greeting: the golf flag is not sent.
GreetingBare(all, common, on) == <<[type |-> "ACCEPT", users |-> all]>> \o common

Greeting(all, common, on) ==
    <<[type |-> "ACCEPT", users |-> all]>> \o common \o <<[type |-> "GOLF", golf |-> on]>>

\* server::on_user_join and room::on_user_join.
EnterRoom(c, other) ==
    LET s == Entered(c)
        new == [info[c] EXCEPT !.authority = Len(s)]
        inf == ControllerMap(s, [info EXCEPT ![c] = [new EXCEPT !.lag = room.lag]], manual)
        all == [i \in 1..Len(s) |->
                  IF s[i] = NoUser THEN NoUser
                  ELSE [(IF s[i] = c THEN new ELSE info[s[i]]) EXCEPT !.inputs = 0]]
        common == <<Lag(room.lag, {Len(s)}), Controllers(s, inf)>>
        on == room.golf \/ GolfRom
    IN  IF Refuses(other)
        THEN Refuse(c)
        ELSE /\ slots' = s /\ info' = inf
             /\ room' = [room EXCEPT !.golf = on]
             /\ driving' = driving \cup {c}
             /\ serving' = [serving EXCEPT ![c] = "member"]
             /\ toClient' = [SendAll(Members, Announcement(new, common))
                             EXCEPT ![c] = @ \o Greeting(all, common, on)]
             /\ UNCHANGED <<manual, toServer>>

JoinRoom(c) ==
    /\ serving[c] = "query"
    /\ \E other \in BOOLEAN : EnterRoom(c, other)
    /\ UNCHANGED <<clientVars, link, typed, events>>

Handles(c, type) ==
    /\ serving[c] = "member" /\ toServer[c] # <<>> /\ Head(toServer[c]).type = type
    /\ toServer' = [toServer EXCEPT ![c] = Tail(@)]
    /\ UNCHANGED <<clientVars, serving, link, typed, events>>

\* Mutant of SetRoomLag: the one who typed it is not left out.
SetRoomLagAll(inf, lag, source) ==
    [c \in Client |-> IF c \in Members THEN [inf[c] EXCEPT !.lag = lag] ELSE inf[c]]

\* room::set_lag: the lag of the room and of everybody but source.
SetRoomLag(inf, lag, source) ==
    [c \in Client |-> IF c \in Members \ source THEN [inf[c] EXCEPT !.lag = lag] ELSE inf[c]]

ServerLag(c) ==
    /\ Handles(c, "LAG")
    /\ LET m == Head(toServer[c])
           mine == IF m.mine THEN [info EXCEPT ![c].lag = m.lag] ELSE info
           others == {Pos(slots, d) : d \in Members \ {c}}
       IN  /\ info' = IF m.theirs THEN SetRoomLag(mine, m.lag, {c}) ELSE mine
           /\ room' = IF m.theirs THEN [room EXCEPT !.lag = m.lag] ELSE room
           /\ toClient' = SendAll(Members,
                (IF m.mine THEN <<Lag(m.lag, {Pos(slots, c)})>> ELSE <<>>)
                \o (IF m.theirs THEN <<Lag(m.lag, others)>> ELSE <<>>))
    /\ UNCHANGED <<slots, manual, driving>>

ServerAutolag(c) ==
    /\ Handles(c, "AUTOLAG")
    /\ room' = [room EXCEPT !.autolag = IF Head(toServer[c]).value = 0 THEN FALSE ELSE ~@]
    /\ UNCHANGED <<slots, info, manual, driving, toClient>>

ServerControllers(c) ==
    /\ Handles(c, "CONTROLLERS")
    /\ LET inf == [info EXCEPT ![c].plugged = Head(toServer[c]).plugged]
       IN  info' = IF room.started THEN inf ELSE ControllerMap(slots, inf, manual)
    /\ toClient' = SendAll(Members, <<Controllers(slots, info')>>)
    /\ UNCHANGED <<slots, room, manual, driving>>

ServerStart(c) ==
    /\ Handles(c, "START")
    /\ room' = [room EXCEPT !.started = TRUE]
    /\ toClient' = IF room.started THEN toClient ELSE SendAll(Members, <<Message("START")>>)
    /\ UNCHANGED <<slots, info, manual, driving>>

\* GOLF: a change is passed on to the others.
ServerGolf(c) ==
    /\ Handles(c, "GOLF")
    /\ LET on == Head(toServer[c]).golf
       IN  /\ room' = [room EXCEPT !.golf = on]
           /\ toClient' = IF on = room.golf THEN toClient
                          ELSE SendAll(Members \ {c}, <<[type |-> "GOLF", golf |-> on]>>)
    /\ UNCHANGED <<slots, info, manual, driving>>

ServerMap(c) ==
    /\ Handles(c, "INPUT_MAP")
    /\ info' = [info EXCEPT ![c].map = Head(toServer[c]).map]
    /\ manual' = manual \cup {c}
    /\ toClient' = SendAll(Members \ {c},
         <<[type |-> "INPUT_MAP", user |-> Pos(slots, c), map |-> Head(toServer[c]).map]>>)
    /\ UNCHANGED <<slots, room, driving>>

ServerName(c) ==
    /\ Handles(c, "NAME")
    /\ toClient' = SendAll(Members \ {c}, <<[type |-> "NAME", user |-> Pos(slots, c)]>>)
    /\ UNCHANGED serverVars

\* INPUT_DATA: accepted if it is next, and relayed.
ServerInput(c) ==
    /\ Handles(c, "INPUT_DATA")
    /\ LET m == Head(toServer[c])
           u == slots[m.user]
       IN  IF u # NoUser /\ info[u].inputs = m.first
           THEN /\ info' = [info EXCEPT ![u].inputs = @ + m.count]
                /\ toClient' = SendAll(Members \ {c}, <<m>>)
           ELSE UNCHANGED <<info, toClient>>
    /\ UNCHANGED <<slots, room, manual, driving>>

\* Mutant of Holders: has_authority is cleared and not set again.
HoldersCleared(inf) == {}

\* The members who have authority over anybody.
Holders(inf) == {slots[inf[d].authority] : d \in Members} \ {NoUser}

\* REQUEST_AUTHORITY and DELEGATE_AUTHORITY, which also sets has_authority anew.
ServerAuthority(c, type) ==
    /\ Handles(c, type)
    /\ LET m == Head(toServer[c])
           inf == [info EXCEPT ![slots[m.user]].authority = m.authority]
       IN  IF NoUser \in {slots[m.user], slots[m.authority]}
           THEN UNCHANGED <<info, driving, toClient>>
           ELSE /\ toClient' = SendAll(Members \ {c}, <<m>>)
                /\ IF type = "REQUEST_AUTHORITY" THEN UNCHANGED <<info, driving>>
                   ELSE /\ info' = inf
                        /\ driving' = Holders(inf)
    /\ UNCHANGED <<slots, room, manual>>

\* server::on_tick: latencies, and the lag one closer to the ideal if some user
\* has authority and so an input rate.
Tick ==
    /\ slots # <<>>
    /\ Happens
    /\ \E lag \in {room.lag - 1, room.lag, room.lag + 1} \cap Nat :
         IF lag = room.lag
         THEN toClient' = SendAll(Members, <<Latency(slots)>>)
              /\ UNCHANGED <<room, info>>
         ELSE /\ room.autolag /\ room.started /\ driving # {}
              /\ room' = [room EXCEPT !.lag = lag]
              /\ info' = SetRoomLag(info, lag, {})
              /\ toClient' = SendAll(Members, <<Latency(slots),
                                                Lag(lag, {Pos(slots, d) : d \in Members})>>)
    /\ UNCHANGED <<slots, manual, driving, clientVars, serving, link, typed, toServer>>

-----------------------------------------------------------------------------
Init ==
    /\ slots = <<>>
    /\ room = NewRoom
    /\ info = [c \in Client |-> UserInfo(c)]
    /\ manual = {}
    /\ driving = {}
    /\ serving = [c \in Client |-> "none"]
    /\ link = [c \in Client |-> "closed"]
    /\ users = [c \in Client |-> <<UserInfo(c)>>]
    /\ me = [c \in Client |-> 1]
    /\ golf = [c \in Client |-> FALSE]
    /\ started = [c \in Client |-> FALSE]
    /\ typed = [c \in Client |-> {}]
    /\ toServer = [c \in Client |-> <<>>]
    /\ toClient = [c \in Client |-> <<>>]
    /\ events = 0

Command(c) ==
    \/ LagCommand(c) \/ AutolagCommand(c) \/ GolfCommand(c) \/ MapCommand(c)
    \/ AuthCommand(c) \/ NameCommand(c) \/ PlugControllers(c)
    \/ StartCommand(c) \/ StartAlone(c) \/ Leave(c)

Receive(c) ==
    \/ ReceiveEof(c) \/ ReceiveView(c) \/ ReceiveAccept(c) \/ ReceiveQuit(c)
    \/ ReceiveStart(c) \/ ReceiveGolf(c) \/ ReceiveInput(c) \/ ReceiveAuthority(c)

Serve(c) ==
    \/ ServerEof(c) \/ ServerNotJoined(c) \/ ServerJoin(c)
    \/ ServerLag(c) \/ ServerAutolag(c) \/ ServerControllers(c) \/ ServerStart(c)
    \/ ServerGolf(c) \/ ServerMap(c) \/ ServerName(c) \/ ServerInput(c)
    \/ ServerAuthority(c, "REQUEST_AUTHORITY") \/ ServerAuthority(c, "DELEGATE_AUTHORITY")

Next ==
    \/ \E c \in Client : Connect(c) \/ SendJoin(c) \/ Command(c) \/ Receive(c)
                         \/ Serve(c) \/ JoinRoom(c)
    \/ Tick

Spec == Init /\ [][Next]_vars

-----------------------------------------------------------------------------
(* Properties. *)

Listed == {c \in Members : link[c] # "closed"}

\* The user_map client c will have once it has handled what is on its way.
View(c) ==
    LET after[n \in 0..Len(toClient[c])] ==
            IF n = 0 THEN users[c] ELSE Apply(after[n - 1], toClient[c][n])
    IN  after[Len(toClient[c])]

Announced(c, type) == \E n \in 1..Len(toClient[c]) : toClient[c][n].type = type

\* Every member's list, once it has handled what is on its way, has the room's
\* users in the room's places: ids mean the same to all.  After ACCEPT, me is
\* the member itself.
UserMapsAgree ==
    \A c \in Listed :
        LET v == View(c)
        IN  /\ Len(v) = Len(slots)
            /\ \A i \in 1..Len(v) : IF slots[i] = NoUser THEN v[i] = NoUser
                                    ELSE v[i].name = slots[i]
            /\ me[c] = Pos(slots, c) \/ Announced(c, "ACCEPT")

\* No message names a user its handler would not find: LAG, NAME and QUIT use
\* the pointer without a test.
NamedUsersPresent ==
    \A c \in Listed : Receives(c, {"LAG", "NAME", "QUIT", "INPUT_MAP"}) =>
        \A i \in NamedBy(Head(toClient[c])) : Present(users[c], i)

\* A list without ids is handled by a client whose own list has the same users
\* in the same order.
PositionsMatch ==
    \A c \in Listed : Receives(c, {"CONTROLLERS", "LATENCY"}) =>
        LET us == users[c]
            s == Head(toClient[c]).list
        IN  /\ Len(us) = Len(s)
            /\ \A i \in 1..Len(s) : IF s[i] = NoUser THEN us[i] = NoUser
                                    ELSE us[i] # NoUser /\ us[i].name = s[i]

Pending(c, type) == \E n \in 1..Len(toServer[c]) : toServer[c][n].type = type

\* Every member ends with the server's lag of every user, whoever changed it
\* and however changes crossed: the server answers even the one who asked.
LagsAgree ==
    \A c \in Listed : LET v == View(c) IN
        \A i \in Range(Live(v)) :
            v[i].lag = info[slots[i]].lag \/ (slots[i] = c /\ Pending(c, "LAG"))

\* The same for controllers and maps, except for a map one typed oneself.
MapsAgree ==
    \A c \in Listed : LET v == View(c) IN
        \A i \in Range(Live(v)) :
            \/ slots[i] = c /\ (Pending(c, "CONTROLLERS") \/ "map" \in typed[c])
            \/ /\ v[i].map = info[slots[i]].map
               /\ v[i].plugged = info[slots[i]].plugged

\* The golf flag client c will have once it has handled what is on its way.
GolfTold(c) ==
    LET at == {n \in 1..Len(toClient[c]) : toClient[c][n].type = "GOLF"}
    IN  IF at = {} THEN golf[c]
        ELSE toClient[c][CHOOSE n \in at : \A k \in at : k <= n].golf

\* Whoever never typed /golf ends with the room's golf flag.  (With GolfRom it
\* fails: a JOIN sets the flag again and tells the new user alone.)
GolfFollows == \A c \in Listed : "golf" \notin typed[c] => GolfTold(c) = room.golf

\* A game starts for all or for none: in a started room every member has
\* started or is about to, and a client starts only with its room.
StartedTogether ==
    \A c \in Listed :
        room.started <=> (started[c] \/ Announced(c, "START"))

\* Nobody waits for an answer that will not come: whoever has asked to join is
\* a member, is being served, or will see the connection closed.
JoinAnswered ==
    \A c \in Client : link[c] = "joined" =>
        \/ serving[c] \in {"query", "member"}
        \/ serving[c] = "open" /\ Pending(c, "JOIN")
        \/ Announced(c, "EOF")

Quiet == \A c \in Client : toServer[c] = <<>> /\ toClient[c] = <<>>

\* Once nothing is on its way, every member has the number of inputs that the
\* server has of every user, so that it can take the next one.
StreamsShared ==
    Quiet => \A c \in Listed : \A i \in Range(Live(users[c])) :
                users[c][i].inputs = info[slots[i]].inputs

\* While users are in the room somebody has authority, for autolag to follow.
AutolagSource == Quiet /\ Listed # {} => driving # {}
=============================================================================
