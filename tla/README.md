# NetplayInputPlugin in TLA+

NetplayInputPlugin lets several users play one Nintendo 64 game over the
network. Every user's emulator runs the same game in lockstep: a frame is
computed only when the inputs of all users for that frame are known, and a
server relays inputs between them. If two emulators ever see different inputs,
or one input never arrives, the game is over. The modules here model that core,
the room it starts from, the threads it runs on and the connections under it;
TLC checks them on small instances, and TLAPS proves most of their safety
properties for all sizes.

All paths are relative to `src/NetplayInputPlugin/`.

## 1. The system

| Component | State | Operations | Must be true |
|---|---|---|---|
| **Client, lockstep loop** (`client.cpp`, `user_info` in `common.h`) | `input_id` (frame), per user `input_queue`, `input_history`, `input_id`, `authority`, `lag`; `next_input`, `golf` | `process_input` (emulator thread), `on_input`, `send_input`, `change_input_authority`, handlers of INPUT_DATA, REQUEST_AUTHORITY, DELEGATE_AUTHORITY, QUIT; `/auth`, `/golf` | all clients feed the same inputs to the same frames; nobody runs ahead; nobody waits for ever |
| **Relay** (`user.cpp`, `room.cpp`) | `user_map`/`user_list`, per user `input_history`, `input_id`, `authority` | relays INPUT_DATA, INPUT_UPDATE, authority packets; tells members of a QUIT | an input is relayed once and in order, none about somebody who left |
| **TCP output** (`connection.cpp`) | `tcp_socket`, `tcp_output_buffer`, `flushing` | `send`, `flush`, `flush_all`, `close`, completion of `async_write` | one write at a time; packets once and in order; nothing left behind |
| **UDP output** (`connection.cpp`) | `udp_socket`, `udp_output_buffer` | `send_udp`, `flush_udp`, `close_udp`; cleared on a quit | datagrams within `MAX_UDP_SIZE`; order kept |
| **UDP port and path** (`connection.cpp`, PING/PONG) | `external_udp_port`, `udp_established` | `query_udp_port`, PING, PONG | the handler is called once and for its own connection |
| **Session** (`server.cpp`, `room.cpp`, `client.cpp`) | rooms, users without a room, `started` | JOIN, ACCEPT, START, QUIT, room close | every member has the same user list; nobody is left without an answer |
| **Settings** (`room.cpp`, `user.cpp`, `client.cpp`) | `lag`, `autolag`, `golf`, controllers, maps | LAG, AUTOLAG, GOLF, CONTROLLERS, INPUT_MAP, LATENCY, ping tick | members' copies converge to the room's |
| **Packet coding** (`packet.h`) | none | variable-length integers, run-length coding, transposition | decoding what was encoded gives it back |
| **Input merging** (`on_input`, `update_controller_map`) | none | union of buttons, scaled analog axes, port assignment | the same for every client; axes in range |
| **Client threads** (`common.h`, `client.cpp`, `client_dialog.cpp`) | `started`, `next_input`, service queue, the dialog's thread | `run`, `wait_until_start`, `stop`, `destroy` | no thread waits for what never comes |
| **Emulator plugin** (`netplay_input_plugin.cpp`) | `my_client`, `my_plugin` | GetKeys, DllConfig, RomOpen, RomClosed and call-throughs | every call returns |
| **Server list, external address** (`client.cpp`) | `public_servers` | one-shot queries | each ends |
| **What dialogs show, settings file** | | Win32 user interface | outside the core |

How they interact. The emulator thread calls `process_input` for a frame; its
body runs on the client's service thread (`service_wrapper::run`), where all
packet handlers run as well, one at a time. The client extends the streams it
has authority over and sends each new input to the server over TCP, and over
UDP together with up to 12 earlier ones. The server adds it to its own copy
and writes it to every other member the same way. A client adds what is next
in the stream, ignores the rest, and wakes the emulator when every user's queue
has an input. Authority over a stream moves by packets: whoever does not have
it sends REQUEST_AUTHORITY, the holder gives it away *before* it sends
DELEGATE_AUTHORITY, and the server relays both without looking at who has
what. On a QUIT a user takes the authority over their own input back.

Before that, a client connects, asks a public server for its UDP port, and only
then sends JOIN; the server asks for a port of its own before it lets the user
into the room. ACCEPT gives the new member a copy of the user list, which the
room's later messages change: JOIN and QUIT by position, LAG, NAME and INPUT_MAP
by id, CONTROLLERS and LATENCY by the order of the list alone.

What is hard. Inputs arrive twice by two paths, one of them unreliable;
requests, delegations, golf swings and quits cross; everybody waits for
everybody; handlers and timers of closed sockets run after the object has a new
one; members change the settings while others join and leave, and each client
applies its own change first; the emulator's thread sleeps on three kinds of
events that other threads produce; the UDP buffer has size limits with several
edges. `PROJECT.json` lists each hazard at its line of code, with the
properties that cover it or the reason why none does.

## 2. Modules

| Module | Models |
|---|---|
| `Lockstep` | a started game: clients (two threads each), server, TCP and UDP channels, authority, golf, quits |
| `SharedLog` | what the relay and the clients promise: one append-only stream of inputs per user, of which everybody has a copy |
| `LockstepRefinement` | the mapping under which `Lockstep` implements `SharedLog` |
| `Connection` | the TCP output of one connection object over all sockets it has in its life |
| `UdpOutput` | the UDP output buffer and its datagrams |
| `UdpQuery` | the port query of a connection (and the pings and the external address) composed with `Connection`, whose variables it shares |
| `Room` | a room from the first connection to the start: sessions and settings on the server and in every client |
| `ClientThreads` | the emulator's thread, the service thread and the dialog's thread of one client |
| `PacketCodec` | numbers, run-length coding, histories, packets and datagrams as operators |
| `InputMerge` | merging inputs and assigning controller ports as operators |
| `Data` | samples for these operators (strings, messages, inputs and members of any length and number) and what must hold of each |
| `MCLockstep`, `MCConnection`, `MCUdpQuery`, `MCUdpOutput`, `MCRoom`, `MCClientThreads`, `MCData` | the instances TLC checks |
| `LockstepProofs` | theorems about types, queues and quits in a game |
| `StreamProofs` | the inductive invariant of streams and authority, that each move a handler consists of preserves it, and theorems about the streams, their producers and the refinement |
| `RoomProofs` | theorems about `Room` |
| `DataProofs` | the properties of `Data`, for all samples |
| `SharedLogProofs`, `ConnectionProofs`, `UdpOutputProofs`, `ClientThreadsProofs` | theorems about the modules they are named for; `ConnectionProofs` also about `UdpQuery` |

Definitions named *Mutant of X* are a plausible bug in X (a lost guard, a
missing reset). No specification uses them; they are there to show that each
property would notice.

### Lockstep

| State | In the code |
|---|---|
| `members`, `present[c]` | `user_list` of the room and of client c |
| `srvLog[u]`, `log[c][u]` | all inputs `add_input_history` took, on the server and in client c; `user_info::input_id` is its length, `input_history` its last `HistoryLength` |
| `queue[c][u]` | `input_queue` |
| `srvAuth[u]`, `auth[c][u]` | `user_info::authority` |
| `frame[c]`, `ready[c]` | `client::input_id`, whether `next_input` holds an element |
| `up`, `down` | TCP bytes between client and server, in order, buffers on both ends included |
| `upUdp`, `downUdp` | every datagram ever sent; any may be handled any number of times, at any time, or never |
| `pc[c]`, `todo[c]` | how far `process_input` is, and which `change_input_authority` calls of a loop are left |

Each action is one handler or one step of a thread: `ProcessInput`,
`SendInput`, `GolfSwing`, `ChangeNext`, `FinishInput` and `TakeInput` are
`process_input`; `AuthCommand` and `GolfCommand` are the commands;
`ReceiveInput`, `ReceiveDatagram`, `ReceiveDelegate`, `ReceiveRequest` and
`ReceiveQuit` are the client's handlers; `ServerInput`, `ServerDatagram`,
`ServerDelegate`, `ServerRequest` and `ServerQuit` the server's. A loop that
sends in each round is cut into its rounds, and no other handler of that client
runs in between (`ServiceIdle`), as on the single service thread.

Abstractions, each of which only adds behaviours:

- An input is a value of a small set; which one is produced is arbitrary. That
  covers INPUT_UPDATE, `pending` and `repeated_input`, which only choose values.
- `lag` and the golf flag may have any configured value at every use, which
  covers every order of the messages that set them.
- TCP packets may stay in a channel as long as they like; this covers
  `tcp_output_buffer`, the flush rule of `write_input_from` and the ticks.
- A datagram carries one INPUT_DATA. The code packs several into one datagram
  and handles them one after another, as the model may.
- Who has an established UDP path is a constant at the start. A client may lose
  it (`ReceiveOrphanDatagram`).
- `NoOrphanInput`, checked and proved, is that no INPUT_DATA about a user who is
  gone comes over TCP, where it would be misread as described below: the server
  stops relaying a user's input before it sends their QUIT, and TCP keeps the
  order.
- A loop over `user_list` visits the users in any order.
- The state of a client that quit is reset, as it plays no further part. A
  client that loses its connection and plays on alone is `ClientThreads`'.

One thing is left out that these do not cover. When a datagram is about a user
who is gone, `continue` at `client.cpp:882` reads the rest of it as further
records. If that ends in an exception, UDP is closed, which is
`ReceiveOrphanDatagram`; if it ends without one and without an input, it is as if
the datagram had been lost, which the model allows too. But the bytes may also
decode to the next input of a user who is present (a history that starts at
frame 0 begins with a 0, which is then read as that user's id, and the header of
its coding as the input's number). The model handles a packet's inputs as what
they are, so `LogsAgree` says nothing about such a misreading.

### SharedLog and the refinement

`SharedLog` has processes with copies of streams and three actions: a process
whose copy has everything appends to it (`Produce`), a process takes over part
of what another one has (`Learn`), and a process leaves with what only it had
(`Leave`). Under the mapping of `LockstepRefinement` the server and the clients
of the members are the processes and their logs the copies. That `Lockstep`
implements it (`SharedSpec`) says that only a client that has the whole stream
ever produces, however authority has moved, and everything else is copying.

### Connection

`socket` is the open socket's number, 0 when there is none; `writes` the
`async_write` operations whose handler has not run; `wire[s]` what reached the
network; `asked` (a history variable) the packets that were in the buffer at a
call of `flush`. `FlushAll` is `flush_all` at any time, or never. `Send`, `FlushAll`, `Close`, `Connect` and `WriteHandler` are the
code; `WriteSome` and `WriteError` are asio and the operating system. The
handler of a closed socket runs at any later time, also when the object has a
new socket (`WriteHandler`'s first branch is the `t != tcp_socket` check).
The server's object has one socket, the client's one more for each join.

### UdpQuery

A query is a record: the operation under way (`resolve`, `send`, `wait`),
whether its handler is due, the state of its timer, whether `handle` was called
and whether the connection still has the query's socket (`u == udp_socket`).
`Resolved`, `Sent`, `WaitHandler` and `TimerHandler` are the four completion
handlers of `query_udp_port`, which for a ping have the same shape; `CloseBoth`
and `WriteHandlerBoth` are `connection::close` with its `close_udp`, which ends
the wait. asio runs handlers that are due in any order, and a timer that has
expired can no longer be cancelled. `SendJoin` is the query's handler: the JOIN
goes into the TCP buffer of `Connection`. Whether the query was made at all
(neither side behind a router, no UDP socket) is a choice.

`OneJoin` is deliberately no more than "once, and not before its own connection
was open". The JOIN of a query may go out on the *next* connection: `close`,
`connect`, and then the old query's resolver answers, finds its socket gone, and
`handle` calls `send_join` with the old room on the new socket
(`connection.cpp:128`, `client.cpp:708`). The server then gets two JOINs and
closes the connection over the second. TLC finds this in four steps.

### Room

| State | In the code |
|---|---|
| `slots` | `room::user_map`: positions are ids and are not used again while the room lasts |
| `room`, `info[c]`, `manual`, `driving` | the room's flags and lag; each user's `user_info`; `manual_map`; `has_authority` |
| `serving[c]` | how far the server's user object is: accepted (`open`), its port query under way (`query`), `member`, or gone |
| `link[c]` | how far the client's connection is: port query, JOIN sent, or closed |
| `users[c]`, `me[c]`, `golf[c]`, `started[c]` | the client's `user_map`, `me`, `golf`, `started` |
| `toServer[c]`, `toClient[c]` | packets not handled yet, with `EOF` for the end of the connection |
| `typed[c]` | history variable: what was typed on this connection |

Every command of `on_message` is an action, so is every case of both
`on_receive` that changes state, and every answer is built from the parts the
code sends, in its order (`Announcement`, `Greeting`, `Farewell`). What the
model abstracts:

- the four controllers of a user are one that is plugged in or not, so a map is
  empty, one of four ports, typed or the identity (`PortsFilled` in `Data`
  has all four); a game is "the room's or another", a choice at the JOIN;
- a tick may move the lag by one in either direction if some user has
  authority, which covers every latency and every finite input rate;
- when a connection ends, what the client sent last arrives or does not; the
  server always notices before that client connects again;
- the inputs of a running game are `Lockstep`'s: only those that *handlers*
  send, on a delegation or a QUIT, are counted, since they may be sent in the
  lobby too.

The properties about copies (`UserMapsAgree`, `LagsAgree`, `MapsAgree`,
`GolfFollows`) speak of `View(c)`, what client c's list will be once it has
handled everything on its way; so they hold in every state and not only when
nothing is on its way. Two of them are as strong as the code allows and no
stronger:

- Two users who cross `/golf` can end up with different flags for good: each
  sets its own first, and the server tells only the others of a change, and
  only if it is one (`user.cpp:188`). Hence `GolfFollows` speaks of those who
  typed none, in a room whose game is not MarioGolf64: there every join sets the
  flag anew (`room.cpp:58`) and tells only the new user, so that members who
  were told "Golf mode is disabled" (`client.cpp:576`) keep it off, and the next
  `/golf` of the one who switched it off changes nothing on the server, which
  tells nobody. With `GolfRom = TRUE` in `room.cfg` TLC shows this as a
  violation of `GolfFollows`; the run has `GolfRom = FALSE`.
- A map one typed may be overwritten by a CONTROLLERS that was already on its
  way (`client.cpp:839`), and the server, which has it, does not send it back
  to its owner. Hence the exception in `MapsAgree`.

### ClientThreads

`plugin` is where the emulator's thread is in its call: waiting for a posted
task (`posted`, `calling`, `naming`), testing a condition with the mutex held
(`start false`, `next empty`), asleep, or tearing down (`stop`, `dialog`,
`join`). `tasks` is the service's queue; `stopped` what `service_wrapper::stop`
set, after which no task runs. `own` and `theirs` count queued inputs, only as
far as `on_input` asks. A notification wakes a sleeper at once; spurious wakeups
only test the condition again. `started` is a plain `bool` that is read without
its mutex at the top of `wait_until_start`: each call reads the value it has at
some moment, as any build that does not keep it across calls does.

### PacketCodec and InputMerge

These are operators without state. The loops of `packet.h` are recursive
functions of what is left to write or to read: `WriteRle[v]` codes the raw bytes
in front (`RawSize`, the inner loop), the run that ended them, and the rest;
`ReadRle[s]` takes one piece and the rest, or is `Thrown` where the code reads
behind the end or meets a size above `MAX_SIZE`. `Columns` and `Transpose` the two sides of a history, which the
code writes by columns and reads back by `transpose`. `Scaled` computes
`floor(x / r * 127.5)` in whole numbers; the quotient is never a whole number,
so rounding in the code's doubles cannot change the result. `Sources` shifts out
the bits of a map as `on_input` does, `Maps` is `input_map::get`.

### UdpOutput

A packet is its size. The prefix size that `send_udp` computes (`PrefixSize`)
and the one `packet::write_var` produces (`VarLength`) are modelled apart from
each other, since the code has them apart. `SendUdpFailing` is the case in
which the flush that makes room fails: `flush_udp` closes the socket and
`send_udp` goes on to fill the buffer of the closed socket; the `close` that
"/join" starts with empties it.

## 3. Runs

| Run | Instance | Checks | States |
|---|---|---|---|
| `lockstep_udp` | 2 users, 2 inputs, lag 0, history 1, UDP for both, 3 frames | `TypeOK`, `LogsAgree`, `QueueAligned`, `BoundedSkew` | 379k |
| `lockstep_commands` | 3 users, 2 inputs, 2 commands, 1 quit, no frame asked for | `SingleProducer`, `QuietAuthority`, `NoOrphanInput`, `SharedSpec` | 75k |
| `lockstep_golf` | 2 users, golf at any time, history 1, UDP for both, 1 quit, 1 frame | `SingleProducer`, `SharedSpec`, deadlock | 202k |
| `lockstep_live` | 2 users, TCP only, golf, 2 commands, 1 quit, 2 frames, fairness | `AlwaysAProducer`, `Progress`, deadlock | 202k |
| `authority_orphaned` | 3 users, 2 commands, 1 quit | `AlwaysAProducer` is violated | |
| `client_connection` | 2 connections of one object, 1 packet beside each JOIN, their 2 port queries, 1 ping, fairness | `OneWrite`, `StreamIntact`, `OneJoin`, `WrittenOrStuck`, `QueryAnswered` | 73k |
| `connection_rejoin` | 2 sockets, 2 packets, fairness | `EventuallyWritten` is violated | |
| `udp_output` | limit 508, 8 packet sizes, 4 packets | `DatagramFits`, `PacketsInOrder`, `OnlyTooBigRefused` | 19k |
| `client_threads` | 6 commands, closings or network events, fairness | `NoMissedWake`, `TaskAwaited`, `ClosingReleases`, `LossReleases`, `RomClosedReturns` | 335k |
| `room` | 3 clients, all commands, any 4 connections, commands, departures or ticks | the nine properties of `Room` but `StreamsShared` | 383k |
| `room_lobby_inputs` | the same | `StreamsShared` is violated | |
| `data` | strings of up to 5 bytes and long ones, 2 packets, inputs of 2, 64 and 65 users, 3 members | the six properties of `Data` | 15k |

Why the bounds are enough to be interesting. A history of length 1 is already
shorter than the streams, so datagrams with gaps before them occur. Two inputs
suffice to tell streams that differ. Three frames let one client be a frame
ahead while datagrams of the first frame are still around. Delegations extend
streams by two inputs each, so inputs flow also in `lockstep_commands`, where
no frame is asked for and three users and two crossing commands fit. Two
commands are what it takes for a request to meet a delegation, and three users
for a stream whose owner is neither the old nor the new holder. Symmetry is
used over the users (no definition orders them) but not in the run that checks
liveness. Runs switch the deadlock check off where the system may really
stop: in `lockstep_commands` a stream can lose its producer for good (the second
finding); a closed connection, a client whose game was closed and a room in
which nobody does anything more just stop; `data` ends with its longest sample.

Four events are few for a room, but each message is its own step: two joins
leave two more events that race with every message of the joins, which is where
the orders differ (a third user who joins between two changes, a quit during an
ACCEPT). Six events in `client_threads` get a client connected, into a room,
started and through a delegation, a loss and a closed window. Two connections
of one object are all that its stale handlers can tell apart. In `data`, the
bytes 254, 255, 0, 1, 2 reach the wrap of a rising run, five of them every
combination of runs of one to four beside raw bytes, and the long strings the
lengths at which a piece's header takes a second byte; 216 is a full history of
12 inputs of 18 bytes; sticks at -128 and 127 of two users are the edge of the
scaling, and 64 and 65 users whose four sticks all drive one port and are all
pushed to one side lie on the two sides of the edge of the 16-bit sums
(64 * 4 * -128 = -32768). The packet sizes of `udp_output` lie on both sides
of each edge: one or two prefix bytes, two packets that just fill a datagram or
miss it by one, one packet that just fits or does not.

### Fairness

`Lockstep!Fairness` is weak fairness of each client's own steps, of its TCP
handlers and of the server's handlers for it: threads run, the emulator asks
for the next frame, and TCP delivers what was sent. That includes what a
`send` without `flush` left in a buffer, and the code justifies it where inputs
go over TCP alone, as in `lockstep_live`, the only run that assumes it: at each
tick the server sends LATENCY and PING over TCP (`server.cpp:177`), and the
client answers with PONG over TCP, each of which flushes. With an established UDP
path PING and PONG are datagrams, and `client::on_tick` writes nothing over TCP
before the first frames have been timed (`client.cpp:1010`): two inputs sent on a
delegation in the lobby can stay in the buffer for as long as nobody does
anything else. Commands, quits and datagrams have no fairness.
`Connection!FairSpec` is weak fairness of the completion handlers and of a
write's progress (it may fail instead). It does not assume that anybody ever
calls `flush_all`, for the reason just given; its properties speak of what
`flush` was called for. `UdpQuery!QuerySpec` adds that asio runs the
handlers of a query that are due and that timers expire; nobody has to answer.
`ClientThreads!Spec` is weak fairness of the three threads: of the steps inside
a call, of the service's tasks and of the posted `DestroyWindow`; that the
emulator makes another call, that anybody types and that the network delivers is
not assumed. `Room` checks safety only.

### Findings

1. `connection_rejoin`: `flushing` (`connection.cpp:75`) is cleared only by the
   completion handler, after its check that the socket is still the same.
   `close` with a write in flight leaves it set, and so does `connect`: on the
   next connection every `flush` returns at once, and JOIN is never sent,
   although the dialog says "Connected!" (`client.cpp:705`). `WrittenOrStuck`,
   which `client_connection` checks, is what remains true: whatever `flush` was
   called for is written or its connection closes, unless an earlier connection was closed with
   a write in flight. On the server each connection object has one socket, and
   nothing is left behind there.
2. `authority_orphaned`: "/auth <id>  Delegate input authority to another user"
   (`client.cpp:75`) for a third user's input, to a user who quits before the
   server handles the packet. The server drops it (`user.cpp:259`), the former
   holder has already given it up, and `remove_user` takes back only the
   authority over one's own input (`client.cpp:596`). Nobody produces the third
   user's input and all clients wait. With two users, as in `lockstep_live`, a user can
   delegate only their own stream to one who quits, and `remove_user` does
   repair that.
3. `room_lobby_inputs`: `/auth` in the lobby makes the new holder send two
   inputs before the game has started (`client.cpp:924`). The members and the
   server count them, but ACCEPT and JOIN carry no inputs: whoever joins
   afterwards takes that stream for empty and, over TCP, can take none of its
   later inputs, so that the game stalls at its first frame. An UDP history that
   still holds the first inputs would help.

## 4. Proofs

All theorems hold for every value of the constants under the named assumptions
of the modules, which TLC evaluates in each run: any number of users, inputs,
lags, commands, quits and messages, where the runs have two or three. Every
inductive invariant below was first checked by TLC on the instance of the run
that checks its property.

### A started game

**`LockstepProofs`**: `TypeCorrect`; `QueueAlignedAlways`, that each client's
queue of a present user is exactly the rest of that stream from its frame on;
`NoOrphanInputAlways`. `QueueAligned` is inductive once types are known: the
only operations on log and queue append the same inputs to both, and
`on_input`, the only one that takes from a queue, takes one from each and
adds one to the frame (lemmas on `Fresh`, `SendInputs` and `OnInput` carry
this). `NoOrphanInput` speaks of the head of a channel and is not inductive.
The invariant that is (`QuitOrder`) speaks of all of `down[c]`: every member
is in `present[c]` and has no QUIT on its way, and every INPUT_DATA on its way
is about somebody in `present[c]` with no QUIT of theirs before it.

**`StreamProofs`**: `LogsAgreeAlways`, `SingleProducerAlways`,
`SharedSpecImplemented`, `QuietAuthorityAlways`, `BoundedSkewAlways`,
`AlwaysAProducerAlways`. That the
copies of a stream agree rests on who may extend it, and who may do so on what
packets are on their way, so none of these is inductive alone. The invariant is
`Streams`, in these parts:

| Part | Says | Needed because |
|---|---|---|
| `Data`, `Datagram` | copies are comparable with the server's; a packet holds a part of its sender's copy | otherwise a packet handled late could bring in other inputs |
| `Delivery` | TCP alone, handled in order, has no gap and brings a copy up to its sender's | a holder must have the whole stream when the gift reaches it |
| `Unique` | authority over a stream is held by one client, or in one gift on its way up or down | two holders would extend one stream differently |
| `Honest` | who gives another's stream away does not name itself | the server could otherwise hand back what it never had |
| `Behind` | only one client has more than the server, the holder or giver; the gift comes after all inputs | the next holder would extend a shorter copy |
| `Owner` | the owner of a stream will see who has the authority; after a QUIT of that one nothing about the stream comes | `remove_user` takes it back, and must not do so twice or too early |
| `NoFalseQuit` | no QUIT about a member is on its way | as above |

A handler may do two things to a stream, as one that takes an input and gives
the authority away. The parts are therefore stated of *values* of the variables
and the first half of the module proves, one move at a time, that learning,
producing, giving, taking, passing on, leaving and handling a packet keep them;
the second half composes the moves into each action. From the invariant:

- `SingleProducer` is a part of it, and `LogsAgree` follows from `Data`: two
  clients' copies are comparable because each is with the server's, and where
  both are longer than it, only one of them can be (`Behind`).
- The refinement: each change of a copy is a `Learn` (the part taken over is one
  that the server or the client has), or a `Produce` by one that nobody is ahead
  of (`HolderHasAll`, from `Behind`); a quit is a `Leave`. All other steps
  stutter. With **`SharedLogProofs`**' `AgreementAlways` this is a second proof
  that copies agree.
- `QuietAuthority` needs one more invariant (`Told`): while nobody has left, what
  a client will see when it has handled its packets is what the server has,
  unless that client's own gift is still on its way up.
- `BoundedSkew` is a property of games in which nobody changes authority, as it
  says of itself; the theorem's two hypotheses, no commands and no golf mode, are
  just that, and the run `lockstep_udp` is such a game. Then everyone sends their
  own input (`OwnInputs`), never further ahead of its frame than the lag
  (`InLag`), and `QueueAligned` turns the others' copies into frames.
- `AlwaysAProducer` needs the converse of `Unique`, that an authority is never
  lost (`ProducerInv`). `Produced` says where it may be: with a holder, in a gift
  on its way up or down, or with an owner who is about to handle the QUIT of
  whoever it will then see as the holder (`Back`). A gift on its way must also be
  the last word (`LastWord`): a later one, or another client's, would name
  somebody else and the gift would take effect for nobody. Since a client gives
  authority only to users it lists, the new holder is in the room or its QUIT is
  on the way to the giver (`Leaving`, `Calls`). The theorem has a hypothesis:
  nobody may leave, or there are at most two users. The second finding is what
  goes wrong otherwise: a gift of somebody else's stream to a third user, who
  leaves.

### A room

**`RoomProofs`**: `UserMapsAgreeAlways`, `NamedUsersPresentAlways`,
`PositionsMatchAlways`, `StartedTogetherAlways`, `JoinAnsweredAlways`,
`LagsAgreeAlways`, `MapsAgreeAlways`, `GolfFollowsAlways`. The first five
follow from one invariant, `RoomInv`: the server's list has each member in one
place (`Seated`), and every client is `Good`, which has three parts.

- `Session` relates how far the connection and the server's user are to what is
  on the two channels: an open connection is served, has its JOIN on the way, or
  will see an EOF; nothing is sent to a client before its user is in the room; a
  member's client has started, or has a START on its way, just if the room has.
- `Copy`: the client can handle all that is on its way, one message after
  another, and has the server's list in the end. `Reads` says this with the list
  of the *shapes* (which user is where) between the messages: each message
  `Fits` the shape it finds, that is, names users who are there and has as many
  records as there are users, and makes the next one of it (`Place`). A statement
  about the head of the channel alone (`NamedUsersPresent`, `PositionsMatch`) is
  not inductive, since what comes to the head later was sent for a later list.
- What the client sent can be handled by the server (`Sane`).

`Good` is stated of the values of one client's variables. The lemmas
`GoodSend`, `GoodReceive`, `GoodTold`, `GoodEnter`, `GoodDropped` and others say
what each kind of step does to it; an action's proof says which kind it is for
which client. `ApplyShape` proves that what a handler does to the list does to
its shape what `Place` says; `ListsRead` carries `Reads` over to `View`, whose
recursive function is shown to exist by induction on the length of the channel.

The last three are about the *values* in the lists and need a second invariant,
`ToldInv`, relative to `RoomInv`: for each member c, each user i of the room and
each field f of `Fields` (lag, map, plugged), and for the golf flag,

- the last message on its way to c that `Says` f of i says (`Said`) what the
  server has, or none does and c's list has that already (`Held`); this is
  `Ends`. Of a user the list does not have yet nothing is `Held`, so that the
  ACCEPT or the JOIN that brings it, or something after that, must say f;
- or i is c itself and c `Own`s f: it has asked for a change (`Asks`), which the
  server will answer or keep, or it typed a map.

A final value alone would not be inductive, since a message in the middle of the
channel is overtaken by whichever says f last; `Ends` names that one. `ApplySays`
proves that handling a message sets f of i to what it says and nothing else,
`ListsEnd` follows the lists through the channel (`Reads` shows that i is there
at each of them), and `ViewTold` draws the conclusion for `View`. The lemmas
`ToldSend`, `ToldReceive` and the rest are to `Told` what the `Good...` lemmas
are to `Good`; each action that sends to the room (`ServeTold`, `JoinRoomTold`,
`TickTold`, `ReceivesTold`, ...) has a lemma of its own.

`GolfFollowsAlways` has the hypothesis `~GolfRom`, which is that of the run:
with a game that `on_user_join` knows the property is false (see *Room* above).
The other two theorems have no hypothesis.

### Connections and threads

- **`ConnectionProofs`**: `TypeCorrect`, `OneWriteAlways`, `StreamIntactAlways`
  of `Connection`, and `QueryOneWrite`, `QueryStreamIntact`, `OneJoinAlways` of
  `UdpQuery`, where queries close connections and send on them. The inductive
  invariant `IInv` adds that `flushing` is set while the open socket has a write
  (the converse fails after a reconnection: the first finding), that no write
  belongs to a socket not opened yet, that writes on closed sockets have ended,
  and that the buffer is empty without a socket. `OneJoin` needs that each query
  was made on a connection opened before, and that it calls its handler only
  from a step that ends it.
- **`UdpOutputProofs`**: the three properties of the run, with
  `PrefixIsVarLength`: what `send_udp` takes for a packet's size is what
  `packet::write_var` makes of it, for all sizes up to `packet::MAX_SIZE`.
- **`ClientThreadsProofs`**: `NoMissedWakeAlways` and `TaskAwaitedAlways`. The
  first needs that the thread holds the mutex with nothing there yet
  (`NothingYet`): that is why `start_game` and `on_input` must take it. The second
  needs that the service is stopped only on the way out (`StoppedLast`), and that
  a task taken from the queue leaves every other in it (lemma `Taken`).

### Codec and merging

**`DataProofs`**: `RleRoundTripAlways`, `CodingFitsAlways`,
`DatagramRoundTripAlways`, `MergeFitsAlways`, `MergeMappedAlways`,
`PortsFilledAlways`: the six properties of `Data` for strings and histories
shorter than 4096 bytes, and for any number of messages, users and inputs. The
inductive invariant, `Sampled`, says no more than that each element of the
sample is one of the constants' and that a string stays below the limit; the
work is in the operators.

- *The recursive functions exist.* Each of `Var`, `ReadVar`, `RawRest`,
  `WriteRle`, `ReadRle` and `ReadPackets` calls itself on something smaller: a
  smaller number, or a string shorter by at least one byte, as no run and no
  piece is empty. Well-founded recursion then gives the defining equation and
  the range of each (`Recursion`, and one lemma `...Step` for each). The library states its induction for an operator, which
  the provers cannot instantiate; here it is stated for a set, that of all
  values with the property in question (`Induction`, and `BySize` for strings by
  their length).
- *Numbers.* `AfterVar` and `ReadVar` of `Var[n] \o t` are `t` and `n`, since
  exactly the last byte of `Var[n]` is below 128.
- *Round trip.* `WriteRle[v]` is raw bytes, a run and the code of the rest.
  Reading gives the raw bytes (`Piece` of type 0), then the run (of type 1, 2 or
  3, each of which restores what `Run` measured), then, by induction, the rest.
- *Length.* Below the limit a header has at most two bytes. Raw bytes cost one
  header, and are followed by a run of four or more, whose code is at least two
  bytes shorter than the run, or by the end marker; a run that no raw bytes
  precede is never shorter than its code (`RawCost`, `RunCost`).
- *Datagrams.* `Columns` puts byte b of input e at (b - 1) n + e, and
  `Transpose` reads it from there. With the round trip, a packet is read as the
  message it was made of, and by induction on their number, so are all packets
  of a datagram. 32-bit numbers enter as `Len(Var[n]) <= 5`, which bounds a
  packet below `MAX_SIZE`.
- *Merging.* `Scaled` is within a signed byte as |2x + 1| <= r, whatever the sums
  are; it is the identity where both fit. A sum of n bytes is within -128 n and
  127 n (`SumBounds`, `MapThenSumSet` by induction over finite sets), so up to 64
  users with four controllers each fit the code's 16 bits, which then keep the
  side of zero. Beyond that the sum may wrap, as in the code, and the theorem
  claims only that the result is a signed byte.
- *Ports.* Counting the controllers before one numbers all controllers of the
  users without maps of their own from 0 on, with no gap and no number twice;
  that number is the port.

### Only model-checked

- `AutolagSource` of `Room`: not proved yet. Its
  inductive invariant has to say who holds the authority over each input in the
  lobby: for every other client than the owner, that it holds it or has one
  message on its way that does, and only if it is the server's `authority`; for
  the owner, that the gifts and QUITs still to be read lead from what it believes
  to what the server believes, or to a place that is gone and whose QUIT makes it
  take its input back. That is `Lockstep`'s `SingleProducer` for the longer
  streams of `Room`, with a position that is gone in place of a quit.
- Liveness under fairness, out of its reach as well: `Progress`,
  `WrittenOrStuck`, `QueryAnswered`, `ClosingReleases`, `LossReleases`,
  `RomClosedReturns`.

## 5. Not modelled

- What the dialogs draw, the settings file, strings and addresses, the HTTP
  request for the list of servers, the entry points that pass a call through to
  the base plugin, and the vendored controller header: input and output without
  state the game depends on. (`get_external_address`, unlike the other two
  queries, uses the resolver's result without looking at its error.)
- INPUT_UPDATE and the latencies choose values (next input, lag) that `Lockstep`
  and `Room` leave open. PING and PONG set `udp_established`, a constant of
  `Lockstep`.
- The rule by which `write_input_from` flushes at once (`user.cpp:366`):
  `Lockstep` lets what is buffered leave at any later moment, so no property
  depends on it; the rule decides how late, not whether.
- The VERSION check, texts and chat, several rooms, keepalives.
- A server in a hosting client whose `close` closes rooms with users in them:
  `room::close` walks `user_list` while `on_user_quit` changes it, which is
  undefined.
- Input rates that are not finite (`room.cpp:120`).

## 6. Plan

What is left, in order of what it would show:

1. `AutolagSource`, with the invariant about authority in the lobby of section 4.
2. PING and PONG as actions of `Lockstep`, if a smaller instance makes room.
