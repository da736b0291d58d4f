--------------------------- MODULE ClientThreads ---------------------------
(***************************************************************************)
(* The three threads of a client in the emulator: the one that calls the   *)
(* plugin (GetKeys, DllConfig, RomClosed), the service thread that owns    *)
(* the client's state, and the one of the dialog.  The plugin's thread     *)
(* waits for tasks it posts to the service, for the start of the game, for *)
(* the next input, and at the end for both other threads.  The service     *)
(* runs one task or handler at a time; posted tasks run in order, and none *)
(* after stop.                                                             *)
(*                                                                         *)
(* What the tasks do to the game is kept only as far as it decides who     *)
(* waits: whether other users are in the list, and how many inputs of      *)
(* theirs and of this user are queued (Lockstep has the rest).  RomOpen is *)
(* over and the emulator has a base plugin.                                *)
(***************************************************************************)
EXTENDS Integers, Sequences, SequencesExt

CONSTANT MaxEvents  \* bound: what the person does and what the network reports

ASSUME EventsAssumption == MaxEvents \in Nat

VARIABLES
    plugin,     \* where the plugin's thread is
    tasks,      \* service: the tasks posted to it
    stopped,    \* service: stop was called
    started,    \* client: started
    next,       \* client: next_input holds an input
    link,       \* client: "none", "open" with nobody else in the list, or "room"
    mine,       \* client: me->authority is me
    own,        \* client: inputs in me->input_queue
    theirs,     \* client: inputs the slowest of the others has queued
    window,     \* dialog: "open", "closing" with DestroyWindow posted, or "gone"
    events      \* bound

clientVars == <<started, next, link, mine, own, theirs>>
vars == <<plugin, tasks, stopped, started, next, link, mine, own, theirs, window, events>>

\* Where the thread holds start_mutex or next_input_mutex, having found nothing.
HoldsStart == plugin = "start false"
HoldsNext == plugin = "next empty"

Happens == events < MaxEvents /\ events' = events + 1

-----------------------------------------------------------------------------
(* Parts of the service's handlers.  p is where the plugin's thread is but    *)
(* for the notifications.                                                     *)

\* Mutant of StartGame: started is set without start_mutex.
StartGameUnlocked(p) ==
    /\ started' = TRUE
    /\ plugin' = IF p = "start asleep" THEN "start" ELSE p

\* start_game
StartGame(p) ==
    /\ ~HoldsStart
    /\ started' = TRUE
    /\ plugin' = IF p = "start asleep" THEN "start" ELSE p

\* on_input, with o inputs of this user and t of the others, if there are any.
OnInput(p, others, o, t) ==
    IF next \/ o = 0 \/ (others /\ t = 0)
    THEN own' = o /\ theirs' = t /\ plugin' = p /\ UNCHANGED next
    ELSE /\ ~HoldsNext
         /\ own' = o - 1
         /\ theirs' = IF others THEN t - 1 ELSE t
         /\ next' = TRUE
         /\ plugin' = IF p = "next asleep" THEN "next" ELSE p

\* Mutant of CloseClient: no input is sent for the game that goes on alone.
CloseClientOnly ==
    /\ link' = "none" /\ mine' = TRUE /\ theirs' = 0
    /\ UNCHANGED <<plugin, next, own>>

\* client::close: the others are gone, and a game that runs goes on alone.
CloseClient ==
    /\ link' = "none" /\ mine' = TRUE
    /\ IF started THEN OnInput(plugin, FALSE, own + 1, 0)
       ELSE theirs' = 0 /\ UNCHANGED <<plugin, next, own>>

-----------------------------------------------------------------------------
(* The tasks. *)

\* The body of process_input: this user's input, if it is due.
InputTask ==
    /\ OnInput("next", link = "room", IF mine /\ own = 0 THEN 1 ELSE own, theirs)
    /\ UNCHANGED <<started, link, mine, window>>

\* What set_src_controllers and get_name do changes nothing here.
CallTask ==
    /\ plugin' = IF plugin = "naming" THEN "post close" ELSE "idle"
    /\ UNCHANGED <<clientVars, window>>

CloseTask == CloseClient /\ UNCHANGED <<started, window>>

\* Mutant of WindowTask: the dialog goes, and nothing starts the game.
WindowTaskOnly ==
    IF started THEN UNCHANGED <<plugin, clientVars, window>>
    ELSE /\ window' = IF window = "open" THEN "closing" ELSE window
         /\ CloseClient
         /\ UNCHANGED started

\* The close handler of the dialog: before the start, the game is played alone.
WindowTask ==
    IF started THEN UNCHANGED <<plugin, clientVars, window>>
    ELSE /\ window' = IF window = "open" THEN "closing" ELSE window
         /\ link' = "none" /\ mine' = TRUE /\ theirs' = 0
         /\ StartGame(plugin)
         /\ UNCHANGED <<next, own>>

\* /join and /host: the connection may fail.
JoinTask ==
    IF started THEN UNCHANGED <<plugin, clientVars, window>>
    ELSE /\ link' \in {"none", "open"}
         /\ mine' = TRUE /\ theirs' = 0
         /\ UNCHANGED <<plugin, started, next, own, window>>

\* /start: the server is asked, or the game is played alone.
StartTask ==
    IF started \/ link # "none" THEN UNCHANGED <<plugin, clientVars, window>>
    ELSE StartGame(plugin) /\ UNCHANGED <<next, link, mine, own, theirs, window>>

\* /auth: somebody else gets the authority over this user's input.
AuthTask ==
    /\ mine' = (mine /\ link # "room")
    /\ UNCHANGED <<plugin, started, next, link, own, theirs, window>>

\* The service thread takes the next task.
RunTask ==
    /\ ~stopped /\ tasks # <<>>
    /\ tasks' = Tail(tasks)
    /\ \/ Head(tasks) = "input" /\ InputTask
       \/ Head(tasks) = "call" /\ CallTask
       \/ Head(tasks) = "close" /\ CloseTask
       \/ Head(tasks) = "window" /\ WindowTask
       \/ Head(tasks) = "/join" /\ JoinTask
       \/ Head(tasks) = "/start" /\ StartTask
       \/ Head(tasks) = "/auth" /\ AuthTask
    /\ UNCHANGED <<stopped, events>>

-----------------------------------------------------------------------------
(* Handlers of the connection. *)

Network == ~stopped /\ Happens /\ UNCHANGED <<tasks, stopped, window>>

\* ACCEPT or JOIN: others are in the list.
OthersCome ==
    /\ Network /\ link = "open" /\ ~started
    /\ link' = "room"
    /\ UNCHANGED <<plugin, started, next, mine, own, theirs>>

\* START
StartArrives ==
    /\ Network /\ link # "none" /\ ~started
    /\ StartGame(plugin)
    /\ UNCHANGED <<next, link, mine, own, theirs>>

\* INPUT_DATA of the others, one of whom may produce this user's inputs.
InputArrives ==
    /\ Network /\ link = "room" /\ started
    /\ \/ OnInput(plugin, TRUE, own, theirs + 1)
       \/ ~mine /\ OnInput(plugin, TRUE, own + 1, theirs)
    /\ UNCHANGED <<started, link, mine>>

\* DELEGATE_AUTHORITY gives the authority back, and two inputs are sent.
AuthorityReturns ==
    /\ Network /\ link = "room" /\ ~mine
    /\ mine' = TRUE
    /\ OnInput(plugin, TRUE, own + 2, theirs)
    /\ UNCHANGED <<started, link>>

\* QUIT of the last other user.
OthersLeave ==
    /\ Network /\ link = "room"
    /\ link' = "open" /\ mine' = TRUE
    /\ IF started THEN OnInput(plugin, FALSE, IF mine THEN own ELSE own + 1, 0)
       ELSE theirs' = 0 /\ UNCHANGED <<plugin, next, own>>
    /\ UNCHANGED started

\* The connection fails or the server closes it.
Lost ==
    /\ Network /\ link # "none"
    /\ CloseClient
    /\ UNCHANGED started

-----------------------------------------------------------------------------
(* The thread that calls the plugin. *)

At(from, to) == plugin = from /\ plugin' = to
Alone == UNCHANGED <<tasks, stopped, clientVars, window, events>>
Post(task) == tasks' = Append(tasks, task) /\ UNCHANGED <<stopped, clientVars, window, events>>

\* GetKeys and the read of started at the top of wait_until_start.
GetKeys == At("idle", IF started THEN "run" ELSE "start") /\ Alone

\* wait_until_start: the predicate is tested under the mutex, which is given
\* up by going to sleep.
TestStarted == At("start", IF started THEN "run" ELSE "start false") /\ Alone
SleepUntilStart == At("start false", "start asleep") /\ Alone

\* process_input: the body is run by the service,
RunInput == At("run", "posted") /\ Post("input")

\* and the result is waited for in the same way.
TakeNext ==
    /\ At("next", IF next THEN "idle" ELSE "next empty")
    /\ next' = FALSE
    /\ UNCHANGED <<tasks, stopped, started, link, mine, own, theirs, window, events>>
SleepUntilNext == At("next empty", "next asleep") /\ Alone

\* DllConfig
DllConfig == At("idle", "calling") /\ Happens /\ tasks' = Append(tasks, "call")
             /\ UNCHANGED <<stopped, clientVars, window>>

\* Mutant of RomClosed: the service is stopped before the name is asked for.
RomClosedStopped ==
    /\ At("idle", "naming")
    /\ tasks' = Append(tasks, "call") /\ stopped' = TRUE
    /\ UNCHANGED <<clientVars, window, events>>

\* RomClosed: the name is read,
RomClosed == At("idle", "naming") /\ Post("call")

\* post_close is called,
PostClose == At("post close", "stop") /\ Post("close")

\* the client is destroyed: the service thread is stopped and joined, and the
\* tasks that are left never run,
Stop ==
    /\ At("stop", "dialog") /\ stopped' = TRUE
    /\ tasks' = <<>>
    /\ UNCHANGED <<clientVars, window, events>>

\* Mutant of DestroyDialog: the dialog's thread is joined, but not told to end.
DestroyDialogJoin == At("dialog", "join") /\ Alone

\* and the dialog, whose thread is joined.
DestroyDialog ==
    /\ At("dialog", "join")
    /\ window' = IF window = "open" THEN "closing" ELSE window
    /\ UNCHANGED <<tasks, stopped, clientVars, events>>
JoinDialog == window = "gone" /\ At("join", "gone") /\ Alone

-----------------------------------------------------------------------------
(* The dialog's thread. *)

\* WM_CLOSE, and what is typed: a task for the service, while it runs any.
Person ==
    /\ window # "gone" /\ ~stopped /\ Happens
    /\ \E task \in {"window", "/join", "/start", "/auth"} : tasks' = Append(tasks, task)
    /\ UNCHANGED <<plugin, stopped, clientVars, window>>

\* The posted DestroyWindow, and WM_DESTROY, which ends the thread.
DestroyWindow ==
    /\ window = "closing" /\ window' = "gone"
    /\ UNCHANGED <<plugin, tasks, stopped, clientVars, events>>

-----------------------------------------------------------------------------
Init ==
    /\ plugin = "idle"
    /\ tasks = <<>> /\ stopped = FALSE
    /\ started = FALSE /\ next = FALSE
    /\ link = "none" /\ mine = TRUE /\ own = 0 /\ theirs = 0
    /\ window = "open"
    /\ events = 0

\* The steps of a call into the plugin, once it was made.
Step ==
    \/ TestStarted \/ SleepUntilStart \/ RunInput \/ TakeNext \/ SleepUntilNext
    \/ PostClose \/ Stop \/ DestroyDialog \/ JoinDialog

Next ==
    \/ GetKeys \/ DllConfig \/ RomClosed \/ Step
    \/ RunTask
    \/ OthersCome \/ StartArrives \/ InputArrives \/ AuthorityReturns \/ OthersLeave \/ Lost
    \/ Person \/ DestroyWindow

\* The three threads run; neither people nor the network need do anything.
Spec ==
    /\ Init /\ [][Next]_vars
    /\ WF_vars(Step) /\ WF_vars(RunTask) /\ WF_vars(DestroyWindow)

-----------------------------------------------------------------------------
(* Properties. *)

\* No notification is missed: the thread sleeps only while there is nothing to
\* wake for, although started is first read without the mutex.
NoMissedWake ==
    /\ plugin = "start asleep" => ~started
    /\ plugin = "next asleep" => ~next

\* Whoever waits for the future of a task waits for one that a running service
\* still has: run is never called on a service that was stopped.
TaskAwaited ==
    /\ plugin = "posted" => ~stopped /\ Contains(tasks, "input")
    /\ plugin \in {"calling", "naming"} => ~stopped /\ Contains(tasks, "call")

StartWait == {"start", "start false", "start asleep"}

\* Closing the dialog lets an emulator that waits for the start go on.
ClosingReleases == Contains(tasks, "window") ~> plugin \notin StartWait

\* Losing the connection, or the last other user, lets an emulator that waits
\* for an input go on, whoever was to produce it.
LossReleases == plugin = "next asleep" /\ link # "room" ~> plugin # "next asleep"

\* RomClosed returns, in whatever state the client and its dialog are.
RomClosedReturns == plugin = "naming" ~> plugin = "gone"
=============================================================================
