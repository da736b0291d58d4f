------------------------ MODULE ClientThreadsProofs ------------------------
(* What the client's threads may rely on when they wait, for any number of *)
(* events: a notification is never missed, and the future of a task is     *)
(* only awaited while the service still has that task.                     *)
EXTENDS ClientThreads, TLAPS

Task == {"input", "call", "close", "window", "/join", "/start", "/auth"}

\* The inductive invariant of the waits.  The thread goes to sleep on what it
\* found under the mutex, so nothing may be there yet while it holds it.
NothingYet ==
    /\ plugin \in {"start false", "start asleep"} => ~started
    /\ plugin \in {"next empty", "next asleep"} => ~next

\* The inductive invariant of the tasks.  The service is stopped only on the way
\* out, from where the thread posts nothing any more.
StoppedLast == stopped => plugin \in {"dialog", "join", "gone"}

TasksTyped == tasks \in Seq(Task)

IInv == TasksTyped /\ NothingYet /\ StoppedLast /\ TaskAwaited

-----------------------------------------------------------------------------
(* Facts about the queue of tasks and about the parts of the handlers. *)

\* A task that is posted is in the queue, and so are those before it.
LEMMA Posted ==
    ASSUME NEW s \in Seq(Task), NEW e \in Task
    PROVE  /\ Append(s, e) \in Seq(Task)
           /\ Contains(Append(s, e), e)
           /\ \A d : Contains(s, d) => Contains(Append(s, e), d)
<1>1. Append(s, e) \in Seq(Task) /\ Len(Append(s, e)) = Len(s) + 1 /\ Len(s) \in Nat
  OBVIOUS
<1>2. Append(s, e)[Len(s) + 1] = e /\ \A i \in 1..Len(s) : Append(s, e)[i] = s[i]
  OBVIOUS
<1> QED
  BY <1>1, <1>2 DEF Contains

\* Taking a task leaves every other one in the queue.
LEMMA Taken ==
    ASSUME NEW s \in Seq(Task), s # <<>>
    PROVE  /\ Tail(s) \in Seq(Task)
           /\ Head(s) \in Task
           /\ \A d : Contains(s, d) /\ d # Head(s) => Contains(Tail(s), d)
<1>1. Tail(s) \in Seq(Task) /\ Head(s) \in Task /\ Head(s) = s[1]
  OBVIOUS
<1>2. Len(Tail(s)) = Len(s) - 1 /\ Len(s) \in Nat /\ \A i \in 1..Len(Tail(s)) : Tail(s)[i] = s[i + 1]
  OBVIOUS
<1>3. ASSUME NEW d, Contains(s, d), d # Head(s) PROVE Contains(Tail(s), d)
  <2>1. PICK i \in 1..Len(s) : s[i] = d
    BY <1>3 DEF Contains
  <2>2. i # 1 /\ i - 1 \in 1..Len(Tail(s)) /\ Tail(s)[i - 1] = s[i]
    BY <1>1, <1>2, <1>3, <2>1
  <2> QED
    BY <2>1, <2>2 DEF Contains
<1> QED
  BY <1>1, <1>3

\* start_game wakes the thread that sleeps for it, and moves it nowhere else.
LEMMA StartGameWakes ==
    ASSUME NothingYet, StartGame(plugin), next' = next
    PROVE  NothingYet' /\ (plugin' # plugin => plugin' = "start")
BY DEF NothingYet, StartGame, HoldsStart

\* on_input wakes the thread that sleeps for it, and moves it nowhere else.
LEMMA OnInputWakes ==
    ASSUME NEW others, NEW o, NEW t,
           NothingYet, OnInput(plugin, others, o, t), started' = started
    PROVE  NothingYet' /\ (plugin' # plugin => plugin' = "next")
<1>1. CASE next \/ o = 0 \/ (others /\ t = 0)
  BY <1>1 DEF NothingYet, OnInput
<1>2. CASE ~(next \/ o = 0 \/ (others /\ t = 0))
  BY <1>2 DEF NothingYet, OnInput, HoldsNext
<1> QED
  BY <1>1, <1>2

\* So does client::close.
LEMMA CloseClientWakes ==
    ASSUME NothingYet, CloseClient, started' = started
    PROVE  NothingYet' /\ (plugin' # plugin => plugin' = "next")
<1>1. CASE started
  BY <1>1, OnInputWakes DEF CloseClient
<1>2. CASE ~started
  BY <1>2 DEF CloseClient, NothingYet
<1> QED
  BY <1>1, <1>2

-----------------------------------------------------------------------------
LEMMA InitIInv == Init => IInv
BY DEF Init, IInv, TasksTyped, NothingYet, StoppedLast, TaskAwaited, Contains

\* A task may end the wait for it, and wakes who waits for the game.
LEMMA RunTaskIInv == IInv /\ RunTask => IInv'
<1> SUFFICES ASSUME IInv, RunTask PROVE IInv'
  OBVIOUS
<1> USE DEF IInv
<1>1. /\ ~stopped /\ ~stopped' /\ tasks' = Tail(tasks) /\ tasks' \in Seq(Task)
      /\ \A d : Contains(tasks, d) /\ d # Head(tasks) => Contains(tasks', d)
  BY Taken DEF RunTask, TasksTyped
<1>2. TasksTyped' /\ StoppedLast'
  BY <1>1 DEF TasksTyped, StoppedLast
\* What is left to show of a task that is not waited for.
<1>3. ASSUME Head(tasks) \notin {"input", "call"}, NothingYet',
             plugin' # plugin => plugin' \in {"start", "next"}
      PROVE  IInv'
  <2>1. plugin' \in {"posted", "calling", "naming"} => plugin' = plugin
    BY <1>3
  <2>2. TaskAwaited'
    BY <1>1, <1>3, <2>1 DEF TaskAwaited
  <2> QED
    BY <1>2, <1>3, <2>2
<1>4. CASE Head(tasks) = "input" /\ InputTask
  <2>1. plugin' = "next"
    BY <1>4 DEF InputTask, OnInput
  <2>2. NothingYet' /\ TaskAwaited'
    BY <2>1 DEF NothingYet, TaskAwaited
  <2> QED
    BY <1>2, <2>2
<1>5. CASE Head(tasks) = "call" /\ CallTask
  <2>1. plugin' \in {"post close", "idle"}
    BY <1>5 DEF CallTask
  <2>2. NothingYet' /\ TaskAwaited'
    BY <2>1 DEF NothingYet, TaskAwaited
  <2> QED
    BY <1>2, <2>2
<1>6. CASE Head(tasks) = "close" /\ CloseTask
  BY <1>3, <1>6, CloseClientWakes DEF CloseTask
<1>7. CASE Head(tasks) = "window" /\ WindowTask
  <2>1. CASE started
    BY <1>3, <1>7, <2>1 DEF WindowTask, clientVars, NothingYet
  <2>2. CASE ~started
    BY <1>3, <1>7, <2>2, StartGameWakes DEF WindowTask
  <2> QED
    BY <2>1, <2>2
<1>8. CASE Head(tasks) = "/join" /\ JoinTask
  <2>1. plugin' = plugin /\ started' = started /\ next' = next
    BY <1>8 DEF JoinTask, clientVars
  <2> QED
    BY <1>3, <1>8, <2>1 DEF NothingYet
<1>9. CASE Head(tasks) = "/start" /\ StartTask
  <2>1. CASE started \/ link # "none"
    BY <1>3, <1>9, <2>1 DEF StartTask, clientVars, NothingYet
  <2>2. CASE ~(started \/ link # "none")
    BY <1>3, <1>9, <2>2, StartGameWakes DEF StartTask
  <2> QED
    BY <2>1, <2>2
<1>10. CASE Head(tasks) = "/auth" /\ AuthTask
  BY <1>3, <1>10 DEF AuthTask, NothingYet
<1> QED
  BY <1>4, <1>5, <1>6, <1>7, <1>8, <1>9, <1>10 DEF RunTask

\* Handlers of the connection post nothing and wake who waits for the game.
LEMMA HandlerIInv ==
    ASSUME IInv,
           OthersCome \/ StartArrives \/ InputArrives \/ AuthorityReturns \/ OthersLeave \/ Lost
    PROVE  IInv'
<1> USE DEF IInv
<1>1. Network
  BY DEF OthersCome, StartArrives, InputArrives, AuthorityReturns, OthersLeave, Lost
<1>2. ASSUME NothingYet', plugin' # plugin => plugin' \in {"start", "next"} PROVE IInv'
  BY <1>1, <1>2 DEF Network, TasksTyped, StoppedLast, TaskAwaited
<1>3. CASE OthersCome
  BY <1>2, <1>3 DEF OthersCome, NothingYet
<1>4. CASE StartArrives
  BY <1>2, <1>4, StartGameWakes DEF StartArrives
<1>5. CASE InputArrives
  <2>1. \/ OnInput(plugin, TRUE, own, theirs + 1)
        \/ OnInput(plugin, TRUE, own + 1, theirs)
    BY <1>5 DEF InputArrives
  <2>2. started' = started
    BY <1>5 DEF InputArrives
  <2> QED
    BY <1>2, <2>1, <2>2, OnInputWakes
<1>6. CASE AuthorityReturns
  BY <1>2, <1>6, OnInputWakes DEF AuthorityReturns
<1>7. CASE OthersLeave
  <2>1. CASE started
    BY <1>2, <1>7, <2>1, OnInputWakes DEF OthersLeave
  <2>2. CASE ~started
    BY <1>2, <1>7, <2>2 DEF OthersLeave, NothingYet
  <2> QED
    BY <2>1, <2>2
<1>8. CASE Lost
  BY <1>2, <1>8, CloseClientWakes DEF Lost
<1> QED
  BY <1>3, <1>4, <1>5, <1>6, <1>7, <1>8

\* The plugin's thread sleeps only on what it found, and posts before it waits.
LEMMA PluginIInv == IInv /\ (GetKeys \/ DllConfig \/ RomClosed \/ Step) => IInv'
<1> SUFFICES ASSUME IInv, GetKeys \/ DllConfig \/ RomClosed \/ Step PROVE IInv'
  OBVIOUS
<1> USE DEF IInv, At, Alone, Post, clientVars
<1>1. ASSUME NEW e \in Task, tasks' = Append(tasks, e), stopped' = stopped, ~stopped,
             plugin' \in {"posted", "calling", "naming", "stop"},
             plugin' = "posted" => e = "input",
             plugin' \in {"calling", "naming"} => e = "call"
      PROVE  IInv'
  BY <1>1, Posted DEF TasksTyped, NothingYet, StoppedLast, TaskAwaited
<1>2. ASSUME plugin' \notin {"posted", "calling", "naming"},
             stopped' = stopped, tasks' = tasks, StoppedLast', NothingYet'
      PROVE  IInv'
  BY <1>2 DEF TasksTyped, TaskAwaited
<1>3. CASE GetKeys
  BY <1>2, <1>3 DEF GetKeys, NothingYet, StoppedLast
<1>4. CASE DllConfig
  BY <1>1, <1>4 DEF DllConfig, StoppedLast, Task
<1>5. CASE RomClosed
  BY <1>1, <1>5 DEF RomClosed, StoppedLast, Task
<1>6. CASE TestStarted
  BY <1>2, <1>6 DEF TestStarted, NothingYet, StoppedLast
<1>7. CASE SleepUntilStart
  BY <1>2, <1>7 DEF SleepUntilStart, NothingYet, StoppedLast
<1>8. CASE RunInput
  BY <1>1, <1>8 DEF RunInput, StoppedLast, Task
<1>9. CASE TakeNext
  BY <1>2, <1>9 DEF TakeNext, NothingYet, StoppedLast
<1>10. CASE SleepUntilNext
  BY <1>2, <1>10 DEF SleepUntilNext, NothingYet, StoppedLast
<1>11. CASE PostClose
  BY <1>1, <1>11 DEF PostClose, StoppedLast, Task
<1>12. CASE Stop
  BY <1>12 DEF Stop, TasksTyped, NothingYet, StoppedLast, TaskAwaited
<1>13. CASE DestroyDialog
  BY <1>2, <1>13 DEF DestroyDialog, NothingYet, StoppedLast
<1>14. CASE JoinDialog
  BY <1>2, <1>14 DEF JoinDialog, NothingYet, StoppedLast
<1> QED
  BY <1>3, <1>4, <1>5, <1>6, <1>7, <1>8, <1>9, <1>10, <1>11, <1>12, <1>13, <1>14 DEF Step

\* The dialog's thread only posts tasks.
LEMMA DialogIInv == IInv /\ (Person \/ DestroyWindow) => IInv'
<1> SUFFICES ASSUME IInv, Person \/ DestroyWindow PROVE IInv'
  OBVIOUS
<1>1. plugin' = plugin /\ stopped' = stopped /\ started' = started /\ next' = next
  BY DEF Person, DestroyWindow, clientVars
<1>2. tasks' = tasks \/ \E e \in Task : tasks' = Append(tasks, e)
  BY DEF Person, DestroyWindow, Task
<1>3. tasks' \in Seq(Task) /\ \A d : Contains(tasks, d) => Contains(tasks', d)
  BY <1>2, Posted DEF IInv, TasksTyped
<1> QED
  BY <1>1, <1>3 DEF IInv, TasksTyped, NothingYet, StoppedLast, TaskAwaited

LEMMA NextIInv == IInv /\ [Next]_vars => IInv'
<1> SUFFICES ASSUME IInv, [Next]_vars PROVE IInv'
  OBVIOUS
<1>1. CASE UNCHANGED vars
  BY <1>1 DEF vars, clientVars, IInv, TasksTyped, NothingYet, StoppedLast, TaskAwaited
<1> QED
  BY <1>1, RunTaskIInv, HandlerIInv, PluginIInv, DialogIInv DEF Next

LEMMA Inductive == Spec => []IInv
BY InitIInv, NextIInv, PTL DEF Spec

-----------------------------------------------------------------------------
\* wait_until_start and process_input miss no notification: the thread never
\* sleeps on a game that was started, nor on an input that is there.
THEOREM NoMissedWakeAlways == Spec => []NoMissedWake
<1>1. IInv => NoMissedWake
  BY DEF IInv, NothingYet, NoMissedWake
<1> QED
  BY <1>1, Inductive, PTL

\* run of common.h never waits for a task that no service will run: the task is
\* queued, and the service is stopped only after the last call of run returned.
THEOREM TaskAwaitedAlways == Spec => []TaskAwaited
<1>1. IInv => TaskAwaited
  BY DEF IInv
<1> QED
  BY <1>1, Inductive, PTL
=============================================================================
