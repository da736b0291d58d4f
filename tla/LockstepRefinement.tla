------------------------- MODULE LockstepRefinement -------------------------
(* Lockstep implements SharedLog: the server and the clients of its members *)
(* are the processes, their logs the copies of the streams.                 *)
EXTENDS Lockstep

CONSTANT Server     \* the server, as a process

ASSUME ServerAssumption == Server \notin User

Shared == INSTANCE SharedLog WITH
    Process <- User \cup {Server},
    Stream <- User,
    Value <- Input,
    live <- members \cup {Server},
    copy <- [p \in User \cup {Server} |-> IF p = Server THEN srvLog ELSE log[p]]

\* An input is appended to a user's stream only by a client that already has
\* every input of the stream that the server or any member has, across
\* delegations, requests, golf swings, UDP shortcuts and quits; everything
\* else only copies.
SharedSpec == Shared!Spec

=============================================================================
