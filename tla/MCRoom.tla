------------------------------- MODULE MCRoom -------------------------------
(* Small instances of Room for TLC. *)
EXTENDS Room, TLC

CONSTANTS u1, u2, u3    \* clients

Three == {u1, u2, u3}
OneLag == {1}
AllCommands == {"lag", "autolag", "golf", "map", "auth", "name", "plug", "start", "close"}

\* Clients are interchangeable: no definition orders them.
Symmetry == Permutations(Client)

=============================================================================
