----------------------------- MODULE MCLockstep -----------------------------
(* Small instances of Lockstep for TLC. *)
EXTENDS LockstepRefinement, TLC

CONSTANTS u1, u2, u3    \* users
CONSTANTS idle, press   \* inputs: nothing held, a button held

Two == {u1, u2}
Three == {u1, u2, u3}
NoUser == {}
Idle == {idle}
Both == {idle, press}
Pressed == {press}
NoActive == {}
Lag0 == {0}
Lag1 == {1}
Lag01 == {0, 1}
GolfOff == {FALSE}
GolfAny == {FALSE, TRUE}

\* Users are interchangeable: no definition orders them.
Symmetry == Permutations(User)

=============================================================================
