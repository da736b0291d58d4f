----------------------------- MODULE SharedLog -----------------------------
(***************************************************************************)
(* What the relay and the lockstep clients promise together: one shared,   *)
(* append-only stream of inputs per user.  Every process has a copy of     *)
(* every stream.  A copy only ever grows, either by what another process   *)
(* already has, or, at a process that has all there is of the stream, by   *)
(* new inputs.  Processes may leave at any time, with the inputs only they *)
(* had.                                                                    *)
(***************************************************************************)
EXTENDS Integers, Sequences

CONSTANTS Process, Stream, Value

VARIABLES
    live,       \* the processes still taking part
    copy        \* copy[p][u], the part of stream u that process p has

vars == <<live, copy>>

Prefix(s, t) == Len(s) <= Len(t) /\ SubSeq(t, 1, Len(s)) = s
Agree(s, t) == Prefix(s, t) \/ Prefix(t, s)

\* p's copy of u becomes s and nothing else changes.
Extend(p, u, s) ==
    /\ s \in Seq(Value) /\ Prefix(copy[p][u], s)
    /\ copy' = [copy EXCEPT ![p][u] = s]
    /\ live' = live

\* A process that misses nothing of a stream appends to it.
Produce(p, u) ==
    /\ \A q \in live : Prefix(copy[q][u], copy[p][u])
    /\ Extend(p, u, copy'[p][u])

\* A process learns a part of what another one has.
Learn(p, u) ==
    /\ \E q \in live : Prefix(copy'[p][u], copy[q][u])
    /\ Extend(p, u, copy'[p][u])

Leave(p) ==
    /\ live' = live \ {p}
    /\ \A q \in live \ {p} : copy'[q] = copy[q]
    /\ copy'[p] \in [Stream -> Seq(Value)]
    /\ copy' = [copy EXCEPT ![p] = copy'[p]]

Init ==
    /\ live = Process
    /\ copy = [p \in Process |-> [u \in Stream |-> <<>>]]

Next ==
    \E p \in live :
        \/ \E u \in Stream : Produce(p, u) \/ Learn(p, u)
        \/ Leave(p)

Spec == Init /\ [][Next]_vars

\* The copies of live processes never contradict each other.
Agreement ==
    \A u \in Stream : \A p, q \in live : Agree(copy[p][u], copy[q][u])

TypeOK ==
    /\ live \in SUBSET Process
    /\ copy \in [Process -> [Stream -> Seq(Value)]]

=============================================================================
