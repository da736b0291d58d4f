----------------------------- MODULE InputMerge -----------------------------
(***************************************************************************)
(* How one frame's inputs of all users become the four controllers the     *)
(* game sees, and how the server assigns those ports, as operators.        *)
(* Controller ports are 0 to 3.  An input_map is the set of its bits, as   *)
(* numbers.                                                                *)
(***************************************************************************)
EXTENDS Integers, Sequences, FiniteSets, FiniteSetsExt, Functions

Port == 0..3

\* input_map::get and set.
Bit(src, dst) == src * 4 + dst
Maps(map, src, dst) == Bit(src, dst) \in map

-----------------------------------------------------------------------------
(* client::on_input.  An input has map and, for each port, the held buttons   *)
(* and the two axes of the stick.                                             *)

\* Mutant of Sources: the bits of the map are walked by destination.
SourcesTransposed(inputs, dst) ==
    UNION {{<<u, bit % 4>> : bit \in {b \in inputs[u].map : b \div 4 = dst}} : u \in DOMAIN inputs}

\* Which controllers of which users drive a port: the bits of each input's map
\* are shifted out, the destinations of source 0 first.
Sources(inputs, dst) ==
    UNION {{<<u, bit \div 4>> : bit \in {b \in inputs[u].map : b % 4 = dst}} : u \in DOMAIN inputs}

Buttons(inputs, dst) ==
    UNION {inputs[s[1]].ports[s[2]].buttons : s \in Sources(inputs, dst)}

\* What one user's controllers add to an axis of a port, and what all users' do.
Added(input, dst, axis) ==
    MapThenSumSet(LAMBDA src : input.ports[src][axis], {src \in Port : Maps(input.map, src, dst)})
Total(inputs, dst, axis) ==
    MapThenSumSet(LAMBDA u : Added(inputs[u], dst, axis), DOMAIN inputs)

\* analog_x and analog_y are int16_t: each addition wraps, and so does their sum.
Int16(n) == ((n + 32768) % 65536) - 32768
Sum(inputs, dst, axis) == Int16(Total(inputs, dst, axis))

Abs(n) == IF n < 0 THEN -n ELSE n
Larger(m, n) == IF m > n THEN m ELSE n

\* Mutant of Scaled: without the half that makes -128 and 127 the same length.
ScaledWhole(x, y) ==
    LET r == Larger(Abs(x), Abs(y)) IN IF r > 127 THEN (x * 127) \div r ELSE x

\* One axis of a stick at x, y, brought into a signed byte.  With x + 0.5 and r
\* doubled to stay whole, floor((x + 0.5) / r * 127.5) is this quotient.
Scaled(x, y) ==
    LET r == Larger(Abs(2 * x + 1), Abs(2 * y + 1))
    IN  IF r > 255 THEN ((2 * x + 1) * 255) \div (2 * r) ELSE x

Merged(inputs) ==
    [dst \in Port |->
        LET x == Sum(inputs, dst, "x")
            y == Sum(inputs, dst, "y")
        IN  [buttons |-> Buttons(inputs, dst), x |-> Scaled(x, y), y |-> Scaled(y, x)]]

-----------------------------------------------------------------------------
(* room::update_controller_map.  A user has the ports with a controller       *)
(* present, manual_map and map.                                               *)

\* Mutant of Before: each user's controllers are counted from the first port.
BeforeAlone(users, u, src) == {<<u, s>> : s \in {s \in users[u].present : s < src}}

\* The controllers that get a port before the one at src of user u.
Before(users, u, src) ==
    {c \in (1..u) \X Port :
        ~users[c[1]].manual /\ c[2] \in users[c[1]].present /\ (c[1] < u \/ c[2] < src)}

Assigned(users) ==
    [u \in DOMAIN users |->
        IF users[u].manual THEN users[u].map
        ELSE {Bit(src, Cardinality(Before(users, u, src))) :
                src \in {s \in users[u].present : Cardinality(Before(users, u, s)) < 4}}]

-----------------------------------------------------------------------------
(* CONTROLLERS at a client before the start: the pak of each port is the      *)
(* highest numbered one of the controllers that drive it, 1 for none.         *)

Plugins(users, maps, dst) ==
    Max({1} \cup {users[s[1]].plugin[s[2]] :
                    s \in {d \in (DOMAIN users) \X Port : Maps(maps[d[1]], d[2], dst)}})
=============================================================================
