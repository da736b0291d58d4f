------------------------------- MODULE MCData -------------------------------
(***************************************************************************)
(* Data for all strings of up to five of these bytes, for strings around   *)
(* the lengths where a piece takes another byte, for datagrams of two      *)
(* messages, for the inputs of two users and of 64, and for three members.  *)
(***************************************************************************)
EXTENDS Data

\* Bytes around the wrap of a rising run.
MCSomeBytes == {0, 1, 2, 254, 255}

Repeat(b, n) == [i \in 1..n |-> b]
Rise(b, n) == [i \in 1..n |-> (b + i - 1) % 256]
Mixed(n) == [i \in 1..n |-> (i * i) % 251]

\* Lengths around which the length of a piece takes another byte.
MCLongStrings ==
    UNION {{Repeat(0, n), Repeat(9, n), Rise(250, n), Mixed(n), Mixed(n) \o Repeat(0, n)} :
            n \in {31, 32, 216}}

\* Nothing held, a button, a stick moved, all different.
Coded == {Repeat(0, 18), [Repeat(0, 18) EXCEPT ![4] = 128, ![17] = 132], Mixed(18)}
Histories == UNION {[1..n -> Coded] : n \in 1..2} \cup {Repeat(i, 12) : i \in Coded}
MCSomeMessages ==
    {[user |-> u, first |-> f, history |-> h] :
        u \in {0, 128}, f \in {127, 2147483647}, h \in Histories}

Stick == {-128, -127, -1, 0, 1, 127}
Neutral == [buttons |-> {}, x |-> 0, y |-> 0]
Controllers(x, y) ==
    [p \in Port |-> IF p = 0 THEN [buttons |-> {"A"}, x |-> x, y |-> y]
                    ELSE IF p = 1 THEN [buttons |-> {"B"}, x |-> y, y |-> -1] ELSE Neutral]
SomeMaps == {{}, {Bit(0, 0)}, {Bit(0, 1), Bit(1, 0)}, {Bit(0, 0), Bit(1, 0), Bit(3, 2)}}
\* All four controllers of a user pushed to one corner and mapped to port 0.
Pushed(n) ==
    [ports |-> [p \in Port |-> [buttons |-> {"A"}, x |-> n, y |-> n]],
     map |-> {Bit(src, 0) : src \in Port}]

MCSomeInputs ==
    {[ports |-> Controllers(x, y), map |-> m] : x \in Stick, y \in {-128, 0, 127}, m \in SomeMaps}
        \cup {Pushed(-128), Pushed(127)}

\* 256 controllers and more at one port: the sum is -32768 with 64 users.
MCLongInputs == {[u \in 1..n |-> Pushed(x)] : n \in 64..65, x \in {-128, 127}}

MCSomeMembers ==
    {[present |-> p, manual |-> m, map |-> {Bit(3, 3)},
      plugin |-> [i \in Port |-> 1 + ((i + Cardinality(p)) % 4)]] :
        p \in {{}, {0}, {3}, {1, 2}, {0, 1, 3}, Port}, m \in BOOLEAN}
=============================================================================
