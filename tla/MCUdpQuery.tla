----------------------------- MODULE MCUdpQuery -----------------------------
(* An instance of UdpQuery for TLC. *)
EXTENDS UdpQuery

CONSTANT ping   \* the ping of one public server

Ping == {ping}

=============================================================================
