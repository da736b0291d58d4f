---------------------------- MODULE MCUdpOutput ----------------------------
(* An instance of UdpOutput for TLC. *)
EXTENDS UdpOutput

\* Around every edge of send_udp: prefixes of one and two bytes, two packets
\* that just fill a datagram or miss by one, one that fills it or is too big.
EdgeSizes == {1, 127, 128, 377, 378, 505, 506, 507}

=============================================================================
