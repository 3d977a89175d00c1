------------------------------ MODULE MCNetEcho ------------------------------
(* An instance of NetEcho for TLC. *)
EXTENDS NetEcho

\* Frames of every kind, enough of them for the indices of both rings to wrap; and
\* fewer, for a device that takes two buffers and returns them in any order.
MCNetworks == {
    [frames |-> <<"udp", "runt", "other", "udp", "tcp", "udp", "arp", "udp", "udp">>,
     ahead |-> 1],
    [frames |-> <<"runt", "runt", "udp", "other">>, ahead |-> 2]}

=============================================================================
