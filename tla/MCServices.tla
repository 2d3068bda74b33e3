------------------------------ MODULE MCServices ------------------------------
(* Two hosts; IP and TCP headers with and without options, and all kinds   *)
(* of flags in the byte that holds the header's length.                    *)
EXTENDS Services

CONSTANTS Ann, Bob

MCClients == {Ann, Bob}

Packet(c, o, w, f, b) ==
    [source |-> c, options |-> o, words |-> w, flags |-> f, body |-> b]

MCPackets ==
    {Packet(Ann, 0, 10, 0, "none"), Packet(Ann, 0, 5, 1, "whole"),
     Packet(Ann, 0, 8, 0, "part"), Packet(Ann, 0, 5, 0, "bad"),
     Packet(Bob, 0, 8, 0, "whole"), Packet(Bob, 0, 5, 12, "whole"),
     Packet(Bob, 2, 5, 0, "whole")}

MCExtra == {"clientlist-server", "logger-server"}
=============================================================================
