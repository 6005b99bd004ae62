--------------------------- MODULE MCUdpGwServer ---------------------------
(* Model-checking instances of the gateway server's client connection.     *)
EXTENDS UdpGwServer
=============================================================================
