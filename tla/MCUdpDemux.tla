----------------------------- MODULE MCUdpDemux -----------------------------
(* Small instances of UdpDemux. *)
EXTENDS UdpDemux
=============================================================================
