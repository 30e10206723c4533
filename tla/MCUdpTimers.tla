----------------------------- MODULE MCUdpTimers -----------------------------
(* UdpTimers on the small instances of MCUdp. *)
EXTENDS UdpTimers, MCUdp
=============================================================================
