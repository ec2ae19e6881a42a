----------------------------- MODULE MCUdpDriver -----------------------------
(* An instance of UdpDriver for TLC: two clients whose addresses differ in length.  *)
EXTENDS UdpDriver

ShortAndLong == {<<1>>, <<2, 3>>}
=============================================================================
