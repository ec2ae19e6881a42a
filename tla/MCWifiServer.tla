---------------------------- MODULE MCWifiServer ----------------------------
(* Instances of WifiServer for TLC.  A page takes one packet, a file two, a stray URL none. *)
EXTENDS WifiServer

PageAndFile == [u \in Url |-> CASE u = "page" -> 1 [] u = "file" -> 2 [] OTHER -> 0]
=============================================================================
