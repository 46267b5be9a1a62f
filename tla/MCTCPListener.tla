----------------------------- MODULE MCTCPListener -----------------------------
(* TCPListener on small instances.                                          *)
EXTENDS TCPListener
===============================================================================
