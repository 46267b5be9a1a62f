------------------------------- MODULE MCServer -------------------------------
(* Server on a small instance.                                              *)
EXTENDS Server

CONSTANTS u1, u2, t1

MCUDPMessages == {u1, u2}
MCTCPMessages == {t1}
================================================================================
