----------------------------- MODULE MCStateStore -----------------------------
(* StateStore on small instances.                                           *)
EXTENDS StateStore
=============================================================================
