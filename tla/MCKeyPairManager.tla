-------------------------- MODULE MCKeyPairManager --------------------------
(***************************************************************************)
(* KeyPairManager for TLC: two threads, two ids that may repeat, three key *)
(* pairs, and a clock long enough for a session to expire while another    *)
(* one is stored.                                                          *)
(***************************************************************************)
EXTENDS KeyPairManager
=============================================================================
