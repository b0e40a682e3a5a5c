---------------------------- MODULE MCRendezvous ----------------------------
(* Two browsers on one signalling server, for TLC.                           *)
EXTENDS Rendezvous
=============================================================================
