---------------------------- MODULE MCWebPolling ----------------------------
(***************************************************************************)
(* A small instance of WebPolling.                                         *)
(***************************************************************************)
EXTENDS WebPolling
=============================================================================
