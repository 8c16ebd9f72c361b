------------------------------ MODULE MCRcSession ------------------------------
(***************************************************************************)
(* RcSession for TLC.                                                      *)
(***************************************************************************)
EXTENDS RcSession
================================================================================
