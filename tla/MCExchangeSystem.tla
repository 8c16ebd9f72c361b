---------------------------- MODULE MCExchangeSystem ----------------------------
(***************************************************************************)
(* ExchangeSystem for TLC.                                                 *)
(***************************************************************************)
EXTENDS ExchangeSystem
================================================================================
