----------------------------- MODULE MCNaiveFuzzer -----------------------------
(***************************************************************************)
(* NaiveFuzzer for TLC.                                                    *)
(***************************************************************************)
EXTENDS NaiveFuzzer
================================================================================
