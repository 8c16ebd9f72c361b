----------------------------- MODULE MCFrameTunnels -----------------------------
(***************************************************************************)
(* FrameTunnels for TLC, with the frames and command lines of              *)
(* MCProxyFuzzer.                                                          *)
(***************************************************************************)
EXTENDS MCProxyFuzzer, FrameTunnels

RdmaFrames == {Send, RdmaWrite, Truncated}
================================================================================
