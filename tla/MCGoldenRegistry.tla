-------------------------- MODULE MCGoldenRegistry --------------------------
(* GoldenRegistry for TLC.                                                 *)
EXTENDS GoldenRegistry
=============================================================================
