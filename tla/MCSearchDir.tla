----------------------------- MODULE MCSearchDir -----------------------------
(* SearchDir for TLC: every tree of four directories, each with at most one *)
(* of three files.                                                          *)
EXTENDS SearchDir

AX == [stem |-> "a", ext |-> "x"]
ThreeNames == {AX, [stem |-> "a", ext |-> ""], [stem |-> "b", ext |-> "x"]}
=============================================================================
