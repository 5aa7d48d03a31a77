---------------------------- MODULE MCLineParser ----------------------------
(* An instance of LineParser for TLC, with every kind of character.        *)
EXTENDS LineParser

LineChars == {"CR", "LF", "x"}
=============================================================================
