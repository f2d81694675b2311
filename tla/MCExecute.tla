----------------------------- MODULE MCExecute -----------------------------
(* An instance of Execute for TLC: all words of at most two characters.     *)
EXTENDS Execute

CONSTANTS leader, d1, d2

MCWords == UNION {[1..n -> Characters] : n \in 0..2}
MCBlocked == {<<"x", "x">>}
=============================================================================
