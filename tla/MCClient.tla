----------------------------- MODULE MCClient -----------------------------
(* An instance of Client for TLC.                                           *)
EXTENDS Client

CONSTANTS e1, p1, a, b, s1, s2

MCPrompts == {p1}
MCEvents == {p1, e1}
MCSizeBytes == [e \in Events |-> 1]
=============================================================================
