----------------------------- MODULE MCPrompts -----------------------------
(* An instance of Prompts for TLC: two requests and a notification, which    *)
(* fills the buffer or is larger than all of it.                             *)
EXTENDS Prompts

CONSTANTS p1, p2, note

MCPrompts == {p1, p2}
MCEvents == MCPrompts \cup {note}
MCSizeBytes == [e \in Events |-> IF e = note THEN 2 ELSE 1]
=============================================================================
