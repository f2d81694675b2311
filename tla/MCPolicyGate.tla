---------------------------- MODULE MCPolicyGate ----------------------------
(* An instance of PolicyGate for TLC: overlapping rate limits on operations  *)
(* that need approval and one that does not, a rule that takes a receipt     *)
(* before a stricter one, and a blocked operation.                           *)
EXTENDS PolicyGate, TLC

CONSTANTS a, b, read, send, pay, wipe

RateLimit(ops, count, window) ==
    [action |-> "rate_limit", ops |-> ops, sufficient |-> FALSE, count |-> count, window |-> window]
Rule(action, ops, sufficient) ==
    [action |-> action, ops |-> ops, sufficient |-> sufficient, count |-> 0, window |-> 0]

MCPolicy == <<
    RateLimit({read}, 1, 1),
    RateLimit({read, send}, 2, 1),
    Rule("block", {wipe}, FALSE),
    Rule("approve", {send}, TRUE),
    RateLimit({send, pay}, 1, 1),
    Rule("approve", {send, pay}, FALSE),
    Rule("allow", {pay, wipe}, FALSE) >>

MCSymmetry == Permutations(Sessions)
=============================================================================
