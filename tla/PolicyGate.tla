----------------------------- MODULE PolicyGate -----------------------------
(***************************************************************************)
(* The policy gate in front of every primitive and tool: rate limits kept  *)
(* in the database, the first rule that matches, approvals asked of the    *)
(* user, and the receipts of approvals the model asked for itself.         *)
(* src/policy/engine.ts, rate-limiter.ts, receipts.ts, and the approval    *)
(* requests of src/runtime/agent.ts.                                       *)
(*                                                                         *)
(* Sessions run concurrently, each with one call at a time.  A call runs   *)
(* from its arrival to its decision without interruption, except that it   *)
(* may have to await the user.  How the user's answer is obtained, one     *)
(* prompt at a time, is Prompts; here the lane is the queue of prompts.    *)
(***************************************************************************)
EXTENDS Integers, Sequences, FiniteSets

CONSTANTS Sessions,
          Ops,             \* what a call may ask for
          ToolOps,         \* those that are operations of a registered tool
          Policy,          \* the rules, in the order of the policy file
          ReceiptWindow,   \* APPROVAL_RECEIPT_WINDOW_MS
          MaxTime,         \* bound on the clock
          MaxCalls,        \* bound on the calls
          Absent

Rules == 1..Len(Policy)

ASSUME PolicyAssumption ==
    /\ IsFiniteSet(Sessions) /\ Sessions # {}
    /\ ToolOps \subseteq Ops
    /\ Policy \in Seq([action : {"allow", "block", "approve", "rate_limit"},
                       ops : SUBSET Ops, sufficient : BOOLEAN,
                       count : Nat, window : Nat])
    /\ ReceiptWindow \in Nat /\ MaxTime \in Nat /\ MaxCalls \in Nat
    /\ Absent \notin Rules \cup Ops

VARIABLES
    clock,
    liveSessions, \* the sessions of the session manager
    started,      \* the sessions there ever were
    counters,     \* the rows of rate_limits
    receipts,     \* session -> its approval receipts
    lane,         \* calls that await an answer, in the order of their prompts
    calls,        \* how many calls were made
    \* history
    said,         \* the user's approvals, with the time of the answer
    allowed       \* the calls let through, with the time they arrived

gateVars == <<clock, liveSessions, started, counters, receipts, lane, calls, said, allowed>>

Row == [rule : Rules, at : Nat]
Receipt == [at : Nat, op : Ops \cup {Absent}]
Request == [kind : {"gate", "interact"}, session : Sessions, op : Ops \cup {Absent}, now : Nat]
Approval == [kind : {"gate", "interact"}, session : Sessions, op : Ops \cup {Absent}, at : Nat]
Permit == [session : Sessions, op : Ops, now : Nat, at : Nat]

GateTypeOK ==
    /\ clock \in Nat
    /\ liveSessions \in SUBSET started /\ started \in SUBSET Sessions
    /\ counters \in SUBSET Row
    /\ receipts \in [Sessions -> SUBSET Receipt]
    /\ lane \in Seq(Request)
    /\ \A i \in 1..Len(lane) :
          /\ lane[i].session \in liveSessions
          /\ lane[i].kind = "gate" => lane[i].op # Absent
          /\ \A j \in 1..Len(lane) : lane[i].session = lane[j].session => i = j
    /\ calls \in Nat
    /\ said \in SUBSET Approval
    /\ allowed \in Seq(Permit)

GateInit ==
    /\ clock = 0
    /\ liveSessions = {} /\ started = {}
    /\ counters = {}
    /\ receipts = [s \in Sessions |-> {}]
    /\ lane = <<>>
    /\ calls = 0
    /\ said = {}
    /\ allowed = <<>>

---------------------------------------------------------------------------
(***************************************************************************)
(* Rules                                                                   *)
(***************************************************************************)

Limits == {r \in Rules : Policy[r].action = "rate_limit"}
RateLimitRules == [op \in Ops |-> {r \in Limits : op \in Policy[r].ops}]
OtherRules == [op \in Ops |-> {r \in Rules \ Limits : op \in Policy[r].ops}]

Least(rules) == CHOOSE r \in rules : \A other \in rules : r <= other

\* The first rule of the file that matches, apart from the rate limits.
RuleFor == [op \in Ops |-> IF OtherRules[op] = {} THEN Absent ELSE Least(OtherRules[op])]
NeedsApproval(op) == RuleFor[op] # Absent /\ Policy[RuleFor[op]].action = "approve"

---------------------------------------------------------------------------
(***************************************************************************)
(* Rate limits.  A row is older than the window only if its time is before *)
(* the window's start.                                                     *)
(***************************************************************************)

InWindow(r, at) == {row \in counters : row.rule = r /\ row.at >= at - Policy[r].window}

Exceeded(op) == {r \in RateLimitRules[op] : Cardinality(InWindow(r, clock)) >= Policy[r].count}

\* The rows left once check() ran for some rules, which deletes the old ones.
Pruned(rules) ==
    {row \in counters : row.rule \in rules => row.at >= clock - Policy[row.rule].window}

\* Faulty variant: a row that is there already is not written again.
RecordMerges(rows, rules, at) == rows \cup [rule : rules, at : {at}]

\* record() for each rule: two rows of a rule never have the same time, the
\* later one is dated a millisecond on.
recordRateLimits(rows, rules, at) ==
    LET taken(r) == {row.at : row \in {old \in rows : old.rule = r}}
        free(r) == Least({t \in at..at + Cardinality(rows) : t \notin taken(r)})
    IN  rows \cup {[rule |-> r, at |-> free(r)] : r \in rules}

\* The call is let through once all its rate limits are recorded.  If writing
\* one fails the call is blocked, and those before it stay recorded.
Grant(rows, permit, failing) ==
    IF failing = Absent
    THEN /\ counters' = recordRateLimits(rows, RateLimitRules[permit.op], permit.now)
         /\ allowed' = Append(allowed, permit)
    ELSE /\ failing \in RateLimitRules[permit.op]
         /\ counters' = recordRateLimits(rows, {r \in RateLimitRules[permit.op] : r < failing},
                                         permit.now)
         /\ UNCHANGED allowed

NewPermit(s, op, now) == [session |-> s, op |-> op, now |-> now, at |-> clock]

---------------------------------------------------------------------------
(***************************************************************************)
(* Calls                                                                   *)
(***************************************************************************)

Waits(s) == \E i \in 1..Len(lane) : lane[i].session = s

\* A session starts with its first call.
MakesCall(s) ==
    /\ s \in liveSessions \/ s \notin started
    /\ ~Waits(s)
    /\ liveSessions' = liveSessions \cup {s}
    /\ started' = started \cup {s}
    /\ calls < MaxCalls
    /\ calls' = calls + 1

NewRequest(kind, s, op) == [kind |-> kind, session |-> s, op |-> op, now |-> clock]

hasMatchingApprovalReceipt(s, op) ==
    op \in ToolOps /\ \E receipt \in receipts[s] :
        receipt.op = op /\ clock - receipt.at <= ReceiptWindow

\* enforceInternal, for a call that no rate limit stops.
Decide(s, op, failing) ==
    LET rows == Pruned(RateLimitRules[op])
        rule == RuleFor[op]
        passes == Grant(rows, NewPermit(s, op, clock), failing) /\ UNCHANGED lane
    IN
    IF rule = Absent THEN passes
    ELSE IF Policy[rule].action = "allow" THEN passes
    ELSE IF Policy[rule].action = "block"
    THEN counters' = rows /\ failing = Absent /\ UNCHANGED <<allowed, lane>>
    ELSE IF Policy[rule].sufficient /\ hasMatchingApprovalReceipt(s, op)
    THEN passes
    ELSE /\ failing = Absent
         /\ counters' = rows
         /\ lane' = Append(lane, NewRequest("gate", s, op))
         /\ UNCHANGED allowed

Call(s, op, failing) ==
    /\ MakesCall(s)
    /\ IF Exceeded(op) # {}
       THEN /\ counters' = Pruned({r \in RateLimitRules[op] : r <= Least(Exceeded(op))})
            /\ failing = Absent
            /\ UNCHANGED <<allowed, lane>>
       ELSE Decide(s, op, failing)
    /\ UNCHANGED <<clock, receipts, said>>

\* The database stays locked while the rate limits are checked: enforce()
\* blocks the call.
CheckFails(s, op) ==
    /\ MakesCall(s)
    /\ \E failing \in RateLimitRules[op] :
          counters' = Pruned({r \in RateLimitRules[op] : r < failing})
    /\ UNCHANGED <<clock, receipts, lane, said, allowed>>

\* The model asks for an approval itself, maybe without naming an operation.
Interact(s, op) ==
    /\ MakesCall(s)
    /\ lane' = Append(lane, NewRequest("interact", s, op))
    /\ UNCHANGED <<clock, counters, receipts, said, allowed>>

\* Faulty variant: only an explicit no blocks the call.
AnswerUnlessDenied(answer, failing) ==
    /\ lane # <<>>
    /\ lane' = Tail(lane)
    /\ said' = IF answer # "yes" THEN said
               ELSE said \cup {[kind |-> Head(lane).kind, session |-> Head(lane).session,
                                op |-> Head(lane).op, at |-> clock]}
    /\ IF Head(lane).kind = "gate" /\ answer # "no"
       THEN /\ Grant(counters, NewPermit(Head(lane).session, Head(lane).op, Head(lane).now),
                     failing)
            /\ UNCHANGED receipts
       ELSE failing = Absent /\ UNCHANGED <<counters, allowed, receipts>>
    /\ UNCHANGED <<clock, liveSessions, started, calls>>

\* The user answers the prompt of the lane's head, or the prompt times out.
\* The rate limits are recorded at the time the call arrived.
Answer(answer, failing) ==
    /\ lane # <<>>
    /\ LET request == Head(lane) IN
       /\ said' = IF answer # "yes" THEN said
                  ELSE said \cup {[kind |-> request.kind, session |-> request.session,
                                   op |-> request.op, at |-> clock]}
       /\ IF answer # "yes" THEN failing = Absent /\ UNCHANGED <<counters, allowed, receipts>>
          ELSE IF request.kind = "gate"
          THEN /\ Grant(counters, NewPermit(request.session, request.op, request.now), failing)
               /\ UNCHANGED receipts
          ELSE /\ failing = Absent
               /\ receipts' = [receipts EXCEPT ![request.session] =
                                  @ \cup {[at |-> clock, op |-> request.op]}]
               /\ UNCHANGED <<counters, allowed>>
    /\ lane' = Tail(lane)
    /\ UNCHANGED <<clock, liveSessions, started, calls>>

---------------------------------------------------------------------------
(***************************************************************************)
(* Sessions                                                                *)
(***************************************************************************)

PassTime ==
    /\ clock < MaxTime
    /\ clock' = clock + 1
    /\ UNCHANGED <<liveSessions, started, counters, receipts, lane, calls, said, allowed>>

\* Faulty variant: a session that awaits the user is ended as idle.
EndsWaiting(s) ==
    /\ s \in liveSessions
    /\ liveSessions' = liveSessions \ {s}
    /\ receipts' = [receipts EXCEPT ![s] = {}]
    /\ UNCHANGED <<clock, started, counters, lane, calls, said, allowed>>

EndSession(s) ==
    /\ s \in liveSessions /\ ~Waits(s)
    /\ liveSessions' = liveSessions \ {s}
    /\ receipts' = [receipts EXCEPT ![s] = {}]
    /\ UNCHANGED <<clock, started, counters, lane, calls, said, allowed>>

\* Faulty variant: the counters start from zero with the daemon.
RestartResets ==
    /\ liveSessions # {}
    /\ liveSessions' = {}
    /\ receipts' = [s \in Sessions |-> {}]
    /\ lane' = <<>>
    /\ counters' = {}
    /\ UNCHANGED <<clock, started, calls, said, allowed>>

\* The daemon stops or crashes, and is started again: the database is all it
\* remembers.
Restart ==
    /\ liveSessions # {}
    /\ liveSessions' = {}
    /\ receipts' = [s \in Sessions |-> {}]
    /\ lane' = <<>>
    /\ UNCHANGED <<clock, started, counters, calls, said, allowed>>

GateNext ==
    \/ PassTime
    \/ \E s \in Sessions : EndSession(s)
    \/ Restart
    \/ \E s \in Sessions, op \in Ops, failing \in Rules \cup {Absent} : Call(s, op, failing)
    \/ \E s \in Sessions, op \in Ops : CheckFails(s, op)
    \/ \E s \in Sessions, op \in ToolOps \cup {Absent} : Interact(s, op)
    \/ \E answer \in {"yes", "no", "unclear"}, failing \in Rules \cup {Absent} :
          Answer(answer, failing)

GateSpec == GateInit /\ [][GateNext]_gateVars

---------------------------------------------------------------------------
(***************************************************************************)
(* Properties                                                              *)
(***************************************************************************)

\* The calls let through under a rate limit that arrived between two times.
Through(r, from, to) ==
    {i \in 1..Len(allowed) : allowed[i].op \in Policy[r].ops /\ allowed[i].now \in from..to}

MayPend(r) == \E op \in Policy[r].ops : NeedsApproval(op)

\* No window holds more calls than its rate limit permits, across sessions and
\* restarts: except that a call is checked before its approval is asked for
\* and counted only after, so that each session may slip one past the limit
\* while another one's is pending.
LimitUpToPendingApprovals ==
    \A r \in Limits :
        \A from \in 0..clock :
            Cardinality(Through(r, from, from + Policy[r].window))
               <= Policy[r].count + (IF MayPend(r) THEN Cardinality(Sessions) - 1 ELSE 0)

\* Every call let through is still counted by each of its rate limits for as
\* long as the window lasts: not when two come in the same millisecond, one
\* write of several fails, or the daemon restarts is one forgotten.
AllowedIsCounted ==
    \A r \in Limits :
        Cardinality(Through(r, clock - Policy[r].window, clock))
           <= Cardinality(InWindow(r, clock))

\* A call whose rule asks for approval goes through only if the user said yes
\* to its own prompt after it arrived, or, where the rule takes the model's
\* word, said yes to that operation in the same session at most a receipt
\* window before.  One whose rule blocks it never goes through.
ApprovedByUser ==
    \A i \in 1..Len(allowed) :
        LET permit == allowed[i]
            yes(kind) == {y \in said : /\ y.kind = kind /\ y.session = permit.session
                                       /\ y.op = permit.op /\ y.at <= permit.at}
        IN RuleFor[permit.op] # Absent =>
           /\ Policy[RuleFor[permit.op]].action # "block"
           /\ NeedsApproval(permit.op) =>
                 \/ \E y \in yes("gate") : permit.now <= y.at
                 \/ /\ Policy[RuleFor[permit.op]].sufficient
                    /\ \E y \in yes("interact") : permit.now - y.at <= ReceiptWindow
=============================================================================
