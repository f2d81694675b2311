---------------------------- MODULE PromptsProofs ----------------------------
(***************************************************************************)
(* The lane of prompts and the adapter below it are correct for any number *)
(* of requests, events and connections, and any limits of the buffer.      *)
(***************************************************************************)
EXTENDS Prompts, OutboxProofs

Elements(q) == Firsts(q, Len(q))
Distinct(q) == \A i, j \in 1..Len(q) : q[i] = q[j] => i = j

\* q is the end of the sequence a.
Ends(q, a) == Len(q) <= Len(a) /\ \A i \in 1..Len(q) : q[i] = a[Len(a) - Len(q) + i]

LaneTyped ==
    /\ queued \in Seq(Prompts)
    /\ pending \in Prompts \cup {None}
    /\ delivering \in SUBSET Prompts
    /\ timers \in SUBSET Prompts
    /\ shuttingDown \in BOOLEAN
    /\ outcome \in [Prompts -> Outcomes \cup {"none"}]
    /\ asked \in Seq(Prompts)
    /\ answeredBy \in [Prompts -> Prompts \cup {None}]

\* What waits is what was asked and has no outcome, each once, in its order.
LaneOrder ==
    /\ Elements(queued) \cup ({pending} \ {None}) = Unsettled
    /\ pending \notin Elements(queued)
    /\ Distinct(queued)
    /\ Ends(queued, asked)
    /\ \A p \in Prompts : p \notin Elements(asked) => outcome[p] = "none"
    /\ queued # <<>> => pending # None
    /\ shuttingDown => pending = None

LaneInv ==
    /\ LaneTyped
    /\ LaneOrder
    /\ TimerFollowsDelivery
    /\ ReplyReachesItsPrompt

Inv == OutboxInv /\ LaneInv

---------------------------------------------------------------------------
LEMMA EmptyLane == Elements(<<>>) = {} /\ Distinct(<<>>)
  BY EmptySeq DEF Elements, Firsts, Distinct

LEMMA ElementsAre ==
    ASSUME NEW q \in Seq(Prompts)
    PROVE  /\ Elements(q) \in SUBSET Prompts
           /\ \A e : e \in Elements(q) <=> \E i \in 1..Len(q) : q[i] = e
  BY ElementOfSeq DEF Elements, Firsts

\* A request at the end of a lane.
LEMMA LongerLane ==
    ASSUME NEW q \in Seq(Prompts), NEW p \in Prompts
    PROVE  /\ Append(q, p) \in Seq(Prompts) /\ Append(q, p) # <<>>
           /\ Elements(Append(q, p)) = Elements(q) \cup {p}
           /\ Distinct(q) /\ p \notin Elements(q) => Distinct(Append(q, p))
           /\ \A a \in Seq(Prompts) : Ends(q, a) => Ends(Append(q, p), Append(a, p))
  <1>1. /\ Append(q, p) \in Seq(Prompts) /\ Len(Append(q, p)) = Len(q) + 1 /\ Len(q) \in Nat
        /\ \A i \in 1..Len(q) : Append(q, p)[i] = q[i]
        /\ Append(q, p)[Len(q) + 1] = p
    BY AppendIs, LenProperties
  <1>2. Append(q, p) # <<>>
    BY <1>1, EmptySeq
  <1>3. \A i \in 1..Len(q) + 1 : i \in 1..Len(q) \/ i = Len(q) + 1
    BY <1>1
  <1>4. \A i \in 1..Len(q) : i \in 1..Len(q) + 1
    BY <1>1
  <1>5. Len(q) + 1 \in 1..Len(q) + 1
    BY <1>1
  <1>6. \A e : e \in Elements(Append(q, p)) <=> e \in Elements(q) \/ e = p
    <2> DEFINE longer == Append(q, p)
    <2>1. \A e : e \in Elements(q) <=> \E i \in 1..Len(q) : q[i] = e
      BY ElementsAre
    <2>2. longer \in Seq(Prompts) /\ Len(longer) = Len(q) + 1
          /\ (\A i \in 1..Len(q) : longer[i] = q[i]) /\ longer[Len(q) + 1] = p
      BY <1>1
    <2> HIDE DEF longer
    <2>3. \A e : e \in Elements(longer) <=> \E i \in 1..Len(longer) : longer[i] = e
      BY <2>2, ElementsAre
    <2>4. \A e : e \in Elements(longer) <=> e \in Elements(q) \/ e = p
      BY <1>3, <1>4, <1>5, <2>1, <2>2, <2>3
    <2> QED
      BY <2>4 DEF longer
  <1>7. Elements(Append(q, p)) = Elements(q) \cup {p}
    BY <1>6
  <1>8. ASSUME Distinct(q), p \notin Elements(q) PROVE Distinct(Append(q, p))
    <2>1. \A i \in 1..Len(q) : q[i] # p
      BY <1>8, ElementsAre
    <2> QED
      BY <1>1, <1>3, <1>8, <2>1 DEF Distinct
  <1>9. ASSUME NEW a \in Seq(Prompts), Ends(q, a) PROVE Ends(Append(q, p), Append(a, p))
    <2>1. /\ Len(Append(a, p)) = Len(a) + 1 /\ Len(a) \in Nat
          /\ \A i \in 1..Len(a) : Append(a, p)[i] = a[i]
          /\ Append(a, p)[Len(a) + 1] = p
      BY AppendIs, LenProperties
    <2>2. /\ Len(q) <= Len(a)
          /\ \A i \in 1..Len(q) : q[i] = a[Len(a) - Len(q) + i]
      BY <1>9 DEF Ends
    <2>3. \A i \in 1..Len(q) : Len(a) - Len(q) + i \in 1..Len(a)
      BY <1>1, <2>1, <2>2
    <2>4. (Len(a) + 1) - (Len(q) + 1) = Len(a) - Len(q)
      BY <1>1, <2>1
    <2>5. \A i \in 1..Len(q) : Append(q, p)[i] = Append(a, p)[Len(a) - Len(q) + i]
      BY <1>1, <2>1, <2>2, <2>3
    <2>6. (Len(a) - Len(q)) + (Len(q) + 1) = Len(a) + 1
      BY <1>1, <2>1
    <2>7. \A i \in 1..Len(q) + 1 : Append(q, p)[i] = Append(a, p)[Len(a) - Len(q) + i]
      <3> SUFFICES ASSUME NEW i \in 1..Len(q) + 1
                   PROVE  Append(q, p)[i] = Append(a, p)[Len(a) - Len(q) + i]
        OBVIOUS
      <3>1. CASE i \in 1..Len(q)
        BY <2>5, <3>1
      <3>2. CASE i = Len(q) + 1
        BY <1>1, <2>1, <2>6, <3>2
      <3> QED
        BY <1>3, <3>1, <3>2
    <2> QED
      <3>1. /\ Len(Append(a, p)) - Len(Append(q, p)) = Len(a) - Len(q)
            /\ Len(Append(q, p)) <= Len(Append(a, p)) /\ Len(Append(q, p)) = Len(q) + 1
        BY <1>1, <2>1, <2>2, <2>4
      <3> QED
        BY <2>7, <3>1 DEF Ends
  <1> QED
    BY <1>1, <1>2, <1>7, <1>8, <1>9

\* A lane without its first request.
LEMMA ShorterLane ==
    ASSUME NEW q \in Seq(Prompts), q # <<>>
    PROVE  /\ Head(q) \in Prompts /\ Tail(q) \in Seq(Prompts)
           /\ Elements(q) = Elements(Tail(q)) \cup {Head(q)}
           /\ Distinct(q) => Distinct(Tail(q)) /\ Head(q) \notin Elements(Tail(q))
           /\ \A a \in Seq(Prompts) : Ends(q, a) => Ends(Tail(q), a)
  <1>1. /\ Head(q) \in Prompts /\ Head(q) = q[1]
        /\ Tail(q) \in Seq(Prompts) /\ Len(Tail(q)) = Len(q) - 1 /\ Len(q) \in Nat \ {0}
        /\ \A i \in 1..Len(q) - 1 : Tail(q)[i] = q[i + 1]
    <2>1. Len(q) \in Nat \ {0}
      BY EmptySeq
    <2>2. /\ Head(q) \in Prompts /\ Tail(q) \in Seq(Prompts) /\ Len(Tail(q)) = Len(q) - 1
          /\ \A i \in 1..Len(Tail(q)) : Tail(q)[i] = q[i + 1]
      BY HeadTailProperties
    <2>3. Head(q) = q[1]
      BY <2>1
    <2> QED
      BY <2>1, <2>2, <2>3
  <1>2. \A i \in 1..Len(q) - 1 : i + 1 \in 1..Len(q) /\ i + 1 # 1
    BY <1>1
  <1>3. \A k \in 1..Len(q) : k = 1 \/ (k - 1 \in 1..Len(q) - 1 /\ (k - 1) + 1 = k)
    BY <1>1
  <1>4. \A k \in 1..Len(q) : k = 1 \/ \E i \in 1..Len(q) - 1 : Tail(q)[i] = q[k]
    BY <1>1, <1>3
  <1>5. 1 \in 1..Len(q)
    BY <1>1
  <1>6. \A e : e \in Elements(q) <=> e \in Elements(Tail(q)) \/ e = Head(q)
    <2> DEFINE shorter == Tail(q)
    <2>1. \A e : e \in Elements(q) <=> \E i \in 1..Len(q) : q[i] = e
      BY ElementsAre
    <2>2. shorter \in Seq(Prompts) /\ Len(shorter) = Len(q) - 1
          /\ (\A i \in 1..Len(q) - 1 : shorter[i] = q[i + 1])
          /\ \A k \in 1..Len(q) : k = 1 \/ \E i \in 1..Len(q) - 1 : shorter[i] = q[k]
      BY <1>1, <1>4
    <2> HIDE DEF shorter
    <2>3. \A e : e \in Elements(shorter) <=> \E i \in 1..Len(shorter) : shorter[i] = e
      BY <2>2, ElementsAre
    <2>4. \A e : e \in Elements(q) <=> e \in Elements(shorter) \/ e = q[1]
      BY <1>2, <1>5, <2>1, <2>2, <2>3
    <2> QED
      BY <1>1, <2>4 DEF shorter
  <1>7. Elements(q) = Elements(Tail(q)) \cup {Head(q)}
    BY <1>6
  <1>8. ASSUME Distinct(q) PROVE Distinct(Tail(q)) /\ Head(q) \notin Elements(Tail(q))
    <2>1. Head(q) \notin Elements(Tail(q))
      <3>1. \A i \in 1..Len(q) - 1 : Tail(q)[i] # q[1]
        BY <1>1, <1>2, <1>5, <1>8 DEF Distinct
      <3>2. \A e : e \in Elements(Tail(q)) <=> \E i \in 1..Len(Tail(q)) : Tail(q)[i] = e
        BY <1>1, ElementsAre
      <3> QED
        BY <1>1, <3>1, <3>2
    <2>2. ASSUME NEW i \in 1..Len(q) - 1, NEW j \in 1..Len(q) - 1, Tail(q)[i] = Tail(q)[j]
          PROVE  i = j
      <3>1. i + 1 = j + 1
        BY <1>1, <1>2, <1>8, <2>2 DEF Distinct
      <3> QED
        BY <1>1, <3>1
    <2> QED
      BY <1>1, <2>1, <2>2 DEF Distinct
  <1>9. ASSUME NEW a \in Seq(Prompts), Ends(q, a) PROVE Ends(Tail(q), a)
    <2>1. Len(a) \in Nat /\ Len(q) <= Len(a) /\ \A i \in 1..Len(q) : q[i] = a[Len(a) - Len(q) + i]
      BY <1>9, LenProperties DEF Ends
    <2>2. \A i \in 1..Len(q) - 1 : Len(a) - Len(q) + (i + 1) = Len(a) - (Len(q) - 1) + i
      BY <1>1, <2>1
    <2>3. \A i \in 1..Len(q) - 1 : Tail(q)[i] = a[Len(a) - (Len(q) - 1) + i]
      BY <1>1, <1>2, <2>1, <2>2
    <2> QED
      BY <1>1, <2>1, <2>3 DEF Ends
  <1> QED
    BY <1>1, <1>7, <1>8, <1>9

---------------------------------------------------------------------------
\* The lane moves on: of the requests that wait, the first becomes pending.
LEMMA LaneMovesOn ==
    ASSUME LaneTyped, ~shuttingDown,
           NEW requests \in Seq(Prompts), NEW awaited \in SUBSET Prompts,
           activateNextUserResponseRequest(requests, awaited)
    PROVE  /\ OutboxStep
           /\ queued' \in Seq(Prompts) /\ pending' \in Prompts \cup {None}
           /\ delivering' \in SUBSET Prompts
           /\ Elements(queued') \cup ({pending'} \ {None}) = Elements(requests)
           /\ Distinct(requests) => Distinct(queued') /\ pending' \notin Elements(queued')
           /\ \A a \in Seq(Prompts) : Ends(requests, a) => Ends(queued', a)
           /\ queued' # <<>> => pending' # None
           /\ pending' # None => pending' \in delivering'
  <1>1. CASE requests = <<>>
    <2>1. pending' = None /\ queued' = requests /\ delivering' = awaited /\ UNCHANGED outboxVars
      BY <1>1 DEF activateNextUserResponseRequest
    <2>2. Elements(requests) = {}
      BY <1>1, EmptyLane
    <2> QED
      BY <1>1, <2>1, <2>2 DEF OutboxStep
  <1>2. CASE requests # <<>>
    <2>1. /\ pending' = Head(requests) /\ queued' = Tail(requests)
          /\ delivering' = awaited \cup {Head(requests)}
          /\ enqueueOrSend(Head(requests))
      BY <1>2 DEF activateNextUserResponseRequest
    <2>2. /\ Head(requests) \in Prompts /\ Tail(requests) \in Seq(Prompts)
          /\ Elements(requests) = Elements(Tail(requests)) \cup {Head(requests)}
          /\ Distinct(requests) => /\ Distinct(Tail(requests))
                                   /\ Head(requests) \notin Elements(Tail(requests))
          /\ \A a \in Seq(Prompts) : Ends(requests, a) => Ends(Tail(requests), a)
      BY <1>2, ShorterLane
    <2>3. Head(requests) \in Events /\ Head(requests) # None
      BY <2>2, PromptAssumption
    <2>4. OutboxStep
      BY <2>1, <2>3 DEF OutboxStep
    <2> QED
      BY <2>1, <2>2, <2>3, <2>4
  <1> QED
    BY <1>1, <1>2

\* What was asked and has no outcome is in the lane, once.
LEMMA PendingIsUnsettled ==
    ASSUME LaneTyped, LaneOrder
    PROVE  /\ None \notin Prompts
           /\ Elements(asked) \in SUBSET Prompts /\ Elements(queued) \in SUBSET Prompts
           /\ \A p \in Prompts : outcome[p] # "none" => p # pending /\ p \notin Elements(queued)
           /\ pending # None => /\ pending \in Elements(asked) /\ outcome[pending] = "none"
                                /\ ~shuttingDown
  BY ElementsAre, PromptAssumption DEF LaneTyped, LaneOrder, Unsettled, Elements

\* The pending request is settled and the lane moves on.
LEMMA SettleKeeps ==
    ASSUME Inv, NEW p \in Prompts, pending = p, NEW how \in Outcomes,
           NEW awaited \in SUBSET Prompts, SettlePending(p, how, awaited),
           UNCHANGED <<shuttingDown, asked>>,
           answeredBy' \in [Prompts -> Prompts \cup {None}],
           \A r \in Prompts \ {p} : answeredBy'[r] = answeredBy[r],
           answeredBy'[p] # None =>
              answeredBy'[p] = p /\ delivery[p] = "sent" /\ how \in {"answered", "empty"}
    PROVE  OutboxStep /\ LaneInv'
  <1>1. /\ LaneTyped /\ LaneOrder /\ TimerFollowsDelivery /\ ReplyReachesItsPrompt /\ OutboxInv
        /\ None \notin Prompts /\ pending # None /\ ~shuttingDown
        /\ p \in Elements(asked) /\ outcome[p] = "none"
        /\ Elements(asked) \in SUBSET Prompts /\ Elements(queued) \in SUBSET Prompts
    BY PendingIsUnsettled, PromptAssumption DEF Inv, LaneInv
  <1>2. /\ outcome' = [outcome EXCEPT ![p] = how] /\ timers' = timers \ {p}
        /\ activateNextUserResponseRequest(queued, awaited)
    BY DEF SettlePending
  <1>3. /\ OutboxStep
        /\ queued' \in Seq(Prompts) /\ pending' \in Prompts \cup {None}
        /\ delivering' \in SUBSET Prompts
        /\ Elements(queued') \cup ({pending'} \ {None}) = Elements(queued)
        /\ Distinct(queued') /\ pending' \notin Elements(queued')
        /\ Ends(queued', asked)
        /\ queued' # <<>> => pending' # None
        /\ pending' # None => pending' \in delivering'
    BY <1>1, <1>2, LaneMovesOn DEF LaneTyped, LaneOrder
  <1>4. /\ outcome' \in [Prompts -> Outcomes \cup {"none"}]
        /\ outcome'[p] = how /\ how # "none"
        /\ \A r \in Prompts : r # p => outcome'[r] = outcome[r]
    BY <1>1, <1>2 DEF LaneTyped, Outcomes
  <1>5. LaneTyped'
    BY <1>1, <1>2, <1>3, <1>4 DEF LaneTyped
  <1>6. /\ Elements(queued) \cup {p} = {r \in Elements(asked) : outcome[r] = "none"}
        /\ p \notin Elements(queued)
    BY <1>1 DEF LaneOrder, Unsettled, Elements
  <1>7. Elements(queued) = {r \in Elements(asked) : outcome'[r] = "none"}
    BY <1>1, <1>4, <1>6
  <1>8. Elements(queued') \cup ({pending'} \ {None}) = Unsettled'
    BY <1>3, <1>7 DEF Unsettled, Elements
  <1>9. \A r \in Prompts : r \notin Elements(asked) => outcome'[r] = "none"
    BY <1>1, <1>4 DEF LaneOrder
  <1>10. LaneOrder'
    BY <1>1, <1>3, <1>8, <1>9 DEF LaneOrder
  <1>11. timers' = {}
    BY <1>1, <1>2 DEF TimerFollowsDelivery
  <1>12. TimerFollowsDelivery'
    BY <1>3, <1>11 DEF TimerFollowsDelivery
  <1>13. ASSUME NEW r \in Prompts, answeredBy'[r] # None
         PROVE  answeredBy'[r] = r /\ delivery'[r] = "sent" /\ outcome'[r] \in {"answered", "empty"}
    <2>1. answeredBy'[r] = r /\ delivery[r] = "sent" /\ outcome'[r] \in {"answered", "empty"}
      BY <1>1, <1>4, <1>13 DEF ReplyReachesItsPrompt
    <2>2. delivery'[r] = delivery[r]
      BY <1>1, <1>3, <2>1, DeliveryIsFinal, PromptAssumption DEF Settled
    <2> QED
      BY <2>1, <2>2
  <1> QED
    BY <1>3, <1>5, <1>10, <1>12, <1>13 DEF LaneInv, ReplyReachesItsPrompt

---------------------------------------------------------------------------
LEMMA AskKeeps ==
    ASSUME Inv, NEW p \in Prompts, Ask(p)
    PROVE  OutboxStep /\ LaneInv'
  <1>1. /\ LaneTyped /\ LaneOrder /\ TimerFollowsDelivery /\ ReplyReachesItsPrompt /\ OutboxInv
        /\ None \notin Prompts /\ p \in Events
        /\ Elements(asked) \in SUBSET Prompts /\ Elements(queued) \in SUBSET Prompts
    BY PendingIsUnsettled, PromptAssumption DEF Inv, LaneInv
  <1>2. /\ ~shuttingDown /\ p \notin Elements(asked) /\ asked' = Append(asked, p)
        /\ UNCHANGED <<timers, shuttingDown, outcome, answeredBy>>
    BY DEF Ask, Elements
  <1>3. /\ asked' \in Seq(Prompts) /\ Elements(asked') = Elements(asked) \cup {p}
        /\ Append(queued, p) \in Seq(Prompts) /\ Append(queued, p) # <<>>
        /\ Elements(Append(queued, p)) = Elements(queued) \cup {p}
        /\ Ends(Append(queued, p), asked')
    BY <1>1, <1>2, LongerLane DEF LaneTyped, LaneOrder
  <1>4. outcome[p] = "none" /\ p # pending /\ p \notin Elements(queued)
    BY <1>1, <1>2 DEF LaneOrder, Unsettled, Elements
  <1>5. Distinct(Append(queued, p))
    BY <1>1, <1>4, LongerLane DEF LaneTyped, LaneOrder
  <1>6. {r \in Elements(asked') : outcome'[r] = "none"}
           = Elements(queued) \cup ({pending} \ {None}) \cup {p}
    BY <1>1, <1>2, <1>3, <1>4 DEF LaneOrder, Unsettled, Elements
  <1>7. /\ OutboxStep
        /\ queued' \in Seq(Prompts) /\ pending' \in Prompts \cup {None}
        /\ delivering' \in SUBSET Prompts
        /\ Elements(queued') \cup ({pending'} \ {None})
              = Elements(queued) \cup ({pending} \ {None}) \cup {p}
        /\ Distinct(queued') /\ pending' \notin Elements(queued')
        /\ Ends(queued', asked')
        /\ queued' # <<>> => pending' # None
        /\ \/ pending # None /\ pending' = pending /\ delivering' = delivering
           \/ pending = None /\ (pending' # None => pending' \in delivering')
    <2>1. CASE pending = None
      <3>1. activateNextUserResponseRequest(Append(queued, p), delivering)
        BY <2>1 DEF Ask
      <3>2. delivering \in SUBSET Prompts
        BY <1>1 DEF LaneTyped
      <3> QED
        BY <1>1, <1>2, <1>3, <1>5, <2>1, <3>1, <3>2, LaneMovesOn
    <2>2. CASE pending # None
      <3>1. queued' = Append(queued, p) /\ UNCHANGED <<pending, delivering, outboxVars>>
        BY <2>2 DEF Ask
      <3>2. OutboxStep
        BY <3>1 DEF OutboxStep
      <3> QED
        BY <1>1, <1>3, <1>4, <1>5, <2>2, <3>1, <3>2 DEF LaneTyped, LaneOrder
    <2> QED
      BY <2>1, <2>2
  <1>8. LaneTyped'
    BY <1>1, <1>2, <1>3, <1>7 DEF LaneTyped
  <1>9. Elements(queued') \cup ({pending'} \ {None}) = Unsettled'
    BY <1>6, <1>7 DEF Unsettled, Elements
  <1>10. LaneOrder'
    BY <1>1, <1>2, <1>3, <1>7, <1>9 DEF LaneOrder
  <1>11. TimerFollowsDelivery'
    <2>1. timers' \subseteq {pending'}
      BY <1>1, <1>2, <1>7 DEF TimerFollowsDelivery, LaneTyped
    <2>2. \A r \in timers' : delivery'[r] = "sent"
      BY <1>1, <1>2, <1>7, DeliveryIsFinal, PromptAssumption
      DEF TimerFollowsDelivery, LaneTyped, Settled
    <2> QED
      BY <1>1, <1>2, <1>7, <2>1, <2>2 DEF TimerFollowsDelivery
  <1>12. ReplyReachesItsPrompt'
    BY <1>1, <1>2, <1>7, DeliveryIsFinal, PromptAssumption DEF ReplyReachesItsPrompt, Settled
  <1> QED
    BY <1>7, <1>8, <1>10, <1>11, <1>12 DEF LaneInv

LEMMA DeliverySettlesKeeps ==
    ASSUME Inv, NEW p \in Prompts, DeliverySettles(p)
    PROVE  OutboxStep /\ LaneInv'
  <1>1. /\ LaneTyped /\ LaneOrder /\ TimerFollowsDelivery /\ ReplyReachesItsPrompt
        /\ pending # None => outcome[pending] = "none"
        /\ None \notin Prompts
    BY PendingIsUnsettled DEF Inv, LaneInv
  <1>2. CASE pending = p /\ delivery[p] # "sent"
    <2>1. /\ SettlePending(p, "undelivered", delivering \ {p})
          /\ UNCHANGED <<shuttingDown, asked, answeredBy>>
      BY <1>2 DEF DeliverySettles
    <2>2. answeredBy[p] = None
      BY <1>1, <1>2 DEF ReplyReachesItsPrompt
    <2>3. "undelivered" \in Outcomes /\ delivering \ {p} \in SUBSET Prompts
          /\ answeredBy' \in [Prompts -> Prompts \cup {None}]
      BY <1>1, <2>1 DEF Outcomes, LaneTyped
    <2> QED
      BY <1>2, <2>1, <2>2, <2>3, SettleKeeps
  <1>3. CASE ~(pending = p /\ delivery[p] # "sent")
    <2>1. /\ timers' = IF pending = p THEN timers \cup {p} ELSE timers
          /\ delivering' = delivering \ {p}
          /\ UNCHANGED <<outcome, pending, queued, outboxVars, shuttingDown, asked, answeredBy>>
      BY <1>3 DEF DeliverySettles
    <2>2. OutboxStep
      BY <2>1 DEF OutboxStep
    <2>3. delivery' = delivery
      BY <2>1 DEF outboxVars
    <2>4. LaneTyped' /\ LaneOrder'
      BY <1>1, <2>1 DEF LaneTyped, LaneOrder, Unsettled
    <2>5. TimerFollowsDelivery'
      BY <1>1, <1>3, <2>1, <2>3 DEF TimerFollowsDelivery
    <2>6. ReplyReachesItsPrompt'
      BY <1>1, <2>1, <2>3 DEF ReplyReachesItsPrompt
    <2> QED
      BY <2>2, <2>4, <2>5, <2>6 DEF LaneInv
  <1> QED
    BY <1>2, <1>3

LEMMA TimerFiresKeeps ==
    ASSUME Inv, NEW p \in Prompts, TimerFires(p)
    PROVE  OutboxStep /\ LaneInv'
  <1>1. /\ LaneTyped /\ ReplyReachesItsPrompt /\ outcome[p] = "none"
        /\ pending = p /\ SettlePending(p, "timeout", delivering)
        /\ UNCHANGED <<shuttingDown, asked, answeredBy>>
    BY PendingIsUnsettled, PromptAssumption DEF Inv, LaneInv, TimerFires
  <1>2. answeredBy[p] = None
    BY <1>1 DEF ReplyReachesItsPrompt
  <1>3. "timeout" \in Outcomes /\ delivering \in SUBSET Prompts
        /\ answeredBy' \in [Prompts -> Prompts \cup {None}]
    BY <1>1 DEF Outcomes, LaneTyped
  <1> QED
    BY <1>1, <1>2, <1>3, SettleKeeps

LEMMA ReplyKeeps ==
    ASSUME Inv, NEW id \in Prompts \cup {None}, NEW isEmpty \in BOOLEAN, Reply(id, isEmpty)
    PROVE  OutboxStep /\ LaneInv'
  <1> DEFINE how == IF isEmpty THEN "empty" ELSE "answered"
  <1>1. /\ LaneTyped /\ None \notin Prompts
        /\ pending # None /\ id \in {None, pending}
        /\ id # None => delivery[id] = "sent"
        /\ answeredBy' = [answeredBy EXCEPT ![pending] = id]
        /\ SettlePending(pending, how, delivering)
        /\ UNCHANGED <<shuttingDown, asked>>
    BY PendingIsUnsettled DEF Inv, LaneInv, Reply, shouldConsumePendingUserResponseRequest
  <1>2. pending \in Prompts
    BY <1>1 DEF LaneTyped
  <1>3. /\ answeredBy' \in [Prompts -> Prompts \cup {None}]
        /\ answeredBy'[pending] = id
        /\ \A r \in Prompts \ {pending} : answeredBy'[r] = answeredBy[r]
    BY <1>1, <1>2 DEF LaneTyped
  <1>4. how \in Outcomes /\ how \in {"answered", "empty"} /\ delivering \in SUBSET Prompts
    BY <1>1 DEF Outcomes, LaneTyped
  <1> HIDE DEF how
  <1> QED
    BY <1>1, <1>2, <1>3, <1>4, SettleKeeps

LEMMA ShutdownKeeps ==
    ASSUME Inv, Shutdown
    PROVE  OutboxStep /\ LaneInv'
  <1>1. /\ LaneTyped /\ LaneOrder /\ TimerFollowsDelivery /\ ReplyReachesItsPrompt
        /\ None \notin Prompts
        /\ Elements(asked) \in SUBSET Prompts
        /\ \A p \in Prompts : outcome[p] # "none" => p # pending /\ p \notin Elements(queued)
    BY PendingIsUnsettled DEF Inv, LaneInv
  <1>2. /\ shuttingDown' = TRUE /\ pending' = None /\ queued' = <<>> /\ timers' = {}
        /\ outcome' = [p \in Prompts |-> IF p = pending \/ p \in Elements(queued)
                                         THEN "shutdown" ELSE outcome[p]]
        /\ UNCHANGED <<delivering, asked, answeredBy, outboxVars>>
    BY DEF Shutdown, Elements
  <1>3. OutboxStep /\ delivery' = delivery
    BY <1>2 DEF OutboxStep, outboxVars
  <1>4. LaneTyped'
    BY <1>1, <1>2, EmptySeq DEF LaneTyped, Outcomes
  <1>5. Elements(queued') = {} /\ Distinct(queued') /\ Ends(queued', asked')
    <2>1. Len(queued') = 0 /\ Len(asked') \in Nat
      BY <1>2, <1>4, EmptySeq, LenProperties DEF LaneTyped
    <2> QED
      BY <1>2, <2>1, EmptyLane DEF Ends
  <1>6. \A p \in Elements(asked) : outcome'[p] # "none"
    BY <1>1, <1>2 DEF LaneOrder, Unsettled, Elements
  <1>7. Unsettled' = {}
    BY <1>2, <1>6 DEF Unsettled, Elements
  <1>8. \A p \in Prompts : p \notin Elements(asked) => outcome'[p] = "none"
    BY <1>1, <1>2 DEF LaneOrder, Unsettled, Elements
  <1>9. LaneOrder'
    BY <1>2, <1>5, <1>7, <1>8 DEF LaneOrder
  <1>10. TimerFollowsDelivery' /\ ReplyReachesItsPrompt'
    BY <1>1, <1>2, <1>3 DEF TimerFollowsDelivery, ReplyReachesItsPrompt
  <1> QED
    BY <1>3, <1>4, <1>9, <1>10 DEF LaneInv

\* Whatever happens in the adapter alone leaves the lane as it is.
LEMMA AdapterKeeps ==
    ASSUME Inv, OutboxStep, UNCHANGED promptVars
    PROVE  LaneInv'
  <1>1. LaneTyped' /\ LaneOrder'
    BY DEF promptVars, Inv, LaneInv, LaneTyped, LaneOrder, Unsettled
  <1>2. \A p \in Prompts : delivery[p] = "sent" => delivery'[p] = "sent"
    BY DeliveryIsFinal, PromptAssumption DEF Inv, Settled
  <1>3. TimerFollowsDelivery'
    BY <1>2 DEF promptVars, Inv, LaneInv, LaneTyped, TimerFollowsDelivery
  <1>4. ReplyReachesItsPrompt'
    BY <1>2 DEF promptVars, Inv, LaneInv, ReplyReachesItsPrompt
  <1> QED
    BY <1>1, <1>3, <1>4 DEF LaneInv

---------------------------------------------------------------------------
LEMMA Inductive ==
    ASSUME Inv, [Next]_vars
    PROVE  Inv'
  <1>1. ASSUME OutboxStep /\ LaneInv' PROVE Inv'
    BY <1>1, OutboxIsKept DEF Inv
  <1>2. ASSUME OutboxStep, UNCHANGED promptVars PROVE Inv'
    BY <1>1, <1>2, AdapterKeeps
  <1>3. ASSUME NEW p \in Prompts, Ask(p) \/ DeliverySettles(p) \/ TimerFires(p) PROVE Inv'
    BY <1>1, <1>3, AskKeeps, DeliverySettlesKeeps, TimerFiresKeeps
  <1>4. ASSUME NEW id \in Prompts \cup {None}, NEW isEmpty \in BOOLEAN, Reply(id, isEmpty)
        PROVE  Inv'
    BY <1>1, <1>4, ReplyKeeps
  <1>5. CASE Shutdown
    BY <1>1, <1>5, ShutdownKeeps
  <1>6. ASSUME NEW e \in Events \ Prompts, Notify(e) PROVE Inv'
    BY <1>2, <1>6 DEF Notify, OutboxStep
  <1>7. CASE ConnectionStep /\ UNCHANGED promptVars
    BY <1>2, <1>7 DEF OutboxStep
  <1>8. CASE StopAdapter
    BY <1>2, <1>8 DEF StopAdapter, OutboxStep
  <1>9. CASE UNCHANGED vars
    BY <1>2, <1>9 DEF vars, OutboxStep
  <1> QED
    BY <1>3, <1>4, <1>5, <1>6, <1>7, <1>8, <1>9 DEF Next

\* Whatever the lane does is one step of the adapter below it.
LEMMA StepOfOutbox ==
    ASSUME Inv, [Next]_vars
    PROVE  OutboxStep
  <1>1. ASSUME NEW p \in Prompts, Ask(p) \/ DeliverySettles(p) \/ TimerFires(p) PROVE OutboxStep
    BY <1>1, AskKeeps, DeliverySettlesKeeps, TimerFiresKeeps
  <1>2. ASSUME NEW id \in Prompts \cup {None}, NEW isEmpty \in BOOLEAN, Reply(id, isEmpty)
        PROVE  OutboxStep
    BY <1>2, ReplyKeeps
  <1>3. CASE Shutdown
    BY <1>3, ShutdownKeeps
  <1>4. ASSUME NEW e \in Events \ Prompts, Notify(e) PROVE OutboxStep
    BY <1>4 DEF Notify, OutboxStep
  <1>5. CASE ConnectionStep \/ StopAdapter \/ UNCHANGED vars
    BY <1>5 DEF StopAdapter, OutboxStep, vars
  <1> QED
    BY <1>1, <1>2, <1>3, <1>4, <1>5 DEF Next

LEMMA Starts == Init => Inv
  <1> SUFFICES ASSUME Init PROVE Inv
    OBVIOUS
  <1>1. OutboxInv
    BY OutboxStarts DEF Init
  <1>2. LaneTyped
    BY EmptySeq DEF Init, LaneTyped
  <1>3. Elements(queued) = {} /\ Elements(asked) = {} /\ Distinct(queued) /\ Ends(queued, asked)
    BY EmptyLane, EmptySeq DEF Init, Ends
  <1>4. Unsettled = {}
    BY <1>3 DEF Unsettled, Elements
  <1>5. LaneOrder
    BY <1>3, <1>4 DEF Init, LaneOrder
  <1>6. TimerFollowsDelivery /\ ReplyReachesItsPrompt
    BY DEF Init, TimerFollowsDelivery, ReplyReachesItsPrompt
  <1> QED
    BY <1>1, <1>2, <1>5, <1>6 DEF Inv, LaneInv

LEMMA Invariance == Spec => []Inv
  <1>1. Init => Inv
    BY Starts
  <1>2. Inv /\ [Next]_vars => Inv'
    BY Inductive
  <1> QED
    BY <1>1, <1>2, PTL DEF Spec

---------------------------------------------------------------------------
\* No request is forgotten: whatever is asked is pending or queued, in the
\* order of the asking, until awaitUserResponse is settled, and nothing is once
\* the runtime shuts down.
THEOREM PromptsAreKept == Spec => []NoPromptLost
  <1>1. ASSUME Inv PROVE NoPromptLost
    <2>1. /\ LaneTyped /\ LaneOrder
      BY <1>1 DEF Inv, LaneInv
    <2>2. queued = Rest(asked, Len(asked) - Len(queued))
      <3>1. /\ Len(queued) \in Nat /\ Len(asked) \in Nat /\ Len(queued) <= Len(asked)
            /\ queued \in Seq(Prompts) /\ asked \in Seq(Prompts)
            /\ \A i \in 1..Len(queued) : queued[i] = asked[Len(asked) - Len(queued) + i]
        BY <2>1, LenProperties DEF LaneTyped, LaneOrder, Ends
      <3> DEFINE n == Len(asked) - Len(queued)
                 rest == Rest(asked, n)
      <3>2. n \in 0..Len(asked) /\ Len(asked) - n = Len(queued)
        BY <3>1
      <3>3. rest \in Seq(Prompts) /\ Len(rest) = Len(queued)
            /\ \A i \in 1..Len(queued) : rest[i] = asked[n + i]
        <4> HIDE DEF n
        <4> QED
          BY <3>1, <3>2, RestIs
      <3>4. \A i \in 1..Len(queued) : queued[i] = rest[i]
        BY <3>1, <3>3
      <3> HIDE DEF n, rest
      <3>5. queued = rest
        BY <3>1, <3>3, <3>4, SeqEqual
      <3> QED
        BY <3>5 DEF n, rest
    <2>3. shuttingDown => Unsettled = {}
      BY <2>1, EmptyLane DEF LaneOrder
    <2> QED
      BY <2>1, <2>2, <2>3 DEF NoPromptLost, LaneOrder, Elements
  <1>2. Inv => NoPromptLost
    BY <1>1
  <1> QED
    BY <1>2, Invariance, PTL

\* startOrResumeUserResponseTimer runs for the pending request, from the moment
\* its message was sent, and for no other.
THEOREM TimersFollowDelivery == Spec => []TimerFollowsDelivery
  <1>1. Inv => TimerFollowsDelivery
    BY DEF Inv, LaneInv
  <1> QED
    BY <1>1, Invariance, PTL

\* A reply that carries the id of a prompt answers that prompt.
THEOREM RepliesReachTheirPrompts == Spec => []ReplyReachesItsPrompt
  <1>1. Inv => ReplyReachesItsPrompt
    BY DEF Inv, LaneInv
  <1> QED
    BY <1>1, Invariance, PTL

\* The promise of a request is settled at most once.
THEOREM OutcomesAreFinal == Spec => OutcomeIsFinal
  <1>1. ASSUME Inv, [Next]_vars, NEW p \in Prompts, outcome[p] # "none"
        PROVE  outcome'[p] = outcome[p]
    <2>1. /\ LaneTyped /\ None \notin Prompts /\ p # pending /\ p \notin Elements(queued)
      BY <1>1, PendingIsUnsettled DEF Inv, LaneInv
    <2>2. ASSUME NEW r \in Prompts, NEW how, NEW awaited, pending = r,
                 SettlePending(r, how, awaited)
          PROVE  outcome'[p] = outcome[p]
      BY <2>1, <2>2 DEF SettlePending, LaneTyped
    <2>3. ASSUME NEW r \in Prompts, Ask(r) \/ DeliverySettles(r) \/ TimerFires(r)
          PROVE  outcome'[p] = outcome[p]
      BY <2>2, <2>3 DEF Ask, DeliverySettles, TimerFires
    <2>4. ASSUME NEW id \in Prompts \cup {None}, NEW isEmpty \in BOOLEAN, Reply(id, isEmpty)
          PROVE  outcome'[p] = outcome[p]
      <3>1. pending \in Prompts
        BY <2>1, <2>4 DEF Reply, shouldConsumePendingUserResponseRequest, LaneTyped
      <3> QED
        BY <2>2, <2>4, <3>1 DEF Reply
    <2>5. CASE Shutdown
      BY <2>1, <2>5 DEF Shutdown, Elements
    <2>6. CASE UNCHANGED promptVars
      BY <2>6 DEF promptVars
    <2> QED
      BY <1>1, <2>3, <2>4, <2>5, <2>6 DEF Next, Notify, StopAdapter, vars
  <1>2. Inv /\ [Next]_vars =>
           [\A p \in Prompts : outcome[p] # "none" => outcome'[p] = outcome[p]]_vars
    BY <1>1
  <1> QED
    BY <1>2, Invariance, PTL DEF Spec, OutcomeIsFinal

\* enqueueOrSend and the flush of a new connection leave nothing in the queue
\* that could be sent.
THEOREM ConnectedQueueIsEmpty == Spec => []NothingWaitsWhileConnected
  <1>1. Inv => NothingWaitsWhileConnected
    BY DEF Inv, OutboxInv
  <1> QED
    BY <1>1, Invariance, PTL

\* Events are sent in the order of their submission.
THEOREM EventsKeepTheirOrder == Spec => []NoOvertaking
  <1>1. Inv => NoOvertaking
    BY DEF Inv, OutboxInv, QueueInv
  <1> QED
    BY <1>1, Invariance, PTL

\* The handlers of close and of failing sends leave a newer connection alone.
THEOREM LatestClientStaysServed == Spec => []LatestClientIsServed
  <1>1. Inv => LatestClientIsServed
    BY DEF Inv, OutboxInv
  <1> QED
    BY <1>1, Invariance, PTL

LEMMA BytesInvariance == Spec => []BytesInv
  <1>1. Init => BytesInv
    BY BytesStart DEF Init
  <1>2. Inv /\ BytesInv /\ [Next]_vars => BytesInv'
    BY StepOfOutbox, BytesAreKept DEF Inv
  <1> QED
    BY <1>1, <1>2, Invariance, PTL DEF Spec

\* The buffer of the adapter holds the unsettled deliveries and their exact size,
\* within both limits: however large an event is, and however many sends fail.
THEOREM BufferStaysAccounted == Spec => []BufferAccounted
  <1>1. Inv /\ BytesInv => BufferAccounted
    BY BufferIsAccounted DEF Inv
  <1> QED
    BY <1>1, Invariance, BytesInvariance, PTL

\* trimQueueToFit drops the oldest events, and not one more than the limits ask.
THEOREM OnlyOldestAreLost == Spec => LosesOldestOnly
  <1>1. Inv /\ BytesInv /\ [Next]_vars =>
           [\A e \in Events :
               LET lost == {f \in Events : delivery[f] # "dropped" /\ delivery'[f] = "dropped"} IN
               e \in lost =>
                  /\ \A f \in Events : delivery'[f] = "buffered" => stamp'[e] < stamp'[f]
                  /\ (\A f \in lost : stamp'[f] <= stamp'[e]) =>
                        \/ Len(outboundQueue') + 1 > MaxBufferedMessages
                        \/ outboundQueueBytes' + SizeBytes[e] > MaxBufferedBytes]_outboxVars
    BY StepOfOutbox, OldestAreLost DEF Inv, OldestLost
  <1> QED
    BY <1>1, Invariance, BytesInvariance, PTL DEF Spec, LosesOldestOnly

---------------------------------------------------------------------------
(***************************************************************************)
(* The lane implements the queue of Questions.                             *)
(***************************************************************************)

\* The message of a request is submitted when it becomes pending, not before.
TurnInv ==
    \A p \in Prompts : delivery[p] # "new" => p \in Elements(asked) /\ p \notin Elements(queued)

\* When the lane moves on it submits the first of the requests, if any.
LEMMA LaneSubmitsFirst ==
    ASSUME OutboxInv, LaneTyped, ~shuttingDown,
           NEW requests \in Seq(Prompts), Distinct(requests), NEW awaited \in SUBSET Prompts,
           activateNextUserResponseRequest(requests, awaited),
           NEW p \in Prompts, delivery[p] = "new", delivery'[p] # "new"
    PROVE  p \in Elements(requests) /\ p \notin Elements(queued')
  <1>1. p \in Events /\ Prompts \subseteq Events
    BY PromptAssumption
  <1>2. requests # <<>>
    BY <1>1, NewStaysNew DEF activateNextUserResponseRequest
  <1>3. queued' = Tail(requests) /\ enqueueOrSend(Head(requests))
    BY <1>2 DEF activateNextUserResponseRequest
  <1>4. /\ Head(requests) \in Prompts
        /\ Head(requests) \in Elements(requests)
        /\ Head(requests) \notin Elements(Tail(requests))
    BY <1>2, ShorterLane
  <1>5. p = Head(requests)
    BY <1>1, <1>3, <1>4, NewStaysNew
  <1> QED
    BY <1>3, <1>4, <1>5

\* What was submitted stays submitted.
LEMMA SubmittedStays ==
    ASSUME Inv, TurnInv, [Next]_vars
    PROVE  TurnInv'
  <1>1. /\ LaneTyped /\ LaneOrder /\ OutboxInv /\ LaneTyped' /\ LaneOrder'
        /\ Elements(queued) \in SUBSET Prompts /\ Elements(asked) \in SUBSET Prompts
        /\ Prompts \subseteq Events
    BY PendingIsUnsettled, Inductive, PromptAssumption DEF Inv, LaneInv
  <1>2. ASSUME NEW awaited \in SUBSET Prompts, ~shuttingDown,
               activateNextUserResponseRequest(queued, awaited), UNCHANGED asked
        PROVE  TurnInv'
    <2>1. Elements(queued') \subseteq Elements(queued)
      BY <1>1, <1>2, LaneMovesOn DEF LaneTyped
    <2>2. ASSUME NEW p \in Prompts, delivery'[p] # "new"
          PROVE  p \in Elements(asked') /\ p \notin Elements(queued')
      <3>1. CASE delivery[p] # "new"
        BY <1>2, <2>1, <3>1 DEF TurnInv
      <3>2. CASE delivery[p] = "new"
        <4>1. p \in Elements(queued) /\ p \notin Elements(queued')
          BY <1>1, <1>2, <2>2, <3>2, LaneSubmitsFirst DEF LaneTyped, LaneOrder
        <4>2. Elements(queued) \subseteq Elements(asked)
          BY <1>1 DEF LaneOrder, Unsettled, Elements
        <4> QED
          BY <1>2, <4>1, <4>2
      <3> QED
        BY <3>1, <3>2
    <2> QED
      BY <2>2 DEF TurnInv
  <1>3. ASSUME UNCHANGED <<queued, asked>>,
               \/ \E e \in Events \ Prompts : enqueueOrSend(e)
               \/ ConnectionStep \/ Stop \/ UNCHANGED outboxVars
        PROVE  TurnInv'
    <2>1. \A p \in Prompts : delivery[p] = "new" => delivery'[p] = "new"
      BY <1>1, <1>3, NewStaysNew
    <2> QED
      BY <1>3, <2>1 DEF TurnInv
  <1>4. ASSUME NEW q \in Prompts, Ask(q) PROVE TurnInv'
    <2>1. /\ ~shuttingDown /\ q \notin Elements(asked) /\ asked' = Append(asked, q)
          /\ q \notin Elements(queued)
      BY <1>1, <1>4 DEF Ask, LaneOrder, Unsettled, Elements
    <2>2. /\ Elements(asked') = Elements(asked) \cup {q}
          /\ Append(queued, q) \in Seq(Prompts)
          /\ Elements(Append(queued, q)) = Elements(queued) \cup {q}
          /\ Distinct(Append(queued, q))
      BY <1>1, <2>1, LongerLane DEF LaneTyped, LaneOrder
    <2>3. delivery[q] = "new"
      BY <2>1 DEF TurnInv
    <2>4. CASE pending # None
      <3>1. queued' = Append(queued, q) /\ delivery' = delivery
        BY <1>4, <2>4 DEF Ask, outboxVars
      <3> QED
        BY <2>1, <2>2, <2>3, <3>1 DEF TurnInv
    <2>5. CASE pending = None
      <3>1. activateNextUserResponseRequest(Append(queued, q), delivering)
            /\ delivering \in SUBSET Prompts
        BY <1>1, <1>4, <2>5 DEF Ask, LaneTyped
      <3>2. Elements(queued') \subseteq Elements(Append(queued, q))
        BY <1>1, <2>1, <2>2, <3>1, LaneMovesOn
      <3>3. Elements(queued) \subseteq Elements(asked)
        BY <1>1 DEF LaneOrder, Unsettled, Elements
      <3>4. queued = <<>>
        BY <1>1, <2>5 DEF LaneOrder
      <3>5. ASSUME NEW p \in Prompts, delivery'[p] # "new"
            PROVE  p \in Elements(asked') /\ p \notin Elements(queued')
        <4>1. CASE delivery[p] = "new"
          <5>1. p \in Elements(Append(queued, q)) /\ p \notin Elements(queued')
            BY <1>1, <2>1, <2>2, <3>1, <3>5, <4>1, LaneSubmitsFirst
          <5> QED
            BY <2>2, <3>3, <5>1
        <4>2. CASE delivery[p] # "new"
          <5>1. p \in Elements(asked) /\ p \notin Elements(queued) /\ p # q
            BY <2>1, <4>2 DEF TurnInv
          <5> QED
            BY <2>2, <3>2, <5>1
        <4> QED
          BY <4>1, <4>2
      <3> QED
        BY <3>5 DEF TurnInv
    <2> QED
      BY <2>4, <2>5
  <1>5. ASSUME NEW q \in Prompts, DeliverySettles(q) PROVE TurnInv'
    <2>1. CASE pending = q /\ delivery[q] # "sent"
      <3>1. /\ ~shuttingDown /\ UNCHANGED asked /\ delivering \ {q} \in SUBSET Prompts
            /\ activateNextUserResponseRequest(queued, delivering \ {q})
        BY <1>1, <1>5, <2>1, PromptAssumption
        DEF DeliverySettles, SettlePending, LaneTyped, LaneOrder
      <3> QED
        BY <1>2, <3>1
    <2>2. CASE ~(pending = q /\ delivery[q] # "sent")
      BY <1>3, <1>5, <2>2 DEF DeliverySettles
    <2> QED
      BY <2>1, <2>2
  <1>6. ASSUME NEW q \in Prompts, TimerFires(q) PROVE TurnInv'
    <2>1. /\ ~shuttingDown /\ UNCHANGED asked /\ delivering \in SUBSET Prompts
          /\ activateNextUserResponseRequest(queued, delivering)
      BY <1>1, <1>6, PromptAssumption DEF TimerFires, SettlePending, LaneTyped, LaneOrder
    <2> QED
      BY <1>2, <2>1
  <1>7. ASSUME NEW id \in Prompts \cup {None}, NEW isEmpty \in BOOLEAN, Reply(id, isEmpty)
        PROVE  TurnInv'
    <2>1. /\ ~shuttingDown /\ UNCHANGED asked /\ delivering \in SUBSET Prompts
          /\ activateNextUserResponseRequest(queued, delivering)
      BY <1>1, <1>7 DEF Reply, SettlePending, LaneTyped
    <2> QED
      BY <1>2, <2>1
  <1>8. CASE Shutdown
    <2>1. queued' = <<>> /\ UNCHANGED <<asked, delivery>>
      BY <1>8 DEF Shutdown, outboxVars
    <2> QED
      BY <2>1, EmptyLane DEF TurnInv
  <1>9. ASSUME NEW e \in Events \ Prompts, Notify(e) PROVE TurnInv'
    BY <1>3, <1>9 DEF Notify, promptVars
  <1>10. CASE ConnectionStep /\ UNCHANGED promptVars
    BY <1>3, <1>10 DEF promptVars
  <1>11. CASE StopAdapter \/ UNCHANGED vars
    BY <1>3, <1>11 DEF StopAdapter, promptVars, vars
  <1> QED
    BY <1>4, <1>5, <1>6, <1>7, <1>8, <1>9, <1>10, <1>11 DEF Next

\* A request in front of others.
LEMMA InFront ==
    ASSUME NEW p \in Prompts, NEW q \in Seq(Prompts)
    PROVE  /\ <<p>> \o q \in Seq(Prompts) /\ <<p>> \o q # <<>>
           /\ Head(<<p>> \o q) = p /\ Tail(<<p>> \o q) = q
           /\ \A r : (\E i \in 1..Len(<<p>> \o q) : (<<p>> \o q)[i] = r) <=> r = p \/ r \in Elements(q)
           /\ q # <<>> => <<Head(q)>> \o Tail(q) = q
           /\ \A r \in Prompts : <<p>> \o Append(q, r) = Append(<<p>> \o q, r)
           /\ <<p>> \o <<>> = <<p>>
  <1> DEFINE all == <<p>> \o q
  <1>1. <<p>> \in Seq(Prompts) /\ Len(<<p>>) = 1 /\ <<p>>[1] = p /\ Len(q) \in Nat
    OBVIOUS
  <1>2. /\ all \in Seq(Prompts) /\ Len(all) = Len(q) + 1 /\ all[1] = p
        /\ \A i \in 1..Len(q) : all[i + 1] = q[i]
    <2>1. /\ all \in Seq(Prompts) /\ Len(all) = 1 + Len(q)
          /\ \A i \in 1..1 + Len(q) : all[i] = IF i <= 1 THEN <<p>>[i] ELSE q[i - 1]
      BY <1>1, ConcatProperties
    <2> QED
      BY <1>1, <2>1
  <1> HIDE DEF all
  <1>3. all # <<>> /\ Head(all) = p
    BY <1>1, <1>2
  <1>4. Tail(all) = q
    <2>1. /\ Tail(all) \in Seq(Prompts) /\ Len(Tail(all)) = Len(all) - 1
          /\ \A i \in 1..Len(Tail(all)) : Tail(all)[i] = all[i + 1]
      BY <1>2, <1>3, HeadTailProperties
    <2> QED
      BY <1>1, <1>2, <2>1, SeqEqual
  <1>5. \A r : (\E i \in 1..Len(all) : all[i] = r) <=> r = p \/ r \in Elements(q)
    <2>1. \A i \in 1..Len(all) : i = 1 \/ (i - 1 \in 1..Len(q) /\ all[i] = q[i - 1])
      BY <1>1, <1>2
    <2>2. \A i \in 1..Len(q) : i + 1 \in 1..Len(all)
      BY <1>1, <1>2
    <2>3. 1 \in 1..Len(all)
      BY <1>1, <1>2
    <2>4. ASSUME NEW i \in 1..Len(all) PROVE all[i] = p \/ all[i] \in Elements(q)
      BY <1>2, <2>1, <2>4, ElementsAre
    <2>5. ASSUME NEW r \in Elements(q) PROVE \E i \in 1..Len(all) : all[i] = r
      <3>1. PICK i \in 1..Len(q) : q[i] = r
        BY <2>5, ElementsAre
      <3>2. i + 1 \in 1..Len(all) /\ all[i + 1] = r
        BY <1>2, <2>2, <3>1
      <3> QED
        BY <3>2
    <2>6. \E i \in 1..Len(all) : all[i] = p
      BY <1>2, <2>3
    <2> QED
      BY <2>4, <2>5, <2>6
  <1>6. ASSUME q # <<>> PROVE <<Head(q)>> \o Tail(q) = q
    <2>1. /\ Head(q) \in Prompts /\ Tail(q) \in Seq(Prompts) /\ Len(Tail(q)) = Len(q) - 1
          /\ \A i \in 1..Len(Tail(q)) : Tail(q)[i] = q[i + 1]
          /\ Head(q) = q[1] /\ Len(q) \in Nat \ {0}
      BY <1>6, HeadTailProperties, EmptySeq
    <2> DEFINE h == <<Head(q)>> \o Tail(q)
    <2>2. /\ h \in Seq(Prompts) /\ Len(h) = 1 + Len(Tail(q))
          /\ \A i \in 1..1 + Len(Tail(q)) : h[i] = IF i <= 1 THEN <<Head(q)>>[i] ELSE Tail(q)[i - 1]
      BY <2>1, ConcatProperties
    <2> HIDE DEF h
    <2>3. Len(h) = Len(q) /\ \A i \in 1..Len(q) : h[i] = q[i]
      BY <2>1, <2>2
    <2>4. h = q
      BY <2>2, <2>3, SeqEqual
    <2> QED
      BY <2>4 DEF h
  <1>7. ASSUME NEW r \in Prompts PROVE <<p>> \o Append(q, r) = Append(all, r)
    <2> DEFINE h == <<p>> \o Append(q, r)
    <2>1. /\ Append(q, r) \in Seq(Prompts) /\ Len(Append(q, r)) = Len(q) + 1
          /\ \A i \in 1..Len(q) : Append(q, r)[i] = q[i]
          /\ Append(q, r)[Len(q) + 1] = r
      BY AppendIs
    <2>2. /\ Append(all, r) \in Seq(Prompts) /\ Len(Append(all, r)) = Len(all) + 1
          /\ \A i \in 1..Len(all) : Append(all, r)[i] = all[i]
          /\ Append(all, r)[Len(all) + 1] = r
      BY <1>2, AppendIs
    <2>3. /\ h \in Seq(Prompts) /\ Len(h) = 1 + Len(Append(q, r))
          /\ \A i \in 1..1 + Len(Append(q, r)) :
                h[i] = IF i <= 1 THEN <<p>>[i] ELSE Append(q, r)[i - 1]
      BY <1>1, <2>1, ConcatProperties
    <2> HIDE DEF h
    <2>4. Len(h) = Len(q) + 2 /\ Len(Append(all, r)) = Len(q) + 2
      BY <1>1, <1>2, <2>1, <2>2, <2>3
    <2>5. ASSUME NEW i \in 1..Len(q) + 2 PROVE h[i] = Append(all, r)[i]
      <3>1. CASE i = 1
        BY <1>1, <1>2, <2>1, <2>2, <2>3, <3>1
      <3>2. CASE i \in 2..Len(q) + 1
        <4>1. i - 1 \in 1..Len(q) /\ (i - 1) + 1 = i /\ i \in 1..Len(all)
          BY <1>1, <1>2, <3>2
        <4>2. h[i] = q[i - 1]
          BY <1>1, <2>1, <2>3, <4>1
        <4>3. Append(all, r)[i] = q[i - 1]
          BY <1>2, <2>2, <4>1
        <4> QED
          BY ONLY <4>2, <4>3
      <3>3. CASE i = Len(q) + 2
        BY <1>1, <1>2, <2>1, <2>2, <2>3, <3>3
      <3>4. i = 1 \/ i \in 2..Len(q) + 1 \/ i = Len(q) + 2
        BY <1>1
      <3> QED
        BY ONLY <3>1, <3>2, <3>3, <3>4
    <2>6. h = Append(all, r)
      BY <2>2, <2>3, <2>4, <2>5, SeqEqual
    <2> QED
      BY <2>6 DEF h
  <1>8. <<p>> \o <<>> = <<p>>
    BY <1>1, ConcatEmptySeq
  <1> QED
    BY <1>2, <1>3, <1>4, <1>5, <1>6, <1>7, <1>8 DEF all

\* What waits, as the abstract queue.
LEMMA WaitingIs ==
    ASSUME LaneTyped, LaneOrder
    PROVE  /\ Waiting \in Seq(Prompts)
           /\ Waiting = <<>> <=> pending = None
           /\ pending # None => Head(Waiting) = pending /\ Tail(Waiting) = queued
           /\ \A q \in Prompts : Lane!InLine(q) <=> q = pending \/ q \in Elements(queued)
  <1>1. CASE pending = None
    <2>1. queued = <<>> /\ Waiting = <<>> /\ None \notin Prompts
      BY <1>1, PendingIsUnsettled DEF LaneOrder, Waiting
    <2>2. \A q \in Prompts : ~Lane!InLine(q) /\ q \notin Elements(queued)
      BY <2>1, EmptyLane, EmptySeq DEF Lane!InLine
    <2> QED
      BY <1>1, <2>1, <2>2, EmptySeq
  <1>2. CASE pending # None
    <2>1. pending \in Prompts /\ queued \in Seq(Prompts) /\ Waiting = <<pending>> \o queued
      BY <1>2 DEF LaneTyped, Waiting
    <2> DEFINE all == <<pending>> \o queued
    <2>2. /\ all \in Seq(Prompts) /\ all # <<>> /\ Head(all) = pending /\ Tail(all) = queued
          /\ \A r : (\E i \in 1..Len(all) : all[i] = r) <=> r = pending \/ r \in Elements(queued)
      BY <2>1, InFront
    <2>3. Waiting = all
      BY <2>1
    <2> HIDE DEF all
    <2>4. \A q \in Prompts : Lane!InLine(q) <=> q = pending \/ q \in Elements(queued)
      BY <2>2, <2>3 DEF Lane!InLine
    <2> QED
      BY <1>2, <2>2, <2>3, <2>4
  <1> QED
    BY <1>1, <1>2

\* Every step puts questions in their turn only.
LEMMA PutInTurn ==
    ASSUME Inv, TurnInv, [Next]_vars
    PROVE  Lane!Put
  <1>1. /\ Inv' /\ TurnInv' /\ OutboxStep /\ Prompts \subseteq Events
    BY Inductive, SubmittedStays, StepOfOutbox, PromptAssumption
  <1>2. LaneTyped' /\ LaneOrder'
    BY <1>1 DEF Inv, LaneInv
  <1>3. Sent \subseteq Sent' /\ Sent' \subseteq Prompts
    BY <1>1, DeliveryIsFinal DEF Sent, Inv, Settled
  <1>4. ASSUME NEW q \in Sent', outcome'[q] = "none"
        PROVE  Waiting' # <<>> /\ q = Head(Waiting')
    <2>1. q \in Prompts /\ q \in Elements(asked') /\ q \notin Elements(queued')
      BY <1>1 DEF Sent, TurnInv
    <2>2. q \in Unsettled'
      BY <1>4, <2>1 DEF Unsettled, Elements
    <2>3. pending' = q /\ pending' # None
      BY <1>2, <2>1, <2>2 DEF LaneOrder
    <2>4. Waiting' = <<q>> \o queued' /\ queued' \in Seq(Prompts)
      BY <1>2, <2>3 DEF Waiting, LaneTyped
    <2> QED
      BY <2>1, <2>4, InFront
  <1> QED
    BY <1>3, <1>4 DEF Lane!Put

\* The pending request is settled, and the others move up.
LEMMA SettlesQuestion ==
    ASSUME Inv, TurnInv, [Next]_vars, pending \in Prompts, NEW how \in Outcomes \ {"shutdown"},
           NEW awaited \in SUBSET Prompts, SettlePending(pending, how, awaited),
           UNCHANGED shuttingDown,
           how = "timeout" => delivery[pending] = "sent",
           how = "undelivered" => delivery[pending] # "sent"
    PROVE  Lane!Next
  <1>1. /\ LaneTyped /\ LaneOrder /\ pending # None /\ ~shuttingDown
    BY PendingIsUnsettled DEF Inv, LaneInv
  <1>2. /\ Waiting # <<>> /\ Head(Waiting) = pending /\ Tail(Waiting) = queued
    BY <1>1, WaitingIs
  <1>3. /\ outcome' = [outcome EXCEPT ![pending] = how]
        /\ activateNextUserResponseRequest(queued, awaited)
    BY DEF SettlePending
  <1>4. Waiting' = queued
    <2>1. CASE queued = <<>>
      BY <1>3, <2>1 DEF activateNextUserResponseRequest, Waiting
    <2>2. CASE queued # <<>>
      <3>1. pending' = Head(queued) /\ queued' = Tail(queued)
        BY <1>1, <1>3, <2>2 DEF activateNextUserResponseRequest
      <3>2. Head(queued) \in Prompts /\ queued \in Seq(Prompts) /\ Head(queued) # None
        BY <1>1, <2>2, ShorterLane, PromptAssumption DEF LaneTyped
      <3>3. <<Head(queued)>> \o Tail(queued) = queued
        BY <2>2, <3>2, InFront
      <3> QED
        BY <3>1, <3>2, <3>3 DEF Waiting
    <2> QED
      BY <2>1, <2>2
  <1>5. Lane!Put
    BY PutInTurn
  <1>6. Lane!Settle(how)
    BY <1>2, <1>3, <1>4, <1>5 DEF Lane!Settle, Sent
  <1> QED
    BY <1>6 DEF Lane!Next

\* What happens in the adapter, or to a delivery, leaves the questions as they are.
LEMMA KeepsQuestions ==
    ASSUME Inv, TurnInv, [Next]_vars, UNCHANGED <<pending, queued, outcome, shuttingDown>>
    PROVE  Lane!Next
  BY PutInTurn DEF Lane!Next, Waiting

\* Every step of the lane is one of the queue of questions.
LEMMA StepOfQuestions ==
    ASSUME Inv, TurnInv, [Next]_vars
    PROVE  [Lane!Next]_Lane!questionVars
  <1>1. /\ LaneTyped /\ LaneOrder /\ TimerFollowsDelivery /\ None \notin Prompts
    BY PendingIsUnsettled DEF Inv, LaneInv
  <1>2. ASSUME NEW q \in Prompts, Ask(q) PROVE Lane!Next
    <2>1. /\ ~shuttingDown /\ q \notin Elements(asked) /\ UNCHANGED <<shuttingDown, outcome>>
          /\ outcome[q] = "none" /\ q # pending /\ q \notin Elements(queued)
      BY <1>1, <1>2 DEF Ask, LaneOrder, Unsettled, Elements
    <2>2. ~Lane!InLine(q)
      BY <1>1, <2>1, WaitingIs
    <2>3. Waiting' = Append(Waiting, q)
      <3>1. CASE pending = None
        <4>1. queued = <<>> /\ activateNextUserResponseRequest(Append(queued, q), delivering)
          BY <1>1, <1>2, <3>1 DEF Ask, LaneOrder
        <4>2. Append(queued, q) = <<q>> /\ Head(<<q>>) = q /\ Tail(<<q>>) = <<>> /\ <<q>> # <<>>
          BY <4>1
        <4>3. pending' = q /\ queued' = <<>>
          BY <2>1, <4>1, <4>2 DEF activateNextUserResponseRequest
        <4>4. Waiting' = <<q>> \o <<>> /\ Waiting = <<>>
          BY <1>1, <3>1, <4>3 DEF Waiting
        <4> QED
          BY <4>1, <4>2, <4>4, InFront, EmptySeq
      <3>2. CASE pending # None
        <4>1. pending \in Prompts /\ queued \in Seq(Prompts)
          BY <1>1, <3>2 DEF LaneTyped
        <4>2. queued' = Append(queued, q) /\ pending' = pending
          BY <1>2, <3>2 DEF Ask
        <4>3. <<pending>> \o Append(queued, q) = Append(<<pending>> \o queued, q)
          BY <4>1, InFront
        <4> QED
          BY <3>2, <4>2, <4>3 DEF Waiting
      <3> QED
        BY <3>1, <3>2
    <2>4. Lane!Ask(q)
      BY <2>1, <2>2, <2>3, PutInTurn DEF Lane!Ask
    <2> QED
      BY <2>4 DEF Lane!Next
  <1>3. ASSUME NEW q \in Prompts, DeliverySettles(q) PROVE Lane!Next
    <2>1. CASE pending = q /\ delivery[q] # "sent"
      <3>1. /\ SettlePending(q, "undelivered", delivering \ {q}) /\ UNCHANGED shuttingDown
            /\ delivering \ {q} \in SUBSET Prompts
            /\ "undelivered" \in Outcomes \ {"shutdown"}
        BY <1>1, <1>3, <2>1 DEF DeliverySettles, LaneTyped, Outcomes
      <3> QED
        BY <2>1, <3>1, SettlesQuestion
    <2>2. CASE ~(pending = q /\ delivery[q] # "sent")
      BY <1>3, <2>2, KeepsQuestions DEF DeliverySettles
    <2> QED
      BY <2>1, <2>2
  <1>4. ASSUME NEW q \in Prompts, TimerFires(q) PROVE Lane!Next
    <2>1. /\ SettlePending(q, "timeout", delivering) /\ UNCHANGED shuttingDown /\ pending = q
          /\ delivering \in SUBSET Prompts /\ delivery[q] = "sent"
          /\ "timeout" \in Outcomes \ {"shutdown"}
      BY <1>1, <1>4 DEF TimerFires, TimerFollowsDelivery, LaneTyped, Outcomes
    <2> QED
      BY <2>1, SettlesQuestion
  <1>5. ASSUME NEW id \in Prompts \cup {None}, NEW isEmpty \in BOOLEAN, Reply(id, isEmpty)
        PROVE  Lane!Next
    <2> DEFINE how == IF isEmpty THEN "empty" ELSE "answered"
    <2>1. /\ SettlePending(pending, how, delivering) /\ UNCHANGED shuttingDown
          /\ delivering \in SUBSET Prompts /\ pending \in Prompts
      BY <1>1, <1>5 DEF Reply, shouldConsumePendingUserResponseRequest, LaneTyped
    <2>2. how \in Outcomes \ {"shutdown"} /\ how # "timeout" /\ how # "undelivered"
      BY DEF Outcomes
    <2> HIDE DEF how
    <2> QED
      BY <2>1, <2>2, SettlesQuestion
  <1>6. CASE Shutdown
    <2>1. /\ ~shuttingDown /\ shuttingDown' = TRUE /\ pending' = None /\ UNCHANGED delivery
          /\ outcome' = [p \in Prompts |-> IF p = pending \/ p \in Elements(queued)
                                           THEN "shutdown" ELSE outcome[p]]
      BY <1>6 DEF Shutdown, Elements, outboxVars
    <2>2. outcome' = [p \in Prompts |-> IF Lane!InLine(p) THEN "shutdown" ELSE outcome[p]]
      BY <1>1, <2>1, WaitingIs
    <2>3. Waiting' = <<>> /\ Sent' = Sent
      BY <2>1 DEF Waiting, Sent
    <2>4. Lane!Close
      BY <2>1, <2>2, <2>3 DEF Lane!Close
    <2> QED
      BY <2>4 DEF Lane!Next
  <1>7. CASE \E e \in Events \ Prompts : Notify(e)
    BY <1>7, KeepsQuestions DEF Notify, promptVars
  <1>8. CASE (ConnectionStep /\ UNCHANGED promptVars) \/ StopAdapter \/ UNCHANGED vars
    BY <1>8, KeepsQuestions DEF StopAdapter, promptVars, vars
  <1> QED
    BY <1>2, <1>3, <1>4, <1>5, <1>6, <1>7, <1>8 DEF Next

\* awaitUserResponse and what serves it are a queue of questions: the sessions
\* are served in the order in which they asked, a question reaches the user in
\* its turn and not before, and it times out only if it did reach him.
THEOREM PromptsImplementQuestions == Spec => ImplementsQuestions
  <1>1. Init => Lane!Init
    <2> SUFFICES ASSUME Init PROVE Lane!Init
      OBVIOUS
    <2>1. Sent = {}
      BY PromptAssumption DEF Init, OutboxInit, Sent
    <2> QED
      BY <2>1 DEF Init, Lane!Init, Waiting
  <1>2. Init => TurnInv
    BY PromptAssumption DEF Init, OutboxInit, TurnInv
  <1>3. Inv /\ TurnInv /\ [Next]_vars => TurnInv'
    BY SubmittedStays
  <1>4. Inv /\ TurnInv /\ [Next]_vars => [Lane!Next]_Lane!questionVars
    BY StepOfQuestions
  <1> QED
    BY <1>1, <1>2, <1>3, <1>4, Invariance, PTL DEF Spec, ImplementsQuestions, Lane!Spec
=============================================================================
