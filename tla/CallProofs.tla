----------------------------- MODULE CallProofs ------------------------------
(***************************************************************************)
(* Proofs about the way of a tool call that ToolCalls, PolicyGate and      *)
(* Execute model: the policy it is checked against, the request with its   *)
(* grants, and the command of the execute primitive.                       *)
(***************************************************************************)
EXTENDS ToolCalls, PolicyGate, Execute, SequenceLemmas

---------------------------------------------------------------------------
(***************************************************************************)
(* ToolCalls, for any set of calls, any limit of attempts and any number of *)
(* grants: the stored refresh token stays good, and a call never sends again *)
(* the token that was refused.                                             *)
(***************************************************************************)

\* The locals of a call are set only while it uses them.
LocalsAreCurrent ==
    \A c \in Calls :
        /\ step[c] = "answered" <=> answer[c] # None
        /\ grant[c] # NoRefresh => step[c] \in {"exchanging", "answered"}
        /\ step[c] = "idle" => refused[c] = None

\* Nothing bears the number of a grant still to come.
NumbersAreIssued ==
    /\ stored # None => stored.access <= issued /\ stored.refresh <= issued
    /\ \A c \in Calls :
          /\ grant[c] <= issued
          /\ token[c] # None => token[c].access <= issued
          /\ refused[c] # None => refused[c].access <= issued
          /\ answer[c] # None => /\ answer[c].access <= issued
                                 /\ answer[c].refresh \in {NoRefresh, answer[c].access}

\* A refresh token on its way to a call is known to nobody else.
AnswersAreFresh ==
    \A c \in Calls :
        answer[c] # None =>
            /\ stored # None /\ answer[c].refresh # NoRefresh => stored.refresh # answer[c].refresh
            /\ \A d \in Calls :
                  /\ answer[c].refresh # NoRefresh => grant[d] # answer[c].refresh
                  /\ d # c /\ answer[d] # None => answer[d].access # answer[c].access

\* It is good, and a call that gets none may keep the one it sent.
AnswersAreGood ==
    \A c \in Calls :
        /\ answer[c] # None =>
              /\ answer[c].refresh \in live \cup forfeited \cup {NoRefresh}
              /\ provider.rotates /\ grant[c] # NoRefresh => answer[c].refresh # NoRefresh
        /\ ~provider.rotates => grant[c] \in live \cup forfeited \cup {NoRefresh}

\* A token that answers a refused one is another.
AnswersAreNew ==
    \A c \in Calls :
        answer[c] # None /\ refused[c] # None => answer[c].access # refused[c].access

\* A provider that issues refresh tokens has one stored with every token.
OfflineTokensRefresh ==
    provider.offline =>
        /\ stored # None => stored.refresh # NoRefresh
        /\ \A c \in Calls :
              answer[c] # None => answer[c].refresh # NoRefresh \/ grant[c] # NoRefresh

\* Whoever does not await a response has an attempt left.
AttemptsAreLeft ==
    \A c \in Calls :
        step[c] # "requesting" =>
            \/ attempts[c] < MAX_ATTEMPTS
            \/ unauthorizedRetried[c] /\ attempts[c] = MAX_ATTEMPTS

Inv ==
    /\ TypeOK
    /\ LocalsAreCurrent
    /\ AttemptsAreLeft
    /\ NumbersAreIssued
    /\ AnswersAreFresh
    /\ AnswersAreGood
    /\ AnswersAreNew
    /\ OfflineTokensRefresh
    /\ RefreshTokenKept
    /\ RetryUsesNewToken

---------------------------------------------------------------------------
LEMMA NormalizedToken ==
    ASSUME NEW a \in Token, NEW prior \in Grants \cup {NoRefresh}
    PROVE  LET t == normalizeTokenResponse(a, prior) IN
           /\ t \in Token /\ t # None
           /\ t.access = a.access
           /\ t.refresh = IF a.refresh = NoRefresh THEN prior ELSE a.refresh
  BY NoneAssumption DEF normalizeTokenResponse, Token

\* A call without a token of its own sends its first request.
LEMMA FetchWithoutToken ==
    ASSUME Inv, NEW c \in Calls, step[c] = "idle", Fetch(c), UNCHANGED <<token, grant>>,
           UNCHANGED <<provider, memoryVars, answer, unauthorizedRetried, refused,
                       providerVars, forfeited>>
    PROVE  Inv'
  <1> USE NoneAssumption, BoundsAssumption
      DEF Inv, TypeOK, Token, Grants, NoRefresh, Waiting, Ended, Fetch, Goto,
          callVars, memoryVars, providerVars
  <1>1. TypeOK'
    BY DEF AttemptsAreLeft
  <1>2. LocalsAreCurrent'
    BY DEF LocalsAreCurrent
  <1>3. AttemptsAreLeft'
    BY DEF AttemptsAreLeft
  <1>4. NumbersAreIssued'
    BY DEF NumbersAreIssued
  <1>5. AnswersAreFresh'
    BY DEF AnswersAreFresh
  <1>6. AnswersAreGood'
    BY DEF AnswersAreGood
  <1>7. AnswersAreNew'
    BY DEF AnswersAreNew
  <1>8. RefreshTokenKept'
    BY DEF RefreshTokenKept
  <1>9. RetryUsesNewToken'
    BY DEF RetryUsesNewToken, LocalsAreCurrent
  <1>10. OfflineTokensRefresh'
    BY DEF OfflineTokensRefresh, LocalsAreCurrent
  <1> QED
    BY <1>1, <1>2, <1>3, <1>4, <1>5, <1>6, <1>7, <1>8, <1>9, <1>10

\* A call starts with the stored token.
LEMMA BindStoredKeepsInv ==
    ASSUME Inv, NEW c \in Calls, step[c] = "idle", BindStored(c, FALSE),
           UNCHANGED <<provider, memoryVars, answer, unauthorizedRetried, refused,
                       providerVars, forfeited>>
    PROVE  Inv'
  <1> USE NoneAssumption, BoundsAssumption
      DEF Inv, TypeOK, Token, Grants, NoRefresh, Waiting, Ended, BindStored,
          useStored, isExpired, Fetch, Goto, callVars, memoryVars, providerVars
  <1>1. TypeOK'
    BY DEF AttemptsAreLeft
  <1>2. LocalsAreCurrent'
    BY DEF LocalsAreCurrent
  <1>3. AttemptsAreLeft'
    BY DEF AttemptsAreLeft
  <1>4. NumbersAreIssued'
    BY DEF NumbersAreIssued
  <1>5. AnswersAreFresh'
    BY DEF AnswersAreFresh
  <1>6. AnswersAreGood'
    BY DEF AnswersAreGood
  <1>7. AnswersAreNew'
    BY DEF AnswersAreNew
  <1>8. RefreshTokenKept'
    BY DEF RefreshTokenKept
  <1>9. RetryUsesNewToken'
    BY DEF RetryUsesNewToken, LocalsAreCurrent
  <1>10. OfflineTokensRefresh'
    BY DEF OfflineTokensRefresh, LocalsAreCurrent
  <1> QED
    BY <1>1, <1>2, <1>3, <1>4, <1>5, <1>6, <1>7, <1>8, <1>9, <1>10

\* A call starts with a request for a token.
LEMMA RequestTokenKeepsInv ==
    ASSUME Inv, NEW c \in Calls, step[c] = "idle", RequestToken(c, FALSE),
           UNCHANGED <<provider, memoryVars, answer, unauthorizedRetried, refused,
                       providerVars, forfeited>>
    PROVE  Inv'
  <1> USE NoneAssumption, BoundsAssumption
      DEF Inv, TypeOK, Token, Grants, NoRefresh, Waiting, Ended, RequestToken, Goto,
          callVars, memoryVars, providerVars
  <1>1. TypeOK'
    OBVIOUS
  <1>2. LocalsAreCurrent'
    BY DEF LocalsAreCurrent
  <1>3. AttemptsAreLeft'
    BY DEF AttemptsAreLeft
  <1>4. NumbersAreIssued'
    BY DEF NumbersAreIssued
  <1>5. AnswersAreFresh'
    BY DEF AnswersAreFresh
  <1>6. AnswersAreGood'
    BY DEF AnswersAreGood, RefreshTokenKept, LocalsAreCurrent
  <1>7. AnswersAreNew'
    BY DEF AnswersAreNew
  <1>8. RefreshTokenKept'
    BY DEF RefreshTokenKept
  <1>9. RetryUsesNewToken'
    BY DEF RetryUsesNewToken
  <1>10. OfflineTokensRefresh'
    BY DEF OfflineTokensRefresh, LocalsAreCurrent
  <1> QED
    BY <1>1, <1>2, <1>3, <1>4, <1>5, <1>6, <1>7, <1>8, <1>9, <1>10

\* A call starts by asking the user.
LEMMA AskForCodeKeepsInv ==
    ASSUME Inv, NEW c \in Calls, step[c] = "idle", AskForCode(c, FALSE),
           UNCHANGED <<provider, memoryVars, answer, unauthorizedRetried, refused,
                       providerVars, forfeited>>
    PROVE  Inv'
  <1> USE NoneAssumption, BoundsAssumption
      DEF Inv, TypeOK, Token, Grants, NoRefresh, Waiting, Ended, AskForCode, Goto,
          callVars, memoryVars, providerVars
  <1>1. TypeOK'
    OBVIOUS
  <1>2. LocalsAreCurrent'
    BY DEF LocalsAreCurrent
  <1>3. AttemptsAreLeft'
    BY DEF AttemptsAreLeft
  <1>4. NumbersAreIssued'
    BY DEF NumbersAreIssued
  <1>5. AnswersAreFresh'
    BY DEF AnswersAreFresh
  <1>6. AnswersAreGood'
    BY DEF AnswersAreGood
  <1>7. AnswersAreNew'
    BY DEF AnswersAreNew
  <1>8. RefreshTokenKept'
    BY DEF RefreshTokenKept
  <1>9. RetryUsesNewToken'
    BY DEF RetryUsesNewToken
  <1>10. OfflineTokensRefresh'
    BY DEF OfflineTokensRefresh, LocalsAreCurrent
  <1> QED
    BY <1>1, <1>2, <1>3, <1>4, <1>5, <1>6, <1>7, <1>8, <1>9, <1>10

\* A call that was refused requests another token.
LEMMA RefreshKeepsInv ==
    ASSUME Inv, NEW c \in Calls, step[c] = "requesting",
           ~unauthorizedRetried[c],
           unauthorizedRetried' = [unauthorizedRetried EXCEPT ![c] = TRUE],
           refused' = [refused EXCEPT ![c] = token[c]],
           RequestToken(c, TRUE),
           UNCHANGED <<provider, memoryVars, answer, providerVars, forfeited>>
    PROVE  Inv'
  <1> USE NoneAssumption, BoundsAssumption
      DEF Inv, TypeOK, Token, Grants, NoRefresh, Waiting, Ended, RequestToken, Goto,
          callVars, memoryVars, providerVars
  <1>1. TypeOK'
    OBVIOUS
  <1>2. LocalsAreCurrent'
    BY DEF LocalsAreCurrent
  <1>3. AttemptsAreLeft'
    BY DEF AttemptsAreLeft
  <1>4. NumbersAreIssued'
    BY DEF NumbersAreIssued
  <1>5. AnswersAreFresh'
    BY DEF AnswersAreFresh
  <1>6. AnswersAreGood'
    BY DEF AnswersAreGood, RefreshTokenKept, LocalsAreCurrent
  <1>7. AnswersAreNew'
    BY DEF AnswersAreNew, LocalsAreCurrent
  <1>8. RefreshTokenKept'
    BY DEF RefreshTokenKept
  <1>9. RetryUsesNewToken'
    BY DEF RetryUsesNewToken
  <1>10. OfflineTokensRefresh'
    BY DEF OfflineTokensRefresh, LocalsAreCurrent
  <1> QED
    BY <1>1, <1>2, <1>3, <1>4, <1>5, <1>6, <1>7, <1>8, <1>9, <1>10

\* A call that was refused asks the user.
LEMMA AskAgainKeepsInv ==
    ASSUME Inv, NEW c \in Calls, step[c] = "requesting",
           ~unauthorizedRetried[c],
           unauthorizedRetried' = [unauthorizedRetried EXCEPT ![c] = TRUE],
           refused' = [refused EXCEPT ![c] = token[c]],
           AskForCode(c, TRUE),
           UNCHANGED <<provider, memoryVars, answer, providerVars, forfeited>>
    PROVE  Inv'
  <1> USE NoneAssumption, BoundsAssumption
      DEF Inv, TypeOK, Token, Grants, NoRefresh, Waiting, Ended, AskForCode, Goto,
          callVars, memoryVars, providerVars
  <1>1. TypeOK'
    OBVIOUS
  <1>2. LocalsAreCurrent'
    BY DEF LocalsAreCurrent
  <1>3. AttemptsAreLeft'
    BY DEF AttemptsAreLeft
  <1>4. NumbersAreIssued'
    BY DEF NumbersAreIssued
  <1>5. AnswersAreFresh'
    BY DEF AnswersAreFresh
  <1>6. AnswersAreGood'
    BY DEF AnswersAreGood
  <1>7. AnswersAreNew'
    BY DEF AnswersAreNew, LocalsAreCurrent
  <1>8. RefreshTokenKept'
    BY DEF RefreshTokenKept
  <1>9. RetryUsesNewToken'
    BY DEF RetryUsesNewToken
  <1>10. OfflineTokensRefresh'
    BY DEF OfflineTokensRefresh, LocalsAreCurrent
  <1> QED
    BY <1>1, <1>2, <1>3, <1>4, <1>5, <1>6, <1>7, <1>8, <1>9, <1>10

LEMMA UserAnswersKeepsInv ==
    ASSUME Inv, NEW c \in Calls, UserAnswers(c)
    PROVE  Inv'
  <1> USE NoneAssumption, BoundsAssumption
      DEF Inv, TypeOK, Token, Grants, NoRefresh, Waiting, Ended, UserAnswers, Goto,
          callVars, memoryVars, providerVars
  <1>1. TypeOK'
    OBVIOUS
  <1>2. LocalsAreCurrent'
    BY DEF LocalsAreCurrent
  <1>3. AttemptsAreLeft'
    BY DEF AttemptsAreLeft
  <1>4. NumbersAreIssued'
    BY DEF NumbersAreIssued
  <1>5. AnswersAreFresh'
    BY DEF AnswersAreFresh
  <1>6. AnswersAreGood'
    BY DEF AnswersAreGood
  <1>7. AnswersAreNew'
    BY DEF AnswersAreNew
  <1>8. RefreshTokenKept'
    BY DEF RefreshTokenKept
  <1>9. RetryUsesNewToken'
    BY DEF RetryUsesNewToken
  <1>10. OfflineTokensRefresh'
    BY DEF OfflineTokensRefresh, LocalsAreCurrent
  <1> QED
    BY <1>1, <1>2, <1>3, <1>4, <1>5, <1>6, <1>7, <1>8, <1>9, <1>10

LEMMA ProviderIssuesKeepsInv ==
    ASSUME Inv, NEW c \in Calls, ProviderIssues(c)
    PROVE  Inv'
  <1> USE NoneAssumption, BoundsAssumption DEF Token, Grants, NoRefresh, Waiting, Ended
  <1> DEFINE withRefresh == IF grant[c] = NoRefresh THEN provider.offline ELSE provider.rotates
             n == issued + 1
             a == [access |-> n, refresh |-> IF withRefresh THEN n ELSE NoRefresh]
  <1>a. a \in Token /\ n \in Grants
    BY DEF Inv, TypeOK, ProviderIssues
  <1>b. answer' = [answer EXCEPT ![c] = a] /\ answer' \in [Calls -> Token \cup {None}]
    BY <1>a DEF Inv, TypeOK, ProviderIssues
  <1>1. TypeOK'
    <2>1. issued' = n /\ n \in 0..MaxGrants /\ 1..issued \subseteq 1..n /\ n \in 1..n
      BY DEF Inv, TypeOK, ProviderIssues
    <2>3. live' \subseteq live \cup {n} /\ forfeited' = forfeited
      BY DEF ProviderIssues
    <2>4. live' \subseteq 1..issued' /\ forfeited' \subseteq 1..issued'
      BY <2>1, <2>3 DEF Inv, TypeOK
    <2>2. step' \in [Calls -> {"idle"} \cup Waiting \cup Ended]
      BY DEF Inv, TypeOK, ProviderIssues, Goto
    <2> QED
      BY <1>b, <2>1, <2>2, <2>4 DEF Inv, TypeOK, ProviderIssues, callVars, memoryVars,
             providerVars
  <1>2. LocalsAreCurrent'
    BY DEF Inv, LocalsAreCurrent, TypeOK, ProviderIssues, Goto, callVars, memoryVars, providerVars
  <1>3. AttemptsAreLeft'
    BY DEF Inv, AttemptsAreLeft, TypeOK, ProviderIssues, Goto, callVars, memoryVars, providerVars
  <1>4. NumbersAreIssued'
    BY DEF Inv, NumbersAreIssued, TypeOK, ProviderIssues, Goto, callVars, memoryVars, providerVars
  <1>5. AnswersAreFresh'
    BY DEF Inv, AnswersAreFresh, NumbersAreIssued, TypeOK, ProviderIssues, Goto, callVars, memoryVars, providerVars
  <1>6. AnswersAreGood'
    BY DEF Inv, AnswersAreGood, AnswersAreFresh, NumbersAreIssued, LocalsAreCurrent, TypeOK, ProviderIssues, Goto, callVars, memoryVars, providerVars
  <1>7. AnswersAreNew'
    BY DEF Inv, AnswersAreNew, NumbersAreIssued, TypeOK, ProviderIssues, Goto, callVars, memoryVars, providerVars
  <1>8. RefreshTokenKept'
    BY DEF Inv, RefreshTokenKept, TypeOK, ProviderIssues, Goto, callVars, memoryVars, providerVars
  <1>9. RetryUsesNewToken'
    BY DEF Inv, RetryUsesNewToken, TypeOK, ProviderIssues, Goto, callVars, memoryVars, providerVars
  <1>10. OfflineTokensRefresh'
    BY DEF Inv, OfflineTokensRefresh, LocalsAreCurrent, TypeOK, ProviderIssues, Goto, callVars, memoryVars, providerVars
  <1> QED
    BY <1>1, <1>2, <1>3, <1>4, <1>5, <1>6, <1>7, <1>8, <1>9, <1>10 DEF Inv

LEMMA ReceiveTokenKeepsInv ==
    ASSUME Inv, NEW c \in Calls, ReceiveToken(c)
    PROVE  Inv'
  <1> USE NoneAssumption, BoundsAssumption DEF Token, Grants, NoRefresh, Waiting, Ended
  <1> DEFINE t == normalizeTokenResponse(answer[c], grant[c])
  <1>a. answer[c] \in Token /\ grant[c] \in Grants \cup {NoRefresh}
    BY DEF Inv, TypeOK, LocalsAreCurrent, ReceiveToken
  <1>b. /\ t \in Token /\ t # None
        /\ t.access = answer[c].access
        /\ t.refresh = IF answer[c].refresh = NoRefresh THEN grant[c] ELSE answer[c].refresh
    BY <1>a, NormalizedToken
  <1>c. stored' = t /\ token' = [token EXCEPT ![c] = t]
    BY DEF ReceiveToken
  <1> HIDE DEF t
  <1>1. TypeOK'
    <2>1. stored' \in Token /\ stale' \in BOOLEAN
      BY <1>b, <1>c DEF ReceiveToken
    <2>5. token' \in [Calls -> Token \cup {None}]
      BY <1>b, <1>c DEF Inv, TypeOK
    <2>2. grant' \in [Calls -> Grants \cup {NoRefresh}] /\ answer' \in [Calls -> Token \cup {None}]
      BY DEF Inv, TypeOK, ReceiveToken
    <2>3. step' \in [Calls -> {"idle"} \cup Waiting \cup Ended] /\ attempts' \in [Calls -> Nat]
      BY DEF Inv, TypeOK, ReceiveToken, Fetch, Goto
    <2>4. \A d \in Calls :
             \/ attempts'[d] <= MAX_ATTEMPTS
             \/ unauthorizedRetried'[d] /\ attempts'[d] = MAX_ATTEMPTS + 1
      BY DEF Inv, TypeOK, AttemptsAreLeft, ReceiveToken, Fetch
    <2> QED
      BY <2>1, <2>2, <2>3, <2>4, <2>5 DEF Inv, TypeOK, ReceiveToken, providerVars
  <1>2. LocalsAreCurrent'
    BY DEF Inv, LocalsAreCurrent, TypeOK, ReceiveToken, Fetch, Goto, callVars, memoryVars, providerVars
  <1>3. AttemptsAreLeft'
    BY DEF Inv, AttemptsAreLeft, TypeOK, ReceiveToken, Fetch, Goto, callVars, memoryVars, providerVars
  <1>4. NumbersAreIssued'
    BY <1>a, <1>b, <1>c DEF Inv, NumbersAreIssued, LocalsAreCurrent, TypeOK, ReceiveToken,
           Fetch, Goto, callVars, memoryVars, providerVars
  <1>5. AnswersAreFresh'
    BY <1>a, <1>b, <1>c DEF Inv, AnswersAreFresh, NumbersAreIssued, LocalsAreCurrent,
           AnswersAreGood, TypeOK, ReceiveToken, Fetch, Goto, callVars, memoryVars, providerVars
  <1>6. AnswersAreGood'
    BY DEF Inv, AnswersAreGood, TypeOK, ReceiveToken, Fetch, Goto, callVars, memoryVars, providerVars
  <1>7. AnswersAreNew'
    BY DEF Inv, AnswersAreNew, TypeOK, ReceiveToken, Fetch, Goto, callVars, memoryVars, providerVars
  <1>8. RefreshTokenKept'
    BY <1>a, <1>b, <1>c DEF Inv, RefreshTokenKept, LocalsAreCurrent, AnswersAreGood, TypeOK,
           ReceiveToken, Fetch, Goto, callVars, memoryVars, providerVars
  <1>9. RetryUsesNewToken'
    BY <1>a, <1>b, <1>c DEF Inv, RetryUsesNewToken, AnswersAreNew, LocalsAreCurrent, TypeOK,
           ReceiveToken, Fetch, Goto, callVars, memoryVars, providerVars
  <1>10. OfflineTokensRefresh'
    BY <1>a, <1>b, <1>c DEF Inv, OfflineTokensRefresh, LocalsAreCurrent, TypeOK, ReceiveToken,
           Fetch, Goto, callVars, memoryVars, providerVars
  <1> QED
    BY <1>1, <1>2, <1>3, <1>4, <1>5, <1>6, <1>7, <1>8, <1>9, <1>10 DEF Inv

LEMMA BusyKeepsInv ==
    ASSUME Inv, NEW c \in Calls, Busy(c)
    PROVE  Inv'
  <1> USE NoneAssumption, BoundsAssumption
      DEF Inv, TypeOK, Token, Grants, NoRefresh, Waiting, Ended, Busy, mayRetry, Goto,
          callVars, memoryVars, providerVars
  <1>1. TypeOK'
    OBVIOUS
  <1>2. LocalsAreCurrent'
    BY DEF LocalsAreCurrent
  <1>3. AttemptsAreLeft'
    BY DEF AttemptsAreLeft
  <1>4. NumbersAreIssued'
    BY DEF NumbersAreIssued
  <1>5. AnswersAreFresh'
    BY DEF AnswersAreFresh
  <1>6. AnswersAreGood'
    BY DEF AnswersAreGood
  <1>7. AnswersAreNew'
    BY DEF AnswersAreNew
  <1>8. RefreshTokenKept'
    BY DEF RefreshTokenKept
  <1>9. RetryUsesNewToken'
    BY DEF RetryUsesNewToken
  <1>10. OfflineTokensRefresh'
    BY DEF OfflineTokensRefresh, LocalsAreCurrent
  <1> QED
    BY <1>1, <1>2, <1>3, <1>4, <1>5, <1>6, <1>7, <1>8, <1>9, <1>10

LEMMA WakeKeepsInv ==
    ASSUME Inv, NEW c \in Calls, Wake(c)
    PROVE  Inv'
  <1> USE NoneAssumption, BoundsAssumption
      DEF Inv, TypeOK, Token, Grants, NoRefresh, Waiting, Ended, Wake, Fetch, Goto,
          callVars, memoryVars, providerVars
  <1>1. TypeOK'
    BY DEF AttemptsAreLeft
  <1>2. LocalsAreCurrent'
    BY DEF LocalsAreCurrent
  <1>3. AttemptsAreLeft'
    BY DEF AttemptsAreLeft
  <1>4. NumbersAreIssued'
    BY DEF NumbersAreIssued
  <1>5. AnswersAreFresh'
    BY DEF AnswersAreFresh
  <1>6. AnswersAreGood'
    BY DEF AnswersAreGood
  <1>7. AnswersAreNew'
    BY DEF AnswersAreNew
  <1>8. RefreshTokenKept'
    BY DEF RefreshTokenKept
  <1>9. RetryUsesNewToken'
    BY DEF RetryUsesNewToken
  <1>10. OfflineTokensRefresh'
    BY DEF OfflineTokensRefresh, LocalsAreCurrent
  <1> QED
    BY <1>1, <1>2, <1>3, <1>4, <1>5, <1>6, <1>7, <1>8, <1>9, <1>10

LEMMA EndKeepsInv ==
    ASSUME Inv, NEW cs \in SUBSET Calls, NEW as \in Ended, End(cs, as)
    PROVE  Inv'
  <1> USE NoneAssumption, BoundsAssumption DEF Token, Grants, NoRefresh, Waiting, Ended
  <1>a. \A c \in Calls :
           /\ step'[c] = IF c \in cs THEN as ELSE step[c]
           /\ attempts'[c] = IF c \in cs THEN 0 ELSE attempts[c]
           /\ unauthorizedRetried'[c] = IF c \in cs THEN FALSE ELSE unauthorizedRetried[c]
           /\ grant'[c] = IF c \in cs THEN NoRefresh ELSE grant[c]
    BY DEF End
  <1>b. forfeited' = forfeited \cup ({grant[c] : c \in {d \in cs : step[d] = "answered"}}
                                        \ (live \cup {NoRefresh}))
    BY DEF End
  <1>1. TypeOK'
    <2>1. step' \in [Calls -> {"idle"} \cup Waiting \cup Ended]
      BY DEF Inv, TypeOK, End
    <2>2. /\ token' \in [Calls -> Token \cup {None}]
          /\ answer' \in [Calls -> Token \cup {None}]
          /\ refused' \in [Calls -> Token \cup {None}]
          /\ grant' \in [Calls -> Grants \cup {NoRefresh}]
      BY DEF Inv, TypeOK, End
    <2>3. attempts' \in [Calls -> Nat] /\ unauthorizedRetried' \in [Calls -> BOOLEAN]
      BY DEF Inv, TypeOK, End
    <2>4. ASSUME NEW c \in Calls
          PROVE  \/ attempts'[c] <= MAX_ATTEMPTS
                 \/ unauthorizedRetried'[c] /\ attempts'[c] = MAX_ATTEMPTS + 1
      <3>1. CASE c \in cs
        <4>1. attempts'[c] = 0
          BY <3>1, <1>a
        <4> QED
          BY <4>1
      <3>2. CASE c \notin cs
        BY <3>2, <1>a DEF Inv, TypeOK
      <3> QED
        BY <3>1, <3>2
    <2>5. forfeited' \subseteq 1..issued
      <3>1. ASSUME NEW r \in forfeited' PROVE r \in 1..issued
        <4>1. CASE r \in forfeited
          BY <4>1 DEF Inv, TypeOK
        <4>2. CASE r \notin forfeited
          <5>1. PICK c \in cs : r = grant[c] /\ r # NoRefresh
            BY <3>1, <4>2, <1>b
          <5> QED
            BY <5>1 DEF Inv, TypeOK, NumbersAreIssued
        <4> QED
          BY <4>1, <4>2
      <3> QED
        BY <3>1
    <2> QED
      BY <2>1, <2>2, <2>3, <2>4, <2>5 DEF Inv, TypeOK, End, memoryVars, providerVars
  <1>2. LocalsAreCurrent'
    BY DEF Inv, LocalsAreCurrent, TypeOK, End, callVars, memoryVars, providerVars
  <1>3. AttemptsAreLeft'
    <2>1. ASSUME NEW c \in Calls, step'[c] # "requesting"
          PROVE  \/ attempts'[c] < MAX_ATTEMPTS
                 \/ unauthorizedRetried'[c] /\ attempts'[c] = MAX_ATTEMPTS
      <3>1. CASE c \in cs
        <4>1. attempts'[c] = 0
          BY <3>1, <1>a
        <4> QED
          BY <4>1
      <3>2. CASE c \notin cs
        BY <2>1, <3>2, <1>a DEF Inv, AttemptsAreLeft
      <3> QED
        BY <3>1, <3>2
    <2> QED
      BY <2>1 DEF AttemptsAreLeft
  <1>4. NumbersAreIssued'
    BY DEF Inv, NumbersAreIssued, TypeOK, End, callVars, memoryVars, providerVars
  <1>5. AnswersAreFresh'
    BY DEF Inv, AnswersAreFresh, TypeOK, End, callVars, memoryVars, providerVars
  <1>6. AnswersAreGood'
    BY DEF Inv, AnswersAreGood, TypeOK, End, callVars, memoryVars, providerVars
  <1>7. AnswersAreNew'
    BY DEF Inv, AnswersAreNew, TypeOK, End, callVars, memoryVars, providerVars
  <1>8. RefreshTokenKept'
    <2>1. stored' = stored /\ live' = live
      BY DEF End, memoryVars, providerVars
    <2>2. ASSUME NEW c \in Calls, step[c] = "answered", grant[c] = stored.refresh,
                 stored.refresh # NoRefresh
          PROVE  \/ stored.refresh \in live \cup forfeited'
                 \/ step'[c] = "answered" /\ grant'[c] = stored.refresh
      <3>1. CASE c \in cs
        <4>1. c \in {d \in cs : step[d] = "answered"}
          BY <2>2, <3>1
        <4>2. grant[c] \in {grant[d] : d \in {e \in cs : step[e] = "answered"}}
          BY <4>1
        <4> QED
          BY <2>2, <4>2, <1>b
      <3>2. CASE c \notin cs
        BY <2>2, <3>2, <1>a
      <3> QED
        BY <3>1, <3>2
    <2> QED
      BY <2>1, <2>2, <1>b DEF Inv, RefreshTokenKept
  <1>9. RetryUsesNewToken'
    BY DEF Inv, RetryUsesNewToken, TypeOK, End, callVars, memoryVars, providerVars
  <1>10. OfflineTokensRefresh'
    BY DEF Inv, OfflineTokensRefresh, LocalsAreCurrent, TypeOK, End, callVars, memoryVars, providerVars
  <1> QED
    BY <1>1, <1>2, <1>3, <1>4, <1>5, <1>6, <1>7, <1>8, <1>9, <1>10 DEF Inv

LEMMA ExpireKeepsInv ==
    ASSUME Inv, Expire
    PROVE  Inv'
  <1> USE NoneAssumption, BoundsAssumption
      DEF Inv, TypeOK, Token, Grants, NoRefresh, Waiting, Ended, Expire,
          callVars, memoryVars, providerVars
  <1>1. TypeOK'
    OBVIOUS
  <1>2. LocalsAreCurrent'
    BY DEF LocalsAreCurrent
  <1>3. AttemptsAreLeft'
    BY DEF AttemptsAreLeft
  <1>4. NumbersAreIssued'
    BY DEF NumbersAreIssued
  <1>5. AnswersAreFresh'
    BY DEF AnswersAreFresh
  <1>6. AnswersAreGood'
    BY DEF AnswersAreGood
  <1>7. AnswersAreNew'
    BY DEF AnswersAreNew
  <1>8. RefreshTokenKept'
    BY DEF RefreshTokenKept
  <1>9. RetryUsesNewToken'
    BY DEF RetryUsesNewToken
  <1>10. OfflineTokensRefresh'
    BY DEF OfflineTokensRefresh, LocalsAreCurrent
  <1> QED
    BY <1>1, <1>2, <1>3, <1>4, <1>5, <1>6, <1>7, <1>8, <1>9, <1>10

LEMMA RevokeKeepsInv ==
    ASSUME Inv, NEW r \in Grants, Revoke(r)
    PROVE  Inv'
  <1> USE NoneAssumption, BoundsAssumption
      DEF Inv, TypeOK, Token, Grants, NoRefresh, Waiting, Ended, Revoke,
          callVars, memoryVars, providerVars
  <1>1. TypeOK'
    OBVIOUS
  <1>2. LocalsAreCurrent'
    BY DEF LocalsAreCurrent
  <1>3. AttemptsAreLeft'
    BY DEF AttemptsAreLeft
  <1>4. NumbersAreIssued'
    BY DEF NumbersAreIssued
  <1>5. AnswersAreFresh'
    BY DEF AnswersAreFresh
  <1>6. AnswersAreGood'
    BY DEF AnswersAreGood
  <1>7. AnswersAreNew'
    BY DEF AnswersAreNew
  <1>8. RefreshTokenKept'
    BY DEF RefreshTokenKept
  <1>9. RetryUsesNewToken'
    BY DEF RetryUsesNewToken
  <1>10. OfflineTokensRefresh'
    BY DEF OfflineTokensRefresh, LocalsAreCurrent
  <1> QED
    BY <1>1, <1>2, <1>3, <1>4, <1>5, <1>6, <1>7, <1>8, <1>9, <1>10

LEMMA ForgetKeepsInv ==
    ASSUME Inv, Forget
    PROVE  Inv'
  <1> USE NoneAssumption, BoundsAssumption
      DEF Inv, TypeOK, Token, Grants, NoRefresh, Waiting, Ended, Forget,
          callVars, memoryVars, providerVars
  <1>1. TypeOK'
    OBVIOUS
  <1>2. LocalsAreCurrent'
    BY DEF LocalsAreCurrent
  <1>3. AttemptsAreLeft'
    BY DEF AttemptsAreLeft
  <1>4. NumbersAreIssued'
    BY DEF NumbersAreIssued
  <1>5. AnswersAreFresh'
    BY DEF AnswersAreFresh
  <1>6. AnswersAreGood'
    BY DEF AnswersAreGood
  <1>7. AnswersAreNew'
    BY DEF AnswersAreNew
  <1>8. RefreshTokenKept'
    BY DEF RefreshTokenKept
  <1>9. RetryUsesNewToken'
    BY DEF RetryUsesNewToken
  <1>10. OfflineTokensRefresh'
    BY DEF OfflineTokensRefresh, LocalsAreCurrent
  <1> QED
    BY <1>1, <1>2, <1>3, <1>4, <1>5, <1>6, <1>7, <1>8, <1>9, <1>10

---------------------------------------------------------------------------

LEMMA InitInv == Init => Inv
  <1> SUFFICES ASSUME Init PROVE Inv
    OBVIOUS
  <1> USE NoneAssumption, BoundsAssumption DEF Init, NoRefresh, Waiting, Ended
  <1>1. TypeOK
    <2>1. \A c \in Calls : attempts[c] = 0
      OBVIOUS
    <2>2. attempts \in [Calls -> Nat] /\ \A c \in Calls : attempts[c] <= MAX_ATTEMPTS
      BY <2>1
    <2>3. /\ step \in [Calls -> {"idle"} \cup Waiting \cup Ended]
          /\ unauthorizedRetried \in [Calls -> BOOLEAN]
      OBVIOUS
    <2>4. /\ token \in [Calls -> Token \cup {None}]
          /\ answer \in [Calls -> Token \cup {None}]
          /\ refused \in [Calls -> Token \cup {None}]
          /\ grant \in [Calls -> Grants \cup {NoRefresh}]
      OBVIOUS
    <2>5. /\ issued \in 0..MaxGrants
          /\ live \subseteq 1..issued
          /\ forfeited \subseteq 1..issued
      OBVIOUS
    <2>6. provider \in Providers /\ stored \in Token \cup {None} /\ stale \in BOOLEAN
      OBVIOUS
    <2> HIDE DEF Init
    <2> QED
      BY <2>2, <2>3, <2>4, <2>5, <2>6 DEF TypeOK
  <1>2. LocalsAreCurrent /\ AttemptsAreLeft /\ NumbersAreIssued
    BY DEF LocalsAreCurrent, AttemptsAreLeft, NumbersAreIssued
  <1>3. AnswersAreFresh /\ AnswersAreGood /\ AnswersAreNew
    BY DEF AnswersAreFresh, AnswersAreGood, AnswersAreNew
  <1>4. OfflineTokensRefresh /\ RefreshTokenKept /\ RetryUsesNewToken
    BY DEF OfflineTokensRefresh, RefreshTokenKept, RetryUsesNewToken
  <1> QED
    BY <1>1, <1>2, <1>3, <1>4 DEF Inv

LEMMA BeginKeepsInv ==
    ASSUME Inv, NEW c \in Calls, Begin(c)
    PROVE  Inv'
  <1>1. CASE Fetch(c) /\ UNCHANGED <<token, grant>>
    BY <1>1, FetchWithoutToken DEF Begin
  <1>2. CASE BindStored(c, FALSE)
    BY <1>2, BindStoredKeepsInv DEF Begin
  <1>3. CASE RequestToken(c, FALSE)
    BY <1>3, RequestTokenKeepsInv DEF Begin
  <1>4. CASE AskForCode(c, FALSE)
    BY <1>4, AskForCodeKeepsInv DEF Begin
  <1> QED
    BY <1>1, <1>2, <1>3, <1>4 DEF Begin, resolveOAuth2Binding

\* A forced refresh does not bind the stored token.
LEMMA UnauthorizedKeepsInv ==
    ASSUME Inv, NEW c \in Calls, Unauthorized(c)
    PROVE  Inv'
  <1>1. CASE RequestToken(c, TRUE)
    BY <1>1, RefreshKeepsInv DEF Unauthorized
  <1>2. CASE AskForCode(c, TRUE)
    BY <1>2, AskAgainKeepsInv DEF Unauthorized
  <1> QED
    BY <1>1, <1>2 DEF Unauthorized, resolveOAuth2Binding, BindStored, useStored

LEMMA StutterKeepsInv ==
    ASSUME Inv, UNCHANGED vars
    PROVE  Inv'
  BY DEF Inv, vars, callVars, memoryVars, providerVars, TypeOK, LocalsAreCurrent,
         AttemptsAreLeft, NumbersAreIssued, AnswersAreFresh, AnswersAreGood, AnswersAreNew,
         OfflineTokensRefresh, RefreshTokenKept, RetryUsesNewToken

LEMMA NextKeepsInv == Inv /\ [Next]_vars => Inv'
  <1> SUFFICES ASSUME Inv, [Next]_vars PROVE Inv'
    OBVIOUS
  <1>1. ASSUME NEW c \in Calls, Begin(c) \/ CallStep(c) PROVE Inv'
    <2>1. CASE Begin(c)
      BY <2>1, BeginKeepsInv
    <2>2. CASE UserAnswers(c)
      BY <2>2, UserAnswersKeepsInv
    <2>3. CASE ProviderIssues(c)
      BY <2>3, ProviderIssuesKeepsInv
    <2>4. CASE ReceiveToken(c)
      BY <2>4, ReceiveTokenKeepsInv
    <2>5. CASE Unauthorized(c)
      BY <2>5, UnauthorizedKeepsInv
    <2>6. CASE Busy(c)
      BY <2>6, BusyKeepsInv
    <2>7. CASE Wake(c)
      BY <2>7, WakeKeepsInv
    <2>8. CASE Returns(c)
      BY <2>8, EndKeepsInv DEF Returns, Ended
    <2>9. CASE Throws(c)
      BY <2>9, EndKeepsInv DEF Throws, Ended
    <2> QED
      BY <1>1, <2>1, <2>2, <2>3, <2>4, <2>5, <2>6, <2>7, <2>8, <2>9 DEF CallStep
  <1>2. CASE Crash
    BY <1>2, EndKeepsInv DEF Crash, Ended
  <1>3. ASSUME NEW r \in Grants, Revoke(r) PROVE Inv'
    BY <1>3, RevokeKeepsInv
  <1>4. CASE Expire
    BY <1>4, ExpireKeepsInv
  <1>5. CASE Forget
    BY <1>5, ForgetKeepsInv
  <1>6. CASE UNCHANGED vars
    BY <1>6, StutterKeepsInv
  <1> QED
    BY <1>1, <1>2, <1>3, <1>4, <1>5, <1>6 DEF Next

LEMMA Invariance == Spec => []Inv
  BY InitInv, NextKeepsInv, PTL DEF Spec

\* Types, and the number of requests: the limit, and one more after a 401.
THEOREM TypeCorrect == Spec => []TypeOK
  <1>1. Inv => TypeOK
    BY DEF Inv
  <1> QED
    BY <1>1, Invariance, PTL

\* However calls overlap, fail or are cut off, the stored refresh token is good
\* unless its successor is on its way to a call or was lost.
THEOREM StoredRefreshTokenIsGood == Spec => []RefreshTokenKept
  <1>1. Inv => RefreshTokenKept
    BY DEF Inv
  <1> QED
    BY <1>1, Invariance, PTL

\* A token that a 401 was about is not sent again by its call.
THEOREM RefusedTokenIsReplaced == Spec => []RetryUsesNewToken
  <1>1. Inv => RetryUsesNewToken
    BY DEF Inv
  <1> QED
    BY <1>1, Invariance, PTL

\* A step that starts to ask the user is one of AskForCode.
LEMMA OnlyAskForCodeAsks ==
    ASSUME Inv, NEW c \in Calls, [Next]_vars,
           step[c] # "asking", step'[c] = "asking"
    PROVE  \E forceRefresh \in BOOLEAN : AskForCode(c, forceRefresh)
  <1> USE DEF Inv, TypeOK, Goto, Fetch, End, Waiting, Ended
  <1>1. ASSUME NEW d \in Calls, Begin(d) \/ CallStep(d)
        PROVE  \E forceRefresh \in BOOLEAN : AskForCode(c, forceRefresh)
    <2>1. CASE Begin(d)
      <3>1. CASE AskForCode(d, FALSE)
        BY <3>1 DEF AskForCode
      <3>2. CASE ~AskForCode(d, FALSE)
        BY <2>1, <3>2 DEF Begin, resolveOAuth2Binding, BindStored, RequestToken
      <3> QED
        BY <3>1, <3>2
    <2>2. CASE Unauthorized(d)
      <3>1. CASE AskForCode(d, TRUE)
        BY <3>1 DEF AskForCode
      <3>2. CASE ~AskForCode(d, TRUE)
        BY <2>2, <3>2 DEF Unauthorized, resolveOAuth2Binding, BindStored, RequestToken
      <3> QED
        BY <3>1, <3>2
    <2>3. CASE UserAnswers(d) \/ ProviderIssues(d) \/ ReceiveToken(d)
      BY <2>3 DEF UserAnswers, ProviderIssues, ReceiveToken
    <2>4. CASE Busy(d) \/ Wake(d)
      BY <2>4 DEF Busy, Wake
    <2>5. CASE Returns(d)
      BY <2>5 DEF Returns
    <2>6. CASE Throws(d)
      BY <2>6 DEF Throws
    <2> QED
      BY <1>1, <2>1, <2>2, <2>3, <2>4, <2>5, <2>6 DEF CallStep
  <1>2. CASE Crash
    BY <1>2 DEF Crash
  <1>3. CASE \/ \E r \in Grants : Revoke(r)
             \/ Expire
             \/ Forget
             \/ UNCHANGED vars
    BY <1>3 DEF Revoke, Expire, Forget, vars, callVars
  <1> QED
    BY <1>1, <1>2, <1>3 DEF Next

\* With a provider that issues refresh tokens the user is asked for a code only
\* when no token is stored.
THEOREM UserIsNotAskedAgain == Spec => NoNeedlessPrompt
  <1>1. ASSUME Inv, [Next]_vars, NEW c \in Calls,
               provider.offline, step[c] # "asking", step'[c] = "asking"
        PROVE  stored = None
    <2>1. PICK forceRefresh \in BOOLEAN : AskForCode(c, forceRefresh)
      BY <1>1, OnlyAskForCodeAsks
    <2> QED
      BY <1>1, <2>1 DEF AskForCode, Inv, OfflineTokensRefresh
  <1>2. Inv /\ [Next]_vars =>
           [\A c \in Calls :
              provider.offline /\ step[c] # "asking" /\ step'[c] = "asking" => stored = None]_vars
    BY <1>1
  <1> QED
    BY <1>2, Invariance, PTL DEF Spec, NoNeedlessPrompt

---------------------------------------------------------------------------
(***************************************************************************)
(* PolicyGate, for any policy and any finite set of sessions: limits, counts *)
(* and approvals.                                                          *)
(***************************************************************************)

\* The calls in permits under limit r that arrived between two times.
PermitsIn(permits, r, from, to) ==
    {i \in 1..Len(permits) : permits[i].op \in Policy[r].ops /\ permits[i].now \in from..to}

\* The sessions whose call under limit r arrived then and awaits the user.
PendingIn(requests, r, from, to) ==
    {requests[i].session : i \in {k \in 1..Len(requests) :
        /\ requests[k].kind = "gate"
        /\ requests[k].op \in Policy[r].ops
        /\ requests[k].now \in from..to}}

\* Calls and requests come from the past, and only calls whose rule asks for it
\* await an approval.
HistoryInv ==
    /\ \A i \in 1..Len(allowed) : allowed[i].now <= clock
    /\ \A i \in 1..Len(lane) :
          /\ lane[i].now <= clock
          /\ lane[i].kind = "gate" => NeedsApproval(lane[i].op)
    /\ \A s \in Sessions : \A receipt \in receipts[s] :
          receipt.op # Absent =>
             /\ receipt.at <= clock
             /\ \E y \in said : /\ y.kind = "interact" /\ y.session = s
                                /\ y.op = receipt.op /\ y.at = receipt.at

\* The calls under r whose window is not over have each a row of their own,
\* dated no earlier than the call.
CountedBy(r, rows, permits, now) ==
    \E f \in [PermitsIn(permits, r, now - Policy[r].window, now) -> {row \in rows : row.rule = r}] :
        /\ \A i, j \in PermitsIn(permits, r, now - Policy[r].window, now) : f[i] = f[j] => i = j
        /\ \A i \in PermitsIn(permits, r, now - Policy[r].window, now) : f[i].at >= permits[i].now

\* The calls let through in any window and those of it that await the user are
\* together within the bound.
Slack(r) == IF MayPend(r) THEN Cardinality(Sessions) - 1 ELSE 0
WithinBound(r, from, permits, requests) ==
    Cardinality(PermitsIn(permits, r, from, from + Policy[r].window))
      + Cardinality(PendingIn(requests, r, from, from + Policy[r].window))
        <= Policy[r].count + Slack(r)

GateInv ==
    /\ GateTypeOK
    /\ IsFiniteSet(counters)
    /\ HistoryInv
    /\ ApprovedByUser
    /\ \A r \in Limits : CountedBy(r, counters, allowed, clock)
    /\ \A r \in Limits : \A from \in Int : WithinBound(r, from, allowed, lane)

---------------------------------------------------------------------------
\* The rules are numbers, and the policy tells their action, count and window.
LEMMA RulesAre ==
    /\ Rules \subseteq Nat /\ Limits \subseteq Rules
    /\ \A r \in Rules : /\ Policy[r].window \in Nat /\ Policy[r].count \in Nat
                       /\ Policy[r].ops \in SUBSET Ops
                       /\ Policy[r].sufficient \in BOOLEAN
                       /\ Policy[r].action \in {"allow", "block", "approve", "rate_limit"}
    /\ \A op \in Ops : /\ RateLimitRules[op] \in SUBSET Rules
                      /\ OtherRules[op] \in SUBSET Rules
                      /\ \A r \in Limits : r \in RateLimitRules[op] <=> op \in Policy[r].ops
  <1>1. Len(Policy) \in Nat /\ \A r \in Rules : Policy[r] \in
            [action : {"allow", "block", "approve", "rate_limit"},
             ops : SUBSET Ops, sufficient : BOOLEAN, count : Nat, window : Nat]
    BY PolicyAssumption, ElementOfSeq, LenProperties DEF Rules
  <1>2. Rules \subseteq Nat /\ Limits \subseteq Rules
    BY <1>1 DEF Rules, Limits
  <1>3. ASSUME NEW op \in Ops
        PROVE  /\ RateLimitRules[op] \in SUBSET Rules
               /\ OtherRules[op] \in SUBSET Rules
               /\ \A r \in Limits : r \in RateLimitRules[op] <=> op \in Policy[r].ops
    BY <1>2 DEF RateLimitRules, OtherRules
  <1> QED
    BY <1>1, <1>2, <1>3

\* The least of a set of numbers is one of them.
LEMMA LeastIs ==
    ASSUME NEW S \in SUBSET Nat, S # {}
    PROVE  Least(S) \in S /\ \A k \in S : Least(S) <= k
  BY LeastExists DEF Least

\* The rule that decides about an operation is no rate limit.
LEMMA RuleForIs ==
    ASSUME NEW op \in Ops, RuleFor[op] # Absent
    PROVE  RuleFor[op] \in OtherRules[op] /\ RuleFor[op] \in Rules
  <1>1. OtherRules[op] \in SUBSET Nat /\ OtherRules[op] \in SUBSET Rules
    BY RulesAre
  <1>2. OtherRules[op] # {} /\ RuleFor[op] = Least(OtherRules[op])
    BY DEF RuleFor
  <1> QED
    BY <1>1, <1>2, LeastIs

\* There is a free time among the ones a row is tried at: one more than there
\* are rows.
LEMMA FreeTimeExists ==
    ASSUME NEW rows \in SUBSET Row, IsFiniteSet(rows), NEW r \in Rules, NEW at \in Nat
    PROVE  \E t \in at..at + Cardinality(rows) : t \notin {row.at : row \in {old \in rows : old.rule = r}}
  <1> DEFINE old == {row \in rows : row.rule = r}
             taken == {row.at : row \in old}
             tried == at..at + Cardinality(rows)
  <1>1. IsFiniteSet(old) /\ Cardinality(old) <= Cardinality(rows) /\ Cardinality(rows) \in Nat
    BY FS_Subset, FS_CardinalityType
  <1>2. IsFiniteSet(taken) /\ Cardinality(taken) <= Cardinality(old)
    <2> DEFINE f == [row \in old |-> row.at]
    <2>1. f \in Surjection(old, taken)
      BY DEF Surjection
    <2> QED
      BY <1>1, <2>1, FS_Surjection
  <1>3. IsFiniteSet(tried) /\ Cardinality(tried) = Cardinality(rows) + 1
    BY <1>1, FS_Interval
  <1>4. Cardinality(old) \in Nat /\ Cardinality(taken) \in Nat
    BY <1>1, <1>2, FS_CardinalityType
  <1>5. ~ (tried \subseteq taken)
    <2>1. SUFFICES ASSUME tried \subseteq taken PROVE FALSE
      OBVIOUS
    <2>2. Cardinality(tried) <= Cardinality(taken)
      BY <2>1, <1>2, FS_Subset
    <2> QED
      BY <2>2, <1>1, <1>2, <1>3, <1>4
  <1> QED
    BY <1>5

\* What record() leaves: the rows there were, and for each rule a new one that
\* is dated no earlier than the call.
LEMMA Recorded ==
    ASSUME NEW rows \in SUBSET Row, IsFiniteSet(rows), NEW rules \in SUBSET Rules, NEW at \in Nat
    PROVE  /\ recordRateLimits(rows, rules, at) \in SUBSET Row
           /\ IsFiniteSet(recordRateLimits(rows, rules, at))
           /\ rows \subseteq recordRateLimits(rows, rules, at)
           /\ \A r \in rules : \E new \in recordRateLimits(rows, rules, at) :
                 new \notin rows /\ new.rule = r /\ new.at >= at
  <1> DEFINE taken(r) == {row.at : row \in {old \in rows : old.rule = r}}
             free(r) == Least({t \in at..at + Cardinality(rows) : t \notin taken(r)})
             new(r) == [rule |-> r, at |-> free(r)]
             added == {new(r) : r \in rules}
  <1>1. recordRateLimits(rows, rules, at) = rows \cup added
    BY DEF recordRateLimits
  <1>2. Cardinality(rows) \in Nat
    BY FS_CardinalityType
  <1>3. ASSUME NEW r \in rules
        PROVE  free(r) \in Nat /\ free(r) >= at /\ free(r) \notin taken(r)
    <2> DEFINE S == {t \in at..at + Cardinality(rows) : t \notin taken(r)}
    <2>1. S # {}
      BY FreeTimeExists
    <2>2. S \in SUBSET Nat
      BY <1>2
    <2>3. Least(S) \in S
      <3> HIDE DEF S
      <3> QED
        BY <2>1, <2>2, LeastIs
    <2> QED
      BY <2>3, <1>2
  <1>4. ASSUME NEW r \in rules
        PROVE  new(r) \notin rows /\ new(r).rule = r /\ new(r).at >= at /\ new(r) \in Row
    <2>1. free(r) \in Nat /\ free(r) >= at /\ free(r) \notin taken(r)
      BY <1>3
    <2> HIDE DEF free
    <2>2. new(r) \notin rows
      BY <2>1
    <2> QED
      BY <2>1, <2>2 DEF Row
  <1>5. IsFiniteSet(added)
    <2> HIDE DEF new
    <2>1. IsFiniteSet(Rules)
      <3>1. Len(Policy) \in Nat
        BY PolicyAssumption, LenProperties
      <3> QED
        BY <3>1, FS_Interval DEF Rules
    <2>2. IsFiniteSet(rules)
      BY <2>1, FS_Subset
    <2> DEFINE f == [r \in rules |-> new(r)]
    <2>3. f \in Surjection(rules, added)
      BY DEF Surjection
    <2> QED
      BY <2>2, <2>3, FS_Surjection
  <1>6. IsFiniteSet(rows \cup added)
    BY <1>5, FS_Union
  <1>7. \A r \in rules : new(r) \in added
    OBVIOUS
  <1>8. added \in SUBSET Row
    BY <1>4
  <1> HIDE DEF new, added
  <1> QED
    BY <1>1, <1>4, <1>6, <1>7, <1>8

\* Rows that are still in the window keep their calls counted.
LEMMA CountedSurvives ==
    ASSUME NEW r \in Rules, NEW rows \in SUBSET Row, NEW fewer \in SUBSET Row,
           NEW permits \in Seq(Permit), NEW now \in Nat,
           CountedBy(r, rows, permits, now),
           \A row \in rows : row.rule = r /\ row.at >= now - Policy[r].window => row \in fewer
    PROVE  CountedBy(r, fewer, permits, now)
  <1> DEFINE P == PermitsIn(permits, r, now - Policy[r].window, now)
             R == {row \in rows : row.rule = r}
             S == {row \in fewer : row.rule = r}
  <1>1. PICK f \in [P -> R] : /\ \A i, j \in P : f[i] = f[j] => i = j
                              /\ \A i \in P : f[i].at >= permits[i].now
    BY DEF CountedBy
  <1>2. ASSUME NEW i \in P PROVE f[i] \in S
    <2>1. permits[i] \in Permit /\ permits[i].now \in now - Policy[r].window..now
      BY ElementOfSeq DEF PermitsIn
    <2>2. f[i] \in R /\ f[i].at \in Nat /\ permits[i].now \in Nat /\ Policy[r].window \in Nat
      BY <1>1, <2>1, RulesAre DEF Row, Permit
    <2>3. f[i].at >= now - Policy[r].window
      BY <1>1, <2>1, <2>2
    <2> QED
      BY <2>2, <2>3
  <1>3. f \in [P -> S]
    <2> HIDE DEF P, R, S
    <2> QED
      BY <1>1, <1>2
  <1> QED
    BY <1>1, <1>3 DEF CountedBy

\* As time passes there are fewer calls to count.
LEMMA CountedLater ==
    ASSUME NEW r \in Rules, NEW rows \in SUBSET Row, NEW permits \in Seq(Permit), NEW now \in Nat,
           \A i \in 1..Len(permits) : permits[i].now <= now,
           CountedBy(r, rows, permits, now)
    PROVE  CountedBy(r, rows, permits, now + 1)
  <1> DEFINE P == PermitsIn(permits, r, now - Policy[r].window, now)
             Q == PermitsIn(permits, r, (now + 1) - Policy[r].window, now + 1)
             R == {row \in rows : row.rule = r}
  <1>1. PICK f \in [P -> R] : /\ \A i, j \in P : f[i] = f[j] => i = j
                              /\ \A i \in P : f[i].at >= permits[i].now
    BY DEF CountedBy
  <1>2. ASSUME NEW i \in Q PROVE i \in P
    <2>1. permits[i] \in Permit /\ permits[i].now <= now /\ i \in 1..Len(permits)
      BY ElementOfSeq DEF PermitsIn
    <2>2. permits[i].now \in Nat /\ Policy[r].window \in Nat
      BY <2>1, RulesAre DEF Permit
    <2> QED
      BY <2>1, <2>2 DEF PermitsIn
  <1> DEFINE g == [i \in Q |-> f[i]]
  <1>3. g \in [Q -> R] /\ \A i \in Q : g[i] = f[i]
    <2> HIDE DEF P, Q, R
    <2> QED
      BY <1>1, <1>2
  <1>4. /\ \A i, j \in Q : g[i] = g[j] => i = j
        /\ \A i \in Q : g[i].at >= permits[i].now
    <2> HIDE DEF P, Q, R, g
    <2> QED
      BY <1>1, <1>2, <1>3
  <1> QED
    BY <1>3, <1>4 DEF CountedBy

\* A call let through, with a new row if the limit is for it, is counted too.
LEMMA CountedOneMore ==
    ASSUME NEW r \in Rules, NEW rows \in SUBSET Row, NEW more \in SUBSET Row, rows \subseteq more,
           NEW permits \in Seq(Permit), NEW permit \in Permit, NEW now \in Nat,
           CountedBy(r, rows, permits, now),
           permit.op \in Policy[r].ops =>
              \E new \in more : new \notin rows /\ new.rule = r /\ new.at >= permit.now
    PROVE  CountedBy(r, more, Append(permits, permit), now)
  <1> DEFINE from == now - Policy[r].window
             n == Len(permits) + 1
             P == PermitsIn(permits, r, from, now)
             Q == PermitsIn(Append(permits, permit), r, from, now)
             R == {row \in rows : row.rule = r}
             S == {row \in more : row.rule = r}
  <1>1. PICK f \in [P -> R] : /\ \A i, j \in P : f[i] = f[j] => i = j
                              /\ \A i \in P : f[i].at >= permits[i].now
    BY DEF CountedBy
  <1>2. /\ Len(permits) \in Nat /\ Len(Append(permits, permit)) = n
        /\ \A i \in 1..Len(permits) : Append(permits, permit)[i] = permits[i]
        /\ Append(permits, permit)[n] = permit
    BY AppendProperties, LenProperties
  <1>3. /\ \A i \in Q : i # n => i \in P
        /\ P \subseteq Q
        /\ n \notin P
        /\ n \in Q => permit.op \in Policy[r].ops
    <2> HIDE DEF from
    <2> QED
      BY <1>2 DEF PermitsIn
  <1>4. PICK new : n \in Q => new \in more /\ new \notin rows /\ new.rule = r /\ new.at >= permit.now
    BY <1>3
  <1> DEFINE g == [i \in Q |-> IF i = n THEN new ELSE f[i]]
  <1>5. /\ g \in [Q -> S]
        /\ \A i \in Q : g[i] = IF i = n THEN new ELSE f[i]
    <2>1. R \subseteq S
      OBVIOUS
    <2>2. n \in Q => new \in S
      BY <1>4
    <2> HIDE DEF P, Q, R, S, n
    <2> QED
      BY <1>1, <1>3, <2>1, <2>2
  <1>6. \A i, j \in Q : g[i] = g[j] => i = j
    <2>1. \A i \in P : f[i] \in rows
      <3> HIDE DEF P
      <3> QED
        BY <1>1
    <2> HIDE DEF P, Q, R, S, n, g
    <2> QED
      BY <1>1, <1>3, <1>4, <1>5, <2>1
  <1>7. \A i \in Q : g[i].at >= Append(permits, permit)[i].now
    <2>1. \A i \in P : i \in 1..Len(permits)
      BY DEF PermitsIn
    <2> HIDE DEF P, Q, R, S, n, g
    <2> QED
      BY <1>1, <1>2, <1>3, <1>4, <1>5, <2>1
  <1> HIDE DEF g
  <1> QED
    BY <1>5, <1>6, <1>7 DEF CountedBy

\* What is counted is no more than the rows in the window.
LEMMA CountedAreFewer ==
    ASSUME NEW r \in Rules, NEW rows \in SUBSET Row, IsFiniteSet(rows),
           NEW permits \in Seq(Permit), NEW now \in Nat,
           CountedBy(r, rows, permits, now)
    PROVE  Cardinality(PermitsIn(permits, r, now - Policy[r].window, now))
              <= Cardinality({row \in rows : row.rule = r /\ row.at >= now - Policy[r].window})
  <1> DEFINE P == PermitsIn(permits, r, now - Policy[r].window, now)
             R == {row \in rows : row.rule = r}
             W == {row \in rows : row.rule = r /\ row.at >= now - Policy[r].window}
  <1>1. PICK f \in [P -> R] : /\ \A i, j \in P : f[i] = f[j] => i = j
                              /\ \A i \in P : f[i].at >= permits[i].now
    BY DEF CountedBy
  <1>2. ASSUME NEW i \in P PROVE f[i] \in W
    <2>1. permits[i] \in Permit /\ permits[i].now \in now - Policy[r].window..now
      BY ElementOfSeq DEF PermitsIn
    <2>2. f[i] \in R /\ f[i].at \in Nat /\ permits[i].now \in Nat /\ Policy[r].window \in Nat
      BY <1>1, <2>1, RulesAre DEF Row, Permit
    <2>3. f[i].at >= now - Policy[r].window
      BY <1>1, <2>1, <2>2
    <2> QED
      BY <2>2, <2>3
  <1>3. IsFiniteSet(W)
    BY FS_Subset
  <1>4. f \in Injection(P, W)
    <2> HIDE DEF P, R, W
    <2> QED
      BY <1>1, <1>2 DEF Injection, IsInjective
  <1> HIDE DEF P, W
  <1>5. Cardinality(P) <= Cardinality(W)
    BY <1>3, <1>4, FS_Injection
  <1> QED
    BY <1>5 DEF P, W

---------------------------------------------------------------------------
\* Whether a call or a request is one of limit r in that window.
Counts(r, from, to, item) == item.op \in Policy[r].ops /\ item.now \in from..to

LEMMA PermitsAreFinite ==
    ASSUME NEW permits \in Seq(Permit), NEW r, NEW from, NEW to
    PROVE  /\ IsFiniteSet(PermitsIn(permits, r, from, to))
           /\ Cardinality(PermitsIn(permits, r, from, to)) \in Nat
  <1>1. Len(permits) \in Nat
    BY LenProperties
  <1>2. IsFiniteSet(1..Len(permits))
    BY <1>1, FS_Interval
  <1>3. PermitsIn(permits, r, from, to) \subseteq 1..Len(permits)
    BY DEF PermitsIn
  <1> QED
    BY <1>2, <1>3, FS_Subset, FS_CardinalityType

\* One more call let through is one more in the windows it belongs to.
LEMMA OneMorePermit ==
    ASSUME NEW permits \in Seq(Permit), NEW permit \in Permit, NEW r, NEW from, NEW to
    PROVE  Cardinality(PermitsIn(Append(permits, permit), r, from, to))
              = Cardinality(PermitsIn(permits, r, from, to))
                   + (IF Counts(r, from, to, permit) THEN 1 ELSE 0)
  <1> DEFINE n == Len(permits) + 1
             P == PermitsIn(permits, r, from, to)
             Q == PermitsIn(Append(permits, permit), r, from, to)
  <1>1. /\ Len(permits) \in Nat /\ Len(Append(permits, permit)) = n
        /\ \A i \in 1..Len(permits) : Append(permits, permit)[i] = permits[i]
        /\ Append(permits, permit)[n] = permit
    BY AppendProperties, LenProperties
  <1>2. n \notin P /\ IsFiniteSet(P) /\ Cardinality(P) \in Nat
    <2>1. n \notin P
      BY <1>1 DEF PermitsIn
    <2> QED
      BY <2>1, PermitsAreFinite
  <1>3. Q = IF Counts(r, from, to, permit) THEN P \cup {n} ELSE P
    BY <1>1 DEF PermitsIn, Counts
  <1> HIDE DEF P, Q, n
  <1>4. Cardinality(P \cup {n}) = Cardinality(P) + 1
    BY <1>2, FS_AddElement
  <1>5. CASE Counts(r, from, to, permit)
    <2>1. Cardinality(Q) = Cardinality(P) + 1
      BY <1>3, <1>4, <1>5
    <2> QED
      BY <2>1, <1>5 DEF P, Q
  <1>6. CASE ~Counts(r, from, to, permit)
    <2>1. Cardinality(Q) = Cardinality(P) + 0
      BY <1>2, <1>3, <1>6
    <2> QED
      BY <2>1, <1>6 DEF P, Q
  <1> QED
    BY <1>5, <1>6

LEMMA PendingAreSessions ==
    ASSUME NEW requests \in Seq(Request), NEW r, NEW from, NEW to
    PROVE  /\ PendingIn(requests, r, from, to) \in SUBSET Sessions
           /\ IsFiniteSet(PendingIn(requests, r, from, to))
           /\ Cardinality(PendingIn(requests, r, from, to)) \in Nat
  <1>1. \A i \in 1..Len(requests) : requests[i].session \in Sessions
    <2>1. \A i \in 1..Len(requests) : requests[i] \in Request
      BY ElementOfSeq
    <2> QED
      BY <2>1 DEF Request
  <1>2. PendingIn(requests, r, from, to) \in SUBSET Sessions
    BY <1>1 DEF PendingIn
  <1> QED
    BY <1>2, FS_Subset, FS_CardinalityType, PolicyAssumption

\* One more request is at most one more session in the windows it belongs to.
LEMMA OneMoreRequest ==
    ASSUME NEW requests \in Seq(Request), NEW request \in Request, NEW r, NEW from, NEW to
    PROVE  Cardinality(PendingIn(Append(requests, request), r, from, to))
              <= Cardinality(PendingIn(requests, r, from, to))
                   + (IF request.kind = "gate" /\ Counts(r, from, to, request) THEN 1 ELSE 0)
  <1> DEFINE n == Len(requests) + 1
             new == Append(requests, request)
             K(q) == {k \in 1..Len(q) : q[k].kind = "gate" /\ q[k].op \in Policy[r].ops
                                          /\ q[k].now \in from..to}
             P == PendingIn(requests, r, from, to)
             Q == PendingIn(Append(requests, request), r, from, to)
             mine == request.kind = "gate" /\ Counts(r, from, to, request)
  <1>1. /\ Len(requests) \in Nat /\ Len(new) = n
        /\ \A i \in 1..Len(requests) : new[i] = requests[i]
        /\ new[n] = request
    BY AppendProperties, LenProperties
  <1>2. IsFiniteSet(P) /\ Cardinality(P) \in Nat
    BY PendingAreSessions
  <1>3. K(new) = IF mine THEN K(requests) \cup {n} ELSE K(requests)
    BY <1>1 DEF Counts
  <1>4. \A k \in K(requests) : new[k] = requests[k]
    BY <1>1
  <1>5. P = {requests[i].session : i \in K(requests)} /\ Q = {new[i].session : i \in K(new)}
    BY DEF PendingIn
  <1>6. Q = IF mine THEN P \cup {request.session} ELSE P
    <2> HIDE DEF K, new, n, mine, P, Q
    <2> QED
      BY <1>1, <1>3, <1>4, <1>5
  <1> HIDE DEF P, Q, mine
  <1>7. Cardinality(P \cup {request.session}) <= Cardinality(P) + 1
    <2>1. Cardinality(P \cup {request.session})
             = IF request.session \in P THEN Cardinality(P) ELSE Cardinality(P) + 1
      BY <1>2, FS_AddElement
    <2> QED
      BY <2>1, <1>2
  <1>8. CASE mine
    <2>1. Cardinality(Q) <= Cardinality(P) + 1
      BY <1>6, <1>7, <1>8
    <2> QED
      BY <2>1, <1>8 DEF P, Q, mine
  <1>9. CASE ~mine
    <2>1. Cardinality(Q) <= Cardinality(P) + 0
      BY <1>2, <1>6, <1>9
    <2> QED
      BY <2>1, <1>9 DEF P, Q, mine
  <1> QED
    BY <1>8, <1>9

\* With the answer to the head, its session is no longer among those waiting.
LEMMA OneRequestLess ==
    ASSUME NEW requests \in Seq(Request), requests # <<>>, NEW r, NEW from, NEW to,
           \A i, j \in 1..Len(requests) : requests[i].session = requests[j].session => i = j
    PROVE  Cardinality(PendingIn(Tail(requests), r, from, to))
              + (IF Head(requests).kind = "gate" /\ Counts(r, from, to, Head(requests))
                 THEN 1 ELSE 0)
                 <= Cardinality(PendingIn(requests, r, from, to))
  <1> DEFINE rest == Tail(requests)
             K(q) == {k \in 1..Len(q) : q[k].kind = "gate" /\ q[k].op \in Policy[r].ops
                                          /\ q[k].now \in from..to}
             P == PendingIn(requests, r, from, to)
             Q == PendingIn(Tail(requests), r, from, to)
             mine == Head(requests).kind = "gate" /\ Counts(r, from, to, Head(requests))
  <1>1. /\ Len(requests) \in Nat /\ Len(requests) # 0 /\ Len(rest) = Len(requests) - 1
        /\ \A i \in 1..Len(rest) : rest[i] = requests[i + 1]
        /\ Head(requests) = requests[1]
        /\ rest \in Seq(Request)
    BY HeadTailProperties, LenProperties, EmptySeq
  <1>2. IsFiniteSet(P) /\ Cardinality(P) \in Nat /\ IsFiniteSet(Q) /\ Cardinality(Q) \in Nat
    BY <1>1, PendingAreSessions
  <1>3. P = {requests[i].session : i \in K(requests)} /\ Q = {rest[i].session : i \in K(rest)}
    BY DEF PendingIn
  <1>4. \A k \in K(rest) : k + 1 \in K(requests) /\ rest[k] = requests[k + 1] /\ k + 1 # 1
                             /\ k + 1 \in 1..Len(requests)
    BY <1>1
  <1>5. Q \subseteq P
    <2> HIDE DEF K, rest, P, Q
    <2> QED
      BY <1>3, <1>4
  <1>6. mine => 1 \in K(requests)
    BY <1>1 DEF Counts
  <1>7. ASSUME mine PROVE Head(requests).session \in P /\ Head(requests).session \notin Q
    <2>1. 1 \in 1..Len(requests)
      BY <1>1
    <2> HIDE DEF K, rest, P, Q, mine
    <2> QED
      BY <1>1, <1>3, <1>4, <1>6, <1>7, <2>1
  <1> HIDE DEF P, Q, mine
  <1>8. CASE mine
    <2>1. Q \subseteq P \ {Head(requests).session}
      BY <1>5, <1>7, <1>8
    <2>2. /\ IsFiniteSet(P \ {Head(requests).session})
          /\ Cardinality(P \ {Head(requests).session}) = Cardinality(P) - 1
      BY <1>2, <1>7, <1>8, FS_RemoveElement
    <2>3. Cardinality(Q) <= Cardinality(P \ {Head(requests).session})
      BY <2>1, <2>2, FS_Subset
    <2>4. Cardinality(Q) + 1 <= Cardinality(P)
      BY <1>2, <2>2, <2>3
    <2> QED
      BY <2>4, <1>8 DEF P, Q, mine
  <1>9. CASE ~mine
    <2>1. Cardinality(Q) + 0 <= Cardinality(P)
      BY <1>2, <1>5, FS_Subset
    <2> QED
      BY <2>1, <1>9 DEF P, Q, mine
  <1> QED
    BY <1>8, <1>9

\* While its counters are below the limit, a window that holds the present has
\* room for a call.
LEMMA RoomForCall ==
    ASSUME NEW r \in Rules, NEW rows \in SUBSET Row, IsFiniteSet(rows),
           NEW permits \in Seq(Permit), NEW now \in Nat, NEW from \in Int,
           \A i \in 1..Len(permits) : permits[i].now <= now,
           CountedBy(r, rows, permits, now),
           Cardinality({row \in rows : row.rule = r /\ row.at >= now - Policy[r].window})
              < Policy[r].count,
           now \in from..from + Policy[r].window
    PROVE  Cardinality(PermitsIn(permits, r, from, from + Policy[r].window)) + 1 <= Policy[r].count
  <1> DEFINE W == {row \in rows : row.rule = r /\ row.at >= now - Policy[r].window}
             P == PermitsIn(permits, r, from, from + Policy[r].window)
             Q == PermitsIn(permits, r, now - Policy[r].window, now)
  <1>1. Policy[r].window \in Nat /\ Policy[r].count \in Nat
    BY RulesAre
  <1>2. \A i \in 1..Len(permits) : permits[i].now \in Nat
    <2>1. \A i \in 1..Len(permits) : permits[i] \in Permit
      BY ElementOfSeq
    <2> QED
      BY <2>1 DEF Permit
  <1>3. P \subseteq Q
    BY <1>1, <1>2 DEF PermitsIn
  <1>4. IsFiniteSet(Q) /\ Cardinality(Q) \in Nat /\ Cardinality(P) \in Nat /\ IsFiniteSet(W)
    BY PermitsAreFinite, FS_Subset
  <1>5. Cardinality(W) \in Nat
    BY <1>4, FS_CardinalityType
  <1>6. Cardinality(P) <= Cardinality(Q)
    BY <1>3, <1>4, FS_Subset
  <1>7. Cardinality(Q) <= Cardinality(W)
    BY CountedAreFewer
  <1>8. Cardinality(W) < Policy[r].count
    OBVIOUS
  <1> HIDE DEF P, Q, W
  <1>9. Cardinality(P) + 1 <= Policy[r].count
    BY <1>1, <1>4, <1>5, <1>6, <1>7, <1>8
  <1> QED
    BY <1>9 DEF P

\* A limit none of whose operations asks for approval has no call that awaits
\* one; of the others no more than the sessions that wait.
LEMMA SlackIsEnough ==
    ASSUME NEW r \in Rules, NEW requests \in Seq(Request), NEW s \in Sessions,
           NEW from, NEW to,
           \A i \in 1..Len(requests) : requests[i].kind = "gate" => NeedsApproval(requests[i].op),
           \A i \in 1..Len(requests) : requests[i].session # s
    PROVE  Cardinality(PendingIn(requests, r, from, to)) <= Slack(r)
  <1> DEFINE P == PendingIn(requests, r, from, to)
  <1>1. P \in SUBSET Sessions /\ IsFiniteSet(P) /\ Cardinality(P) \in Nat
    BY PendingAreSessions
  <1>2. CASE MayPend(r)
    <2>1. P \subseteq Sessions \ {s}
      BY <1>1 DEF PendingIn
    <2>2. IsFiniteSet(Sessions) /\ Cardinality(Sessions \ {s}) = Cardinality(Sessions) - 1
          /\ IsFiniteSet(Sessions \ {s})
      BY PolicyAssumption, FS_RemoveElement
    <2> HIDE DEF P
    <2>3. Cardinality(P) <= Cardinality(Sessions) - 1
      BY <2>1, <2>2, FS_Subset
    <2> QED
      BY <1>2, <2>3 DEF P, Slack
  <1>3. CASE ~MayPend(r)
    <2>1. P = {}
      BY <1>3 DEF MayPend, PendingIn
    <2>2. Cardinality(P) = 0
      BY <2>1, FS_EmptySet
    <2> QED
      BY <1>3, <2>2 DEF Slack
  <1> QED
    BY <1>2, <1>3

LEMMA SlackIsNat == \A r : Slack(r) \in Nat
  <1>1. IsFiniteSet(Sessions) /\ Cardinality(Sessions) \in Nat /\ Cardinality(Sessions) # 0
    BY PolicyAssumption, FS_CardinalityType, FS_EmptySet
  <1> QED
    BY <1>1 DEF Slack

LEMMA BoundIsNat ==
    ASSUME NEW r \in Limits
    PROVE  Policy[r].count + Slack(r) \in Nat
  <1>1. r \in Rules
    BY RulesAre
  <1>2. Policy[r].count \in Nat
    BY <1>1, RulesAre
  <1>3. Slack(r) \in Nat
    BY SlackIsNat
  <1> QED
    BY <1>2, <1>3

---------------------------------------------------------------------------
(***************************************************************************)
(* The parts of the invariant, and what keeps each of them.                *)
(***************************************************************************)

LaneOK(requests, alive) ==
    /\ requests \in Seq(Request)
    /\ \A i \in 1..Len(requests) :
          /\ requests[i].session \in alive
          /\ requests[i].kind = "gate" => requests[i].op # Absent
          /\ \A j \in 1..Len(requests) : requests[i].session = requests[j].session => i = j

Past(items, now) == \A i \in 1..Len(items) : items[i].now <= now
AskForApproval(requests) ==
    \A i \in 1..Len(requests) : requests[i].kind = "gate" => NeedsApproval(requests[i].op)
Backed(recorded, yeses, now) ==
    \A s \in Sessions : \A receipt \in recorded[s] :
        receipt.op # Absent =>
           /\ receipt.at <= now
           /\ \E y \in yeses : /\ y.kind = "interact" /\ y.session = s
                               /\ y.op = receipt.op /\ y.at = receipt.at

\* What ApprovedByUser asks of one call.
ApprovedIn(permit, yeses) ==
    RuleFor[permit.op] # Absent =>
       /\ Policy[RuleFor[permit.op]].action # "block"
       /\ NeedsApproval(permit.op) =>
             \/ \E y \in yeses : /\ y.kind = "gate" /\ y.session = permit.session
                                 /\ y.op = permit.op /\ y.at <= permit.at
                                 /\ permit.now <= y.at
             \/ /\ Policy[RuleFor[permit.op]].sufficient
                /\ \E y \in yeses : /\ y.kind = "interact" /\ y.session = permit.session
                                    /\ y.op = permit.op /\ y.at <= permit.at
                                    /\ permit.now - y.at <= ReceiptWindow
AllApproved(permits, yeses) == \A i \in 1..Len(permits) : ApprovedIn(permits[i], yeses)

AllCounted(rows, permits, now) == \A r \in Limits : CountedBy(r, rows, permits, now)
AllWithin(permits, requests) ==
    \A r \in Limits : \A from \in Int : WithinBound(r, from, permits, requests)

Basics ==
    /\ clock \in Nat
    /\ liveSessions \in SUBSET started /\ started \in SUBSET Sessions
    /\ counters \in SUBSET Row /\ IsFiniteSet(counters)
    /\ receipts \in [Sessions -> SUBSET Receipt]
    /\ calls \in Nat
    /\ said \in SUBSET Approval
    /\ allowed \in Seq(Permit)

LEMMA PartsOfInv ==
    /\ GateTypeOK /\ IsFiniteSet(counters) <=> Basics /\ LaneOK(lane, liveSessions)
    /\ HistoryInv <=> /\ Past(allowed, clock) /\ Past(lane, clock)
                      /\ AskForApproval(lane) /\ Backed(receipts, said, clock)
    /\ ApprovedByUser <=> AllApproved(allowed, said)
    /\ GateInv <=> /\ Basics /\ LaneOK(lane, liveSessions)
                   /\ Past(allowed, clock) /\ Past(lane, clock)
                   /\ AskForApproval(lane) /\ Backed(receipts, said, clock)
                   /\ AllApproved(allowed, said)
                   /\ AllCounted(counters, allowed, clock)
                   /\ AllWithin(allowed, lane)
  <1>1. GateTypeOK /\ IsFiniteSet(counters) <=> Basics /\ LaneOK(lane, liveSessions)
    BY Zenon DEF GateTypeOK, Basics, LaneOK
  <1>2. HistoryInv <=> /\ Past(allowed, clock) /\ Past(lane, clock)
                       /\ AskForApproval(lane) /\ Backed(receipts, said, clock)
    BY Zenon DEF HistoryInv, Past, AskForApproval, Backed
  <1>3. ApprovedByUser <=> AllApproved(allowed, said)
    BY DEF ApprovedByUser, AllApproved, ApprovedIn
  <1> QED
    BY <1>1, <1>2, <1>3, Zenon DEF GateInv, AllCounted, AllWithin

LEMMA InvFromParts ==
    ASSUME Basics', LaneOK(lane', liveSessions'), Past(allowed', clock'), Past(lane', clock'),
           AskForApproval(lane'), Backed(receipts', said', clock'), AllApproved(allowed', said'),
           AllCounted(counters', allowed', clock'), AllWithin(allowed', lane')
    PROVE  GateInv'
  <1>1. GateTypeOK' /\ IsFiniteSet(counters)'
    BY Zenon DEF GateTypeOK, Basics, LaneOK
  <1>2. HistoryInv'
    BY Zenon DEF HistoryInv, Past, AskForApproval, Backed
  <1>3. ApprovedByUser'
    BY DEF ApprovedByUser, AllApproved, ApprovedIn
  <1> QED
    BY <1>1, <1>2, <1>3, Zenon DEF GateInv, AllCounted, AllWithin

LEMMA NowIsLater ==
    ASSUME NEW S, NEW items \in Seq(S), \A x \in S : x.now \in Nat,
           NEW now \in Nat, Past(items, now)
    PROVE  Past(items, now + 1)
  <1>1. \A i \in 1..Len(items) : items[i] \in S
    BY ElementOfSeq
  <1> QED
    BY <1>1 DEF Past

LEMMA PastOneMore ==
    ASSUME NEW S, NEW items \in Seq(S), NEW item \in S, NEW now, item.now <= now, Past(items, now)
    PROVE  Past(Append(items, item), now)
  BY AppendProperties, LenProperties DEF Past

LEMMA LaneOneMore ==
    ASSUME NEW requests, NEW alive, LaneOK(requests, alive),
           NEW request \in Request, request.kind = "gate" => request.op # Absent,
           \A i \in 1..Len(requests) : requests[i].session # request.session,
           NEW more, alive \subseteq more, request.session \in more
    PROVE  LaneOK(Append(requests, request), more)
  <1> DEFINE new == Append(requests, request)
             n == Len(requests) + 1
  <1>1. /\ Len(requests) \in Nat /\ Len(new) = n
        /\ \A i \in 1..Len(requests) : new[i] = requests[i]
        /\ new[n] = request
        /\ new \in Seq(Request)
    BY AppendProperties, LenProperties DEF LaneOK
  <1>2. \A i \in 1..n : i # n => i \in 1..Len(requests)
    BY <1>1
  <1> HIDE DEF new, n
  <1>3. \A i \in 1..n : /\ new[i].session \in more
                        /\ new[i].kind = "gate" => new[i].op # Absent
    BY <1>1, <1>2 DEF LaneOK
  <1>4. \A i, j \in 1..n : new[i].session = new[j].session => i = j
    BY <1>1, <1>2 DEF LaneOK
  <1>5. LaneOK(new, more)
    BY <1>1, <1>3, <1>4 DEF LaneOK
  <1> QED
    BY <1>5 DEF new

LEMMA LaneOneLess ==
    ASSUME NEW requests, NEW alive, LaneOK(requests, alive), requests # <<>>, NEW now,
           Past(requests, now), AskForApproval(requests)
    PROVE  /\ LaneOK(Tail(requests), alive)
           /\ Past(Tail(requests), now) /\ AskForApproval(Tail(requests))
           /\ Head(requests) \in Request /\ Head(requests).now <= now
           /\ Head(requests).session \in alive
           /\ Head(requests).kind = "gate" =>
                 Head(requests).op # Absent /\ NeedsApproval(Head(requests).op)
  <1> DEFINE rest == Tail(requests)
  <1>1. /\ Len(requests) \in Nat /\ Len(requests) # 0 /\ Len(rest) = Len(requests) - 1
        /\ \A i \in 1..Len(rest) : rest[i] = requests[i + 1]
        /\ Head(requests) = requests[1]
        /\ rest \in Seq(Request)
    BY HeadTailProperties, LenProperties, EmptySeq DEF LaneOK
  <1>2. \A i \in 1..Len(rest) : i + 1 \in 1..Len(requests)
    BY <1>1
  <1>3. 1 \in 1..Len(requests) /\ requests[1] \in Request
    BY <1>1, ElementOfSeq DEF LaneOK
  <1> HIDE DEF rest
  <1>4. \A i, j \in 1..Len(rest) : rest[i].session = rest[j].session => i = j
    <2>1. SUFFICES ASSUME NEW i \in 1..Len(rest), NEW j \in 1..Len(rest),
                          rest[i].session = rest[j].session
                   PROVE  i = j
      OBVIOUS
    <2>2. i + 1 = j + 1
      BY <1>1, <1>2, <2>1 DEF LaneOK
    <2> QED
      BY <1>1, <2>2
  <1>5. LaneOK(rest, alive)
    BY <1>1, <1>2, <1>4 DEF LaneOK
  <1>6. Past(rest, now) /\ AskForApproval(rest)
    BY <1>1, <1>2 DEF Past, AskForApproval
  <1> QED
    BY <1>1, <1>3, <1>5, <1>6 DEF rest, LaneOK, Past, AskForApproval

\* check() deletes no row whose window is not over.
LEMMA PrunedKeepsCounted ==
    ASSUME Basics, NEW rules, AllCounted(counters, allowed, clock)
    PROVE  /\ Pruned(rules) \in SUBSET Row /\ IsFiniteSet(Pruned(rules))
           /\ AllCounted(Pruned(rules), allowed, clock)
  <1>1. Pruned(rules) \in SUBSET Row /\ IsFiniteSet(Pruned(rules))
    <2>1. Pruned(rules) \subseteq counters
      BY DEF Pruned
    <2> QED
      BY <2>1, FS_Subset DEF Basics
  <1>2. ASSUME NEW r \in Limits
        PROVE  CountedBy(r, Pruned(rules), allowed, clock)
    <2>1. \A row \in counters : row.rule = r /\ row.at >= clock - Policy[r].window
                                   => row \in Pruned(rules)
      BY DEF Pruned
    <2>2. CountedBy(r, counters, allowed, clock) /\ r \in Rules
      BY RulesAre DEF AllCounted
    <2> QED
      BY <1>1, <2>1, <2>2, CountedSurvives DEF Basics
  <1> QED
    BY <1>1, <1>2 DEF AllCounted

\* A call is let through with all its rows, or not at all.
LEMMA GrantKeepsCounted ==
    ASSUME Basics, NEW rows \in SUBSET Row, IsFiniteSet(rows), AllCounted(rows, allowed, clock),
           NEW permit \in Permit, NEW failing \in Rules \cup {Absent},
           Grant(rows, permit, failing)
    PROVE  /\ counters' \in SUBSET Row /\ IsFiniteSet(counters')
           /\ allowed' \in {allowed, Append(allowed, permit)}
           /\ allowed' \in Seq(Permit)
           /\ AllCounted(counters', allowed', clock)
  <1>1. CASE failing = Absent
    <2> DEFINE rules == RateLimitRules[permit.op]
               more == recordRateLimits(rows, rules, permit.now)
    <2>1. counters' = more /\ allowed' = Append(allowed, permit)
      BY <1>1 DEF Grant
    <2>2. permit.op \in Ops /\ permit.now \in Nat /\ rules \in SUBSET Rules
      BY RulesAre DEF Permit
    <2>3. /\ more \in SUBSET Row /\ IsFiniteSet(more) /\ rows \subseteq more
          /\ \A r \in rules : \E new \in more :
                 new \notin rows /\ new.rule = r /\ new.at >= permit.now
      <3> HIDE DEF rules
      <3> QED
        BY <2>2, Recorded
    <2>4. \A r \in Limits : r \in rules <=> permit.op \in Policy[r].ops
      BY <2>2, RulesAre
    <2> HIDE DEF more, rules
    <2>5. ASSUME NEW r \in Limits
          PROVE  CountedBy(r, more, Append(allowed, permit), clock)
      <3>1. CountedBy(r, rows, allowed, clock) /\ r \in Rules
        BY RulesAre DEF AllCounted
      <3>2. permit.op \in Policy[r].ops =>
               \E new \in more : new \notin rows /\ new.rule = r /\ new.at >= permit.now
        BY <2>3, <2>4
      <3>3. allowed \in Seq(Permit) /\ clock \in Nat
        BY DEF Basics
      <3> QED
        BY <2>3, <3>1, <3>2, <3>3, CountedOneMore
    <2>6. AllCounted(more, Append(allowed, permit), clock)
      BY <2>5 DEF AllCounted
    <2>7. Append(allowed, permit) \in Seq(Permit)
      BY AppendProperties DEF Basics
    <2> QED
      BY <2>1, <2>3, <2>6, <2>7
  <1>2. CASE failing # Absent
    <2> DEFINE rules == {r \in RateLimitRules[permit.op] : r < failing}
               more == recordRateLimits(rows, rules, permit.now)
    <2>1. counters' = more /\ allowed' = allowed
      BY <1>2 DEF Grant
    <2>2. permit.op \in Ops /\ permit.now \in Nat /\ rules \in SUBSET Rules
      BY RulesAre DEF Permit
    <2>3. more \in SUBSET Row /\ IsFiniteSet(more) /\ rows \subseteq more
      <3> HIDE DEF rules
      <3> QED
        BY <2>2, Recorded
    <2> HIDE DEF more, rules
    <2>4. ASSUME NEW r \in Limits
          PROVE  CountedBy(r, more, allowed, clock)
      <3>1. CountedBy(r, rows, allowed, clock) /\ r \in Rules
        BY RulesAre DEF AllCounted
      <3>2. allowed \in Seq(Permit) /\ clock \in Nat
        BY DEF Basics
      <3>3. \A row \in rows : row.rule = r /\ row.at >= clock - Policy[r].window => row \in more
        BY <2>3
      <3> QED
        BY <2>3, <3>1, <3>2, <3>3, CountedSurvives
    <2>5. AllCounted(more, allowed, clock) /\ allowed \in Seq(Permit)
      BY <2>4 DEF AllCounted, Basics
    <2> QED
      BY <2>1, <2>3, <2>5
  <1> QED
    BY <1>1, <1>2

\* What a call that finds room may add to a window, let through at once or
\* awaiting its approval.
LEMMA RoomKeepsBound ==
    ASSUME Basics, LaneOK(lane, liveSessions), Past(allowed, clock), AskForApproval(lane),
           AllCounted(counters, allowed, clock), AllWithin(allowed, lane),
           NEW s \in Sessions, \A i \in 1..Len(lane) : lane[i].session # s,
           NEW op \in Ops, Exceeded(op) = {},
           NEW r \in Limits, NEW from \in Int
    PROVE  /\ \A permit \in Permit : permit.op = op /\ permit.now = clock =>
                 WithinBound(r, from, Append(allowed, permit), lane)
           /\ \A request \in Request : request.op = op /\ request.now = clock /\ NeedsApproval(op) =>
                 WithinBound(r, from, allowed, Append(lane, request))
  <1> DEFINE to == from + Policy[r].window
             p == Cardinality(PermitsIn(allowed, r, from, to))
             w == Cardinality(PendingIn(lane, r, from, to))
             here == op \in Policy[r].ops /\ clock \in from..to
             limit == Policy[r].count + Slack(r)
  <1>1. /\ p \in Nat /\ w \in Nat /\ Policy[r].count \in Nat /\ Slack(r) \in Nat /\ limit \in Nat
        /\ r \in Rules
    BY PermitsAreFinite, PendingAreSessions, RulesAre, SlackIsNat DEF Basics, LaneOK
  <1>2. p + w <= limit
    BY DEF AllWithin, WithinBound
  <1>3. here => p + w + 1 <= limit
    <2>1. SUFFICES ASSUME here PROVE p + w + 1 <= limit
      OBVIOUS
    <2>2. r \in RateLimitRules[op] /\ r \notin Exceeded(op)
      BY <2>1, RulesAre
    <2>3. IsFiniteSet(InWindow(r, clock)) /\ Cardinality(InWindow(r, clock)) \in Nat
      BY FS_Subset, FS_CardinalityType DEF InWindow, Basics
    <2>4. Cardinality(InWindow(r, clock)) < Policy[r].count
      BY <1>1, <2>2, <2>3 DEF Exceeded
    <2>5. Cardinality({row \in counters : row.rule = r /\ row.at >= clock - Policy[r].window})
             < Policy[r].count
      BY <2>4 DEF InWindow
    <2>6. p + 1 <= Policy[r].count
      <3>1. CountedBy(r, counters, allowed, clock)
        BY DEF AllCounted
      <3>2. \A i \in 1..Len(allowed) : allowed[i].now <= clock
        BY DEF Past
      <3>3. /\ counters \in SUBSET Row /\ IsFiniteSet(counters)
            /\ allowed \in Seq(Permit) /\ clock \in Nat
        BY DEF Basics
      <3> QED
        BY <1>1, <2>1, <2>5, <3>1, <3>2, <3>3, RoomForCall
    <2>7. w <= Slack(r)
      <3>1. lane \in Seq(Request)
        BY DEF LaneOK
      <3>2. \A i \in 1..Len(lane) : lane[i].kind = "gate" => NeedsApproval(lane[i].op)
        BY DEF AskForApproval
      <3> QED
        BY <1>1, <3>1, <3>2, SlackIsEnough
    <2> HIDE DEF p, w
    <2> QED
      BY <1>1, <2>6, <2>7
  <1>4. ASSUME NEW permit \in Permit, permit.op = op, permit.now = clock
        PROVE  WithinBound(r, from, Append(allowed, permit), lane)
    <2>1. Cardinality(PermitsIn(Append(allowed, permit), r, from, to))
             = p + (IF Counts(r, from, to, permit) THEN 1 ELSE 0)
      BY OneMorePermit DEF Basics
    <2>2. Counts(r, from, to, permit) <=> here
      BY <1>4 DEF Counts
    <2> HIDE DEF p, w, here, limit
    <2>3. Cardinality(PermitsIn(Append(allowed, permit), r, from, to)) + w <= limit
      BY <1>1, <1>2, <1>3, <2>1, <2>2
    <2> QED
      BY <2>3 DEF WithinBound, w, limit
  <1>5. ASSUME NEW request \in Request, request.op = op, request.now = clock
        PROVE  WithinBound(r, from, allowed, Append(lane, request))
    <2> DEFINE v == Cardinality(PendingIn(Append(lane, request), r, from, to))
    <2>1. v <= w + (IF request.kind = "gate" /\ Counts(r, from, to, request) THEN 1 ELSE 0)
      BY OneMoreRequest DEF LaneOK
    <2>2. v \in Nat
      <3>1. Append(lane, request) \in Seq(Request)
        BY AppendProperties DEF LaneOK
      <3> QED
        BY <3>1, PendingAreSessions
    <2>3. Counts(r, from, to, request) <=> here
      BY <1>5 DEF Counts
    <2> HIDE DEF p, w, v, here, limit
    <2>4. p + v <= limit
      BY <1>1, <1>2, <1>3, <2>1, <2>2, <2>3
    <2> QED
      BY <2>4 DEF WithinBound, p, v, limit
  <1> QED
    BY <1>4, <1>5

\* With the answer a request leaves the windows it was in; if the answer is yes
\* the call takes its place.
LEMMA AnswerKeepsBound ==
    ASSUME Basics, LaneOK(lane, liveSessions), AllWithin(allowed, lane), lane # <<>>,
           NEW r \in Limits, NEW from \in Int
    PROVE  /\ WithinBound(r, from, allowed, Tail(lane))
           /\ \A permit \in Permit :
                 Head(lane).kind = "gate" /\ permit.op = Head(lane).op /\ permit.now = Head(lane).now
                    => WithinBound(r, from, Append(allowed, permit), Tail(lane))
  <1> DEFINE to == from + Policy[r].window
             p == Cardinality(PermitsIn(allowed, r, from, to))
             w == Cardinality(PendingIn(lane, r, from, to))
             v == Cardinality(PendingIn(Tail(lane), r, from, to))
             limit == Policy[r].count + Slack(r)
             mine == Head(lane).kind = "gate" /\ Counts(r, from, to, Head(lane))
  <1>1. /\ p \in Nat /\ w \in Nat /\ v \in Nat /\ limit \in Nat
    <2>1. Tail(lane) \in Seq(Request) /\ lane \in Seq(Request)
      BY HeadTailProperties DEF LaneOK
    <2>2. r \in Rules /\ Policy[r].count \in Nat /\ Slack(r) \in Nat
      BY RulesAre, SlackIsNat
    <2>3. p \in Nat
      BY PermitsAreFinite DEF Basics
    <2>4. w \in Nat /\ v \in Nat
      BY <2>1, PendingAreSessions
    <2> HIDE DEF p, w, v
    <2> QED
      BY <2>2, <2>3, <2>4
  <1>2. p + w <= limit
    BY DEF AllWithin, WithinBound
  <1>3. v + (IF mine THEN 1 ELSE 0) <= w
    <2>1. \A i, j \in 1..Len(lane) : lane[i].session = lane[j].session => i = j
      BY DEF LaneOK
    <2> QED
      BY <2>1, OneRequestLess DEF LaneOK
  <1>4. WithinBound(r, from, allowed, Tail(lane))
    <2> HIDE DEF p, w, v, mine, limit
    <2>1. p + v <= limit
      BY <1>1, <1>2, <1>3
    <2> QED
      BY <2>1 DEF WithinBound, p, v, limit
  <1>5. ASSUME NEW permit \in Permit, Head(lane).kind = "gate",
               permit.op = Head(lane).op, permit.now = Head(lane).now
        PROVE  WithinBound(r, from, Append(allowed, permit), Tail(lane))
    <2>1. Cardinality(PermitsIn(Append(allowed, permit), r, from, to))
             = p + (IF Counts(r, from, to, permit) THEN 1 ELSE 0)
      BY OneMorePermit DEF Basics
    <2>2. Counts(r, from, to, permit) <=> mine
      BY <1>5 DEF Counts
    <2> HIDE DEF p, w, v, mine, limit
    <2>3. Cardinality(PermitsIn(Append(allowed, permit), r, from, to)) + v <= limit
      BY <1>1, <1>2, <1>3, <2>1, <2>2
    <2> QED
      BY <2>3 DEF WithinBound, v, limit
  <1> QED
    BY <1>4, <1>5

LEMMA ApprovedOneMore ==
    ASSUME NEW permits \in Seq(Permit), NEW permit \in Permit, NEW yeses,
           AllApproved(permits, yeses), ApprovedIn(permit, yeses)
    PROVE  AllApproved(Append(permits, permit), yeses)
  BY AppendProperties, LenProperties DEF AllApproved

LEMMA ApprovedSurvives ==
    ASSUME NEW permits, NEW yeses, NEW more, yeses \subseteq more, AllApproved(permits, yeses)
    PROVE  AllApproved(permits, more)
  <1>1. ASSUME NEW permit, ApprovedIn(permit, yeses) PROVE ApprovedIn(permit, more)
    BY <1>1 DEF ApprovedIn
  <1> QED
    BY <1>1 DEF AllApproved

\* A call that passes without asking the user needs no approval, or has a
\* receipt; one that asks is under a rule that asks for approval.
LEMMA DecideIs ==
    ASSUME Basics, Backed(receipts, said, clock),
           NEW s \in Sessions, NEW op \in Ops, NEW failing, Decide(s, op, failing)
    PROVE  \/ /\ Grant(Pruned(RateLimitRules[op]), NewPermit(s, op, clock), failing)
              /\ lane' = lane
              /\ ApprovedIn(NewPermit(s, op, clock), said)
           \/ /\ counters' = Pruned(RateLimitRules[op]) /\ allowed' = allowed
              /\ lane' = lane
           \/ /\ counters' = Pruned(RateLimitRules[op]) /\ allowed' = allowed
              /\ lane' = Append(lane, NewRequest("gate", s, op))
              /\ NeedsApproval(op)
  <1> DEFINE rule == RuleFor[op]
             permit == NewPermit(s, op, clock)
  <1>1. /\ permit.op = op /\ permit.session = s /\ permit.now = clock /\ permit.at = clock
    BY DEF NewPermit
  <1>2. CASE rule = Absent
    <2>1. ApprovedIn(permit, said)
      BY <1>1, <1>2 DEF ApprovedIn
    <2> QED
      BY <1>2, <2>1 DEF Decide
  <1>3. CASE rule # Absent /\ Policy[rule].action = "allow"
    <2>1. ApprovedIn(permit, said)
      BY <1>1, <1>3 DEF ApprovedIn, NeedsApproval
    <2> QED
      BY <1>3, <2>1 DEF Decide
  <1>4. CASE rule # Absent /\ Policy[rule].action = "block"
    BY <1>4 DEF Decide
  <1>5. CASE /\ rule # Absent /\ Policy[rule].action \notin {"allow", "block"}
             /\ Policy[rule].sufficient /\ hasMatchingApprovalReceipt(s, op)
    <2>1. PICK receipt \in receipts[s] : receipt.op = op /\ clock - receipt.at <= ReceiptWindow
      BY <1>5 DEF hasMatchingApprovalReceipt
    <2>2. op # Absent
      BY PolicyAssumption
    <2>3. PICK y \in said : /\ y.kind = "interact" /\ y.session = s /\ y.op = op
                            /\ y.at = receipt.at /\ receipt.at <= clock
      BY <2>1, <2>2 DEF Backed
    <2>4. ApprovedIn(permit, said)
      BY <1>1, <1>5, <2>1, <2>3 DEF ApprovedIn
    <2> QED
      BY <1>5, <2>4 DEF Decide
  <1>6. CASE /\ rule # Absent /\ Policy[rule].action \notin {"allow", "block"}
             /\ ~ (Policy[rule].sufficient /\ hasMatchingApprovalReceipt(s, op))
    <2>1. rule \in Rules /\ rule \notin Limits
      BY <1>6, RuleForIs DEF OtherRules
    <2>2. Policy[rule].action \in {"allow", "block", "approve", "rate_limit"}
      BY <2>1, RulesAre
    <2>3. NeedsApproval(op)
      BY <1>6, <2>1, <2>2 DEF NeedsApproval, Limits
    <2> QED
      BY <1>6, <2>3 DEF Decide
  <1> QED
    BY <1>2, <1>3, <1>4, <1>5, <1>6

---------------------------------------------------------------------------
(***************************************************************************)
(* The steps.                                                              *)
(***************************************************************************)

\* A call that arrives, whatever becomes of it, leaves the sessions in order.
LEMMA CallerIs ==
    ASSUME Basics, LaneOK(lane, liveSessions), NEW s \in Sessions, MakesCall(s)
    PROVE  /\ liveSessions' \in SUBSET started' /\ started' \in SUBSET Sessions
           /\ liveSessions \subseteq liveSessions' /\ s \in liveSessions'
           /\ calls' \in Nat
           /\ \A i \in 1..Len(lane) : lane[i].session # s
           /\ LaneOK(lane, liveSessions')
  <1>1. /\ liveSessions' \in SUBSET started' /\ started' \in SUBSET Sessions
        /\ liveSessions \subseteq liveSessions' /\ s \in liveSessions' /\ calls' \in Nat
    BY DEF MakesCall, Basics
  <1>2. \A i \in 1..Len(lane) : lane[i].session # s
    BY DEF MakesCall, Waits
  <1>3. LaneOK(lane, liveSessions')
    BY <1>1 DEF LaneOK
  <1> QED
    BY <1>1, <1>2, <1>3

LEMMA RequestIs ==
    ASSUME Basics, NEW s \in Sessions, NEW op \in Ops \cup {Absent},
           NEW kind \in {"gate", "interact"}
    PROVE  /\ NewRequest(kind, s, op) \in Request
           /\ NewRequest(kind, s, op).kind = kind /\ NewRequest(kind, s, op).session = s
           /\ NewRequest(kind, s, op).op = op /\ NewRequest(kind, s, op).now = clock
  BY DEF NewRequest, Request, Basics

LEMMA PermitIs ==
    ASSUME Basics, NEW s \in Sessions, NEW op \in Ops, NEW now \in Nat
    PROVE  /\ NewPermit(s, op, now) \in Permit
           /\ NewPermit(s, op, now).session = s /\ NewPermit(s, op, now).op = op
           /\ NewPermit(s, op, now).now = now /\ NewPermit(s, op, now).at = clock
  BY DEF NewPermit, Permit, Basics

\* A session that waits with a request that no window counts leaves the bounds
\* as they are.
LEMMA InteractKeepsBound ==
    ASSUME Basics, LaneOK(lane, liveSessions), AllWithin(allowed, lane),
           NEW request \in Request, request.kind = "interact"
    PROVE  AllWithin(allowed, Append(lane, request))
  <1>1. ASSUME NEW r \in Limits, NEW from \in Int
        PROVE  WithinBound(r, from, allowed, Append(lane, request))
    <2> DEFINE to == from + Policy[r].window
               p == Cardinality(PermitsIn(allowed, r, from, to))
               w == Cardinality(PendingIn(lane, r, from, to))
               v == Cardinality(PendingIn(Append(lane, request), r, from, to))
               limit == Policy[r].count + Slack(r)
    <2>1. p \in Nat
      BY PermitsAreFinite DEF Basics
    <2>2. lane \in Seq(Request) /\ Append(lane, request) \in Seq(Request)
      BY AppendProperties DEF LaneOK
    <2>3. w \in Nat /\ v \in Nat
      BY <2>2, PendingAreSessions
    <2>4. limit \in Nat
      BY BoundIsNat
    <2>5. v <= w + (IF request.kind = "gate" /\ Counts(r, from, to, request) THEN 1 ELSE 0)
      BY <2>2, OneMoreRequest
    <2>6. p + w <= limit
      BY DEF AllWithin, WithinBound
    <2> HIDE DEF p, w, v, limit
    <2>7. p + v <= limit
      BY <2>1, <2>3, <2>4, <2>5, <2>6
    <2> QED
      BY <2>7 DEF WithinBound, p, v, limit
  <1> QED
    BY <1>1 DEF AllWithin

LEMMA StepPassTime == GateInv /\ PassTime => GateInv'
  <1> SUFFICES ASSUME GateInv, PassTime PROVE GateInv'
    OBVIOUS
  <1>1. /\ Basics /\ LaneOK(lane, liveSessions)
        /\ Past(allowed, clock) /\ Past(lane, clock)
        /\ AskForApproval(lane) /\ Backed(receipts, said, clock)
        /\ AllApproved(allowed, said)
        /\ AllCounted(counters, allowed, clock)
        /\ AllWithin(allowed, lane)
    BY PartsOfInv
  <1>2. /\ clock' = clock + 1
        /\ liveSessions' = liveSessions /\ started' = started /\ counters' = counters /\ receipts' = receipts
        /\ lane' = lane /\ calls' = calls /\ said' = said /\ allowed' = allowed
    BY DEF PassTime
  <1>3. Basics'
    BY <1>1, <1>2 DEF Basics
  <1>4. LaneOK(lane', liveSessions') /\ AskForApproval(lane') /\ AllApproved(allowed', said')
        /\ AllWithin(allowed', lane')
    BY <1>1, <1>2
  <1>5. Past(allowed', clock')
    <2>1. \A x \in Permit : x.now \in Nat
      BY DEF Permit
    <2> QED
      BY <1>1, <1>2, <2>1, NowIsLater DEF Basics
  <1>6. Past(lane', clock')
    <2>1. \A x \in Request : x.now \in Nat
      BY DEF Request
    <2> QED
      BY <1>1, <1>2, <2>1, NowIsLater DEF Basics, LaneOK
  <1>7. Backed(receipts', said', clock')
    <2>1. SUFFICES ASSUME NEW s \in Sessions, NEW receipt \in receipts[s], receipt.op # Absent
                   PROVE  /\ receipt.at <= clock + 1
                          /\ \E y \in said : /\ y.kind = "interact" /\ y.session = s
                                             /\ y.op = receipt.op /\ y.at = receipt.at
      BY <1>2 DEF Backed
    <2>2. receipt \in Receipt
      BY <1>1 DEF Basics
    <2>3. receipt.at \in Nat /\ clock \in Nat
      BY <1>1, <2>2 DEF Receipt, Basics
    <2> QED
      BY <1>1, <2>1, <2>3 DEF Backed
  <1>8. AllCounted(counters', allowed', clock')
    <2>1. ASSUME NEW r \in Limits PROVE CountedBy(r, counters, allowed, clock + 1)
      <3>1. CountedBy(r, counters, allowed, clock) /\ r \in Rules
        BY <1>1, RulesAre DEF AllCounted
      <3>2. \A i \in 1..Len(allowed) : allowed[i].now <= clock
        BY <1>1 DEF Past
      <3>3. counters \in SUBSET Row /\ allowed \in Seq(Permit) /\ clock \in Nat
        BY <1>1 DEF Basics
      <3> QED
        BY <3>1, <3>2, <3>3, CountedLater
    <2> QED
      BY <1>2, <2>1 DEF AllCounted
  <1> QED
    BY <1>3, <1>4, <1>5, <1>6, <1>7, <1>8, InvFromParts

\* A session that ends is not waiting, and forgets its receipts.
LEMMA StepEndSession == \A s \in Sessions : GateInv /\ EndSession(s) => GateInv'
  <1> SUFFICES ASSUME NEW s \in Sessions, GateInv, EndSession(s) PROVE GateInv'
    OBVIOUS
  <1>1. /\ Basics /\ LaneOK(lane, liveSessions)
        /\ Past(allowed, clock) /\ Past(lane, clock)
        /\ AskForApproval(lane) /\ Backed(receipts, said, clock)
        /\ AllApproved(allowed, said)
        /\ AllCounted(counters, allowed, clock)
        /\ AllWithin(allowed, lane)
    BY PartsOfInv
  <1>2. /\ liveSessions' = liveSessions \ {s} /\ receipts' = [receipts EXCEPT ![s] = {}]
        /\ clock' = clock /\ started' = started /\ counters' = counters
        /\ lane' = lane /\ calls' = calls /\ said' = said /\ allowed' = allowed
        /\ \A i \in 1..Len(lane) : lane[i].session # s
    BY DEF EndSession, Waits
  <1>3. Basics'
    BY <1>1, <1>2 DEF Basics
  <1>4. LaneOK(lane', liveSessions')
    BY <1>1, <1>2 DEF LaneOK
  <1>5. Backed(receipts', said', clock')
    BY <1>1, <1>2 DEF Backed, Basics
  <1> QED
    BY <1>1, <1>2, <1>3, <1>4, <1>5, InvFromParts

\* A restart loses the sessions and the prompts; the calls that awaited an
\* answer leave every window.
LEMMA StepRestart == GateInv /\ Restart => GateInv'
  <1> SUFFICES ASSUME GateInv, Restart PROVE GateInv'
    OBVIOUS
  <1>1. /\ Basics /\ LaneOK(lane, liveSessions)
        /\ Past(allowed, clock) /\ Past(lane, clock)
        /\ AskForApproval(lane) /\ Backed(receipts, said, clock)
        /\ AllApproved(allowed, said)
        /\ AllCounted(counters, allowed, clock)
        /\ AllWithin(allowed, lane)
    BY PartsOfInv
  <1>2. /\ liveSessions' = {} /\ receipts' = [s \in Sessions |-> {}] /\ lane' = <<>>
        /\ clock' = clock /\ started' = started /\ counters' = counters
        /\ calls' = calls /\ said' = said /\ allowed' = allowed
    BY DEF Restart
  <1>3. Basics'
    BY <1>1, <1>2 DEF Basics
  <1>4. LaneOK(<<>>, {}) /\ Past(<<>>, clock) /\ AskForApproval(<<>>)
    BY DEF LaneOK, Past, AskForApproval
  <1>5. Backed(receipts', said', clock')
    BY <1>2 DEF Backed
  <1>6. ASSUME NEW r \in Limits, NEW from \in Int
        PROVE  WithinBound(r, from, allowed, <<>>)
    <2> DEFINE to == from + Policy[r].window
               p == Cardinality(PermitsIn(allowed, r, from, to))
               w == Cardinality(PendingIn(lane, r, from, to))
               limit == Policy[r].count + Slack(r)
    <2>1. p + w <= limit
      BY <1>1 DEF AllWithin, WithinBound
    <2>2. PendingIn(<<>>, r, from, to) = {}
      BY DEF PendingIn
    <2>3. p \in Nat
      BY <1>1, PermitsAreFinite DEF Basics
    <2>4. w \in Nat
      BY <1>1, PendingAreSessions DEF LaneOK
    <2>5. limit \in Nat
      BY BoundIsNat
    <2>6. Cardinality(PendingIn(<<>>, r, from, to)) = 0
      BY <2>2, FS_EmptySet
    <2> HIDE DEF p, w, limit
    <2>7. p + Cardinality(PendingIn(<<>>, r, from, to)) <= limit
      BY <2>1, <2>3, <2>4, <2>5, <2>6
    <2> QED
      BY <2>7 DEF WithinBound, p, limit
  <1>7. AllWithin(allowed, <<>>)
    BY <1>6 DEF AllWithin
  <1> QED
    BY <1>1, <1>2, <1>3, <1>4, <1>5, <1>7, InvFromParts

\* check() deletes old rows, even if it fails half way.
LEMMA StepCheckFails ==
    \A s \in Sessions, op \in Ops : GateInv /\ CheckFails(s, op) => GateInv'
  <1> SUFFICES ASSUME NEW s \in Sessions, NEW op \in Ops, GateInv, CheckFails(s, op)
               PROVE  GateInv'
    OBVIOUS
  <1>1. /\ Basics /\ LaneOK(lane, liveSessions)
        /\ Past(allowed, clock) /\ Past(lane, clock)
        /\ AskForApproval(lane) /\ Backed(receipts, said, clock)
        /\ AllApproved(allowed, said)
        /\ AllCounted(counters, allowed, clock)
        /\ AllWithin(allowed, lane)
    BY PartsOfInv
  <1>2. /\ MakesCall(s) /\ \E rules : counters' = Pruned(rules)
        /\ clock' = clock /\ receipts' = receipts /\ lane' = lane
        /\ said' = said /\ allowed' = allowed
    BY DEF CheckFails
  <1>3. counters' \in SUBSET Row /\ IsFiniteSet(counters') /\ AllCounted(counters', allowed, clock)
    BY <1>1, <1>2, PrunedKeepsCounted
  <1>4. /\ liveSessions' \in SUBSET started' /\ started' \in SUBSET Sessions /\ calls' \in Nat
        /\ LaneOK(lane, liveSessions')
    BY <1>1, <1>2, CallerIs
  <1>5. Basics'
    BY <1>1, <1>2, <1>3, <1>4 DEF Basics
  <1> QED
    BY <1>1, <1>2, <1>3, <1>4, <1>5, InvFromParts

LEMMA StepInteract ==
    \A s \in Sessions, op \in ToolOps \cup {Absent} : GateInv /\ Interact(s, op) => GateInv'
  <1> SUFFICES ASSUME NEW s \in Sessions, NEW op \in ToolOps \cup {Absent}, GateInv, Interact(s, op)
               PROVE  GateInv'
    OBVIOUS
  <1> DEFINE request == NewRequest("interact", s, op)
  <1>1. /\ Basics /\ LaneOK(lane, liveSessions)
        /\ Past(allowed, clock) /\ Past(lane, clock)
        /\ AskForApproval(lane) /\ Backed(receipts, said, clock)
        /\ AllApproved(allowed, said)
        /\ AllCounted(counters, allowed, clock)
        /\ AllWithin(allowed, lane)
    BY PartsOfInv
  <1>2. /\ MakesCall(s) /\ lane' = Append(lane, request)
        /\ clock' = clock /\ receipts' = receipts /\ counters' = counters
        /\ said' = said /\ allowed' = allowed
    BY DEF Interact
  <1>3. /\ liveSessions' \in SUBSET started' /\ started' \in SUBSET Sessions /\ calls' \in Nat
        /\ liveSessions \subseteq liveSessions' /\ s \in liveSessions'
        /\ \A i \in 1..Len(lane) : lane[i].session # s
    BY <1>1, <1>2, CallerIs
  <1>4. /\ request \in Request /\ request.kind = "interact" /\ request.session = s
        /\ request.now = clock
    <2>1. op \in Ops \cup {Absent}
      BY PolicyAssumption
    <2> QED
      BY <1>1, <2>1, RequestIs
  <1> HIDE DEF request
  <1>5. Basics'
    BY <1>1, <1>2, <1>3 DEF Basics
  <1>6. LaneOK(lane', liveSessions')
    BY <1>1, <1>2, <1>3, <1>4, LaneOneMore
  <1>7. Past(lane', clock')
    <2>1. clock <= clock
      BY <1>1 DEF Basics
    <2>2. lane \in Seq(Request)
      BY <1>1 DEF LaneOK
    <2> QED
      BY <1>1, <1>2, <1>4, <2>1, <2>2, PastOneMore
  <1>8. AskForApproval(lane')
    BY <1>1, <1>2, <1>4, AppendProperties, LenProperties DEF AskForApproval, LaneOK
  <1>9. AllWithin(allowed', lane')
    BY <1>1, <1>2, <1>4, InteractKeepsBound
  <1> QED
    BY <1>1, <1>2, <1>5, <1>6, <1>7, <1>8, <1>9, InvFromParts

LEMMA StepCall ==
    \A s \in Sessions, op \in Ops, failing \in Rules \cup {Absent} :
        GateInv /\ Call(s, op, failing) => GateInv'
  <1> SUFFICES ASSUME NEW s \in Sessions, NEW op \in Ops, NEW failing \in Rules \cup {Absent},
                      GateInv, Call(s, op, failing)
               PROVE  GateInv'
    OBVIOUS
  <1> DEFINE permit == NewPermit(s, op, clock)
             request == NewRequest("gate", s, op)
             rows == Pruned(RateLimitRules[op])
  <1>1. /\ Basics /\ LaneOK(lane, liveSessions)
        /\ Past(allowed, clock) /\ Past(lane, clock)
        /\ AskForApproval(lane) /\ Backed(receipts, said, clock)
        /\ AllApproved(allowed, said)
        /\ AllCounted(counters, allowed, clock)
        /\ AllWithin(allowed, lane)
    BY PartsOfInv
  <1>2. MakesCall(s) /\ clock' = clock /\ receipts' = receipts /\ said' = said
    BY DEF Call
  <1>3. /\ liveSessions' \in SUBSET started' /\ started' \in SUBSET Sessions /\ calls' \in Nat
        /\ liveSessions \subseteq liveSessions' /\ s \in liveSessions' /\ LaneOK(lane, liveSessions')
        /\ \A i \in 1..Len(lane) : lane[i].session # s
    BY <1>1, <1>2, CallerIs
  <1>4. clock \in Nat /\ clock <= clock
    BY <1>1 DEF Basics
  <1>5. /\ rows \in SUBSET Row /\ IsFiniteSet(rows) /\ AllCounted(rows, allowed, clock)
    BY <1>1, PrunedKeepsCounted
  <1>6. /\ permit \in Permit /\ permit.op = op /\ permit.now = clock
    BY <1>1, <1>4, PermitIs
  <1>7. /\ request \in Request /\ request.kind = "gate" /\ request.session = s
        /\ request.op = op /\ request.now = clock
    BY <1>1, RequestIs
  <1>8. CASE Exceeded(op) # {}
    <2>1. /\ \E rules : counters' = Pruned(rules)
          /\ allowed' = allowed /\ lane' = lane
      BY <1>8 DEF Call
    <2>2. /\ counters' \in SUBSET Row /\ IsFiniteSet(counters')
          /\ AllCounted(counters', allowed, clock)
      BY <1>1, <2>1, PrunedKeepsCounted
    <2>3. Basics'
      BY <1>1, <1>2, <1>3, <2>1, <2>2 DEF Basics
    <2> QED
      BY <1>1, <1>2, <1>3, <2>1, <2>2, <2>3, InvFromParts
  <1>9. CASE Exceeded(op) = {}
    <2>1. Decide(s, op, failing)
      BY <1>9 DEF Call
    <2>2. CASE Grant(rows, permit, failing) /\ lane' = lane /\ ApprovedIn(permit, said)
      <3>1. /\ counters' \in SUBSET Row /\ IsFiniteSet(counters')
            /\ allowed' \in {allowed, Append(allowed, permit)}
            /\ allowed' \in Seq(Permit)
            /\ AllCounted(counters', allowed', clock)
        <4> HIDE DEF rows, permit
        <4> QED
          BY <1>1, <1>5, <1>6, <2>2, GrantKeepsCounted
      <3>2. Basics'
        BY <1>1, <1>2, <1>3, <3>1 DEF Basics
      <3>3. Past(allowed', clock')
        <4>1. Past(Append(allowed, permit), clock)
          BY <1>1, <1>4, <1>6, PastOneMore DEF Basics
        <4> QED
          BY <1>1, <1>2, <3>1, <4>1
      <3>4. AllApproved(allowed', said')
        <4>1. AllApproved(Append(allowed, permit), said)
          BY <1>1, <1>6, <2>2, ApprovedOneMore DEF Basics
        <4> QED
          BY <1>1, <1>2, <3>1, <4>1
      <3>5. AllWithin(allowed', lane')
        <4>1. ASSUME NEW r \in Limits, NEW from \in Int
              PROVE  WithinBound(r, from, Append(allowed, permit), lane)
          BY <1>1, <1>3, <1>6, <1>9, RoomKeepsBound
        <4>2. AllWithin(Append(allowed, permit), lane)
          BY <4>1 DEF AllWithin
        <4> QED
          BY <1>1, <2>2, <3>1, <4>2
      <3> QED
        BY <1>1, <1>2, <1>3, <2>2, <3>1, <3>2, <3>3, <3>4, <3>5, InvFromParts
    <2>3. CASE counters' = rows /\ allowed' = allowed /\ lane' = lane
      <3>1. Basics'
        BY <1>1, <1>2, <1>3, <1>5, <2>3 DEF Basics
      <3> QED
        BY <1>1, <1>2, <1>3, <1>5, <2>3, <3>1, InvFromParts
    <2>4. CASE /\ counters' = rows /\ allowed' = allowed
               /\ lane' = Append(lane, request) /\ NeedsApproval(op)
      <3>1. Basics'
        BY <1>1, <1>2, <1>3, <1>5, <2>4 DEF Basics
      <3>2. LaneOK(lane', liveSessions')
        <4>1. request.kind = "gate" => request.op # Absent
          BY <1>7, PolicyAssumption
        <4> HIDE DEF request
        <4> QED
          BY <1>1, <1>3, <1>7, <2>4, <4>1, LaneOneMore
      <3>3. Past(lane', clock')
        <4>1. lane \in Seq(Request)
          BY <1>1 DEF LaneOK
        <4> QED
          BY <1>1, <1>2, <1>4, <1>7, <2>4, <4>1, PastOneMore
      <3>4. AskForApproval(lane')
        <4> HIDE DEF request
        <4> QED
          BY <1>1, <1>7, <2>4, AppendProperties, LenProperties DEF AskForApproval, LaneOK
      <3>5. AllWithin(allowed', lane')
        <4>1. ASSUME NEW r \in Limits, NEW from \in Int
              PROVE  WithinBound(r, from, allowed, Append(lane, request))
          BY <1>1, <1>3, <1>7, <1>9, <2>4, RoomKeepsBound
        <4> QED
          BY <2>4, <4>1 DEF AllWithin
      <3> QED
        BY <1>1, <1>2, <1>5, <2>4, <3>1, <3>2, <3>3, <3>4, <3>5, InvFromParts
    <2> QED
      BY <1>1, <2>1, <2>2, <2>3, <2>4, DecideIs
  <1> QED
    BY <1>8, <1>9

\* The answer to the head of the lane: a yes lets its call through, at the time
\* it arrived, or is remembered as a receipt.
LEMMA StepAnswer ==
    \A reply \in {"yes", "no", "unclear"}, failing \in Rules \cup {Absent} :
        GateInv /\ Answer(reply, failing) => GateInv'
  <1> SUFFICES ASSUME NEW reply \in {"yes", "no", "unclear"}, NEW failing \in Rules \cup {Absent},
                      GateInv, Answer(reply, failing)
               PROVE  GateInv'
    OBVIOUS
  <1> DEFINE request == Head(lane)
             permit == NewPermit(request.session, request.op, request.now)
             yes == [kind |-> request.kind, session |-> request.session,
                     op |-> request.op, at |-> clock]
             receipt == [at |-> clock, op |-> request.op]
  <1>1. /\ Basics /\ LaneOK(lane, liveSessions)
        /\ Past(allowed, clock) /\ Past(lane, clock)
        /\ AskForApproval(lane) /\ Backed(receipts, said, clock)
        /\ AllApproved(allowed, said)
        /\ AllCounted(counters, allowed, clock)
        /\ AllWithin(allowed, lane)
    BY PartsOfInv
  <1>2. /\ lane # <<>> /\ lane' = Tail(lane)
        /\ clock' = clock /\ liveSessions' = liveSessions /\ started' = started /\ calls' = calls
    BY DEF Answer
  <1>3. /\ LaneOK(Tail(lane), liveSessions)
        /\ Past(Tail(lane), clock) /\ AskForApproval(Tail(lane))
        /\ request \in Request /\ request.now <= clock /\ request.session \in liveSessions
        /\ request.kind = "gate" => request.op # Absent /\ NeedsApproval(request.op)
    BY <1>1, <1>2, LaneOneLess
  <1>4. /\ request.session \in Sessions /\ request.op \in Ops \cup {Absent}
        /\ request.now \in Nat /\ request.kind \in {"gate", "interact"}
    BY <1>3 DEF Request
  <1>5. clock \in Nat /\ clock <= clock
    BY <1>1 DEF Basics
  <1>6. AllWithin(allowed, Tail(lane))
    <2>1. ASSUME NEW r \in Limits, NEW from \in Int
          PROVE  WithinBound(r, from, allowed, Tail(lane))
      BY <1>1, <1>2, AnswerKeepsBound
    <2> QED
      BY <2>1 DEF AllWithin
  <1>7. said \subseteq said' /\ said' \in SUBSET Approval /\ (reply = "yes" => yes \in said')
    <2>1. yes \in Approval
      BY <1>4, <1>5 DEF Approval
    <2>2. said' = IF reply # "yes" THEN said ELSE said \cup {yes}
      BY DEF Answer
    <2> QED
      BY <1>1, <2>1, <2>2 DEF Basics
  <1>8. AllApproved(allowed, said')
    BY <1>1, <1>7, ApprovedSurvives
  <1>9. Backed(receipts, said', clock)
    BY <1>1, <1>7 DEF Backed
  <1>10. CASE reply # "yes"
    <2>1. counters' = counters /\ allowed' = allowed /\ receipts' = receipts
      BY <1>10 DEF Answer
    <2>2. Basics'
      BY <1>1, <1>2, <1>7, <2>1 DEF Basics
    <2> QED
      BY <1>1, <1>2, <1>3, <1>6, <1>8, <1>9, <2>1, <2>2, InvFromParts
  <1>11. CASE reply = "yes" /\ request.kind = "gate"
    <2>1. Grant(counters, permit, failing) /\ receipts' = receipts
      BY <1>11 DEF Answer
    <2>2. request.op \in Ops
      BY <1>3, <1>4, <1>11
    <2>3. /\ permit \in Permit /\ permit.op = request.op /\ permit.now = request.now
          /\ permit.session = request.session /\ permit.at = clock
      BY <1>1, <1>4, <2>2, PermitIs
    <2> HIDE DEF permit
    <2>4. /\ counters' \in SUBSET Row /\ IsFiniteSet(counters')
          /\ allowed' \in {allowed, Append(allowed, permit)}
          /\ allowed' \in Seq(Permit)
          /\ AllCounted(counters', allowed', clock)
      <3>1. counters \in SUBSET Row /\ IsFiniteSet(counters)
        BY <1>1 DEF Basics
      <3> QED
        BY <1>1, <2>1, <2>3, <3>1, GrantKeepsCounted
    <2>5. ApprovedIn(permit, said')
      <3>1. Policy[RuleFor[permit.op]].action = "approve"
        BY <1>3, <1>11, <2>3 DEF NeedsApproval
      <3>2. /\ yes \in said' /\ yes.kind = "gate" /\ yes.session = permit.session
            /\ yes.op = permit.op /\ yes.at <= permit.at /\ permit.now <= yes.at
        BY <1>3, <1>5, <1>7, <1>11, <2>3
      <3> HIDE DEF yes
      <3> QED
        BY <3>1, <3>2 DEF ApprovedIn
    <2>6. Basics'
      BY <1>1, <1>2, <1>7, <2>1, <2>4 DEF Basics
    <2>7. Past(allowed', clock')
      <3>1. Past(Append(allowed, permit), clock)
        BY <1>1, <1>3, <2>3, PastOneMore DEF Basics
      <3> QED
        BY <1>1, <1>2, <2>4, <3>1
    <2>8. AllApproved(allowed', said')
      <3>1. AllApproved(Append(allowed, permit), said')
        BY <1>1, <1>8, <2>3, <2>5, ApprovedOneMore DEF Basics
      <3> QED
        BY <1>8, <2>4, <3>1
    <2>9. AllWithin(allowed', lane')
      <3>1. ASSUME NEW r \in Limits, NEW from \in Int
            PROVE  WithinBound(r, from, Append(allowed, permit), Tail(lane))
        BY <1>1, <1>2, <1>11, <2>3, AnswerKeepsBound
      <3>2. AllWithin(Append(allowed, permit), Tail(lane))
        BY <3>1 DEF AllWithin
      <3> QED
        BY <1>2, <1>6, <2>4, <3>2
    <2> QED
      BY <1>2, <1>3, <1>9, <2>1, <2>4, <2>6, <2>7, <2>8, <2>9, InvFromParts
  <1>12. CASE reply = "yes" /\ request.kind # "gate"
    <2>1. /\ receipts' = [receipts EXCEPT ![request.session] = @ \cup {receipt}]
          /\ counters' = counters /\ allowed' = allowed
      BY <1>12 DEF Answer
    <2>2. receipt \in Receipt
      BY <1>4, <1>5 DEF Receipt
    <2>3. receipts' \in [Sessions -> SUBSET Receipt]
      BY <1>1, <1>4, <2>1, <2>2 DEF Basics
    <2>4. Basics'
      BY <1>1, <1>2, <1>7, <2>1, <2>3 DEF Basics
    <2>5. Backed(receipts', said', clock')
      <3>1. SUFFICES ASSUME NEW s \in Sessions, NEW old \in receipts'[s], old.op # Absent
                     PROVE  /\ old.at <= clock
                            /\ \E y \in said' : /\ y.kind = "interact" /\ y.session = s
                                                /\ y.op = old.op /\ y.at = old.at
        BY <1>2 DEF Backed
      <3>2. CASE old \in receipts[s]
        BY <1>9, <3>1, <3>2 DEF Backed
      <3>3. CASE old \notin receipts[s]
        <4>1. s = request.session /\ old = receipt
          BY <1>1, <1>4, <2>1, <3>1, <3>3 DEF Basics
        <4>2. /\ yes \in said' /\ yes.kind = "interact" /\ yes.session = s
              /\ yes.op = old.op /\ yes.at = old.at
          BY <1>4, <1>7, <1>12, <4>1
        <4> QED
          BY <1>5, <4>1, <4>2
      <3> QED
        BY <3>2, <3>3
    <2> QED
      BY <1>1, <1>2, <1>3, <1>6, <1>8, <2>1, <2>4, <2>5, InvFromParts
  <1> QED
    BY <1>10, <1>11, <1>12

LEMMA StartGate == GateInit => GateInv
  <1> SUFFICES ASSUME GateInit PROVE GateInv
    OBVIOUS
  <1>1. /\ clock = 0 /\ liveSessions = {} /\ started = {} /\ counters = {}
        /\ receipts = [s \in Sessions |-> {}] /\ lane = <<>> /\ calls = 0
        /\ said = {} /\ allowed = <<>>
    BY DEF GateInit
  <1>2. Basics
    BY <1>1, FS_EmptySet DEF Basics
  <1>3. /\ LaneOK(lane, liveSessions) /\ Past(allowed, clock) /\ Past(lane, clock)
        /\ AskForApproval(lane) /\ Backed(receipts, said, clock)
        /\ AllApproved(allowed, said)
    BY <1>1 DEF LaneOK, Past, AskForApproval, Backed, AllApproved
  <1>4. ASSUME NEW r \in Limits
        PROVE  CountedBy(r, counters, allowed, clock)
    <2> DEFINE P == PermitsIn(allowed, r, clock - Policy[r].window, clock)
               f == [i \in P |-> 0]
    <2>1. P = {}
      BY <1>1 DEF PermitsIn
    <2>2. f \in [P -> {row \in counters : row.rule = r}]
      BY <2>1
    <2> QED
      BY <2>1, <2>2 DEF CountedBy
  <1>5. ASSUME NEW r \in Limits, NEW from \in Int
        PROVE  WithinBound(r, from, allowed, lane)
    <2>1. /\ PermitsIn(allowed, r, from, from + Policy[r].window) = {}
          /\ PendingIn(lane, r, from, from + Policy[r].window) = {}
      BY <1>1 DEF PermitsIn, PendingIn
    <2>2. Cardinality({}) = 0
      BY FS_EmptySet
    <2>3. Policy[r].count + Slack(r) \in Nat
      BY BoundIsNat
    <2> QED
      BY <2>1, <2>2, <2>3 DEF WithinBound
  <1>6. AllCounted(counters, allowed, clock) /\ AllWithin(allowed, lane)
    BY <1>4, <1>5 DEF AllCounted, AllWithin
  <1> QED
    BY <1>2, <1>3, <1>6, PartsOfInv

LEMMA EveryGateStep == GateInv /\ [GateNext]_gateVars => GateInv'
  <1> SUFFICES ASSUME GateInv, [GateNext]_gateVars PROVE GateInv'
    OBVIOUS
  <1>1. CASE GateNext
    BY <1>1, StepPassTime, StepEndSession, StepRestart, StepCall, StepCheckFails, StepInteract,
       StepAnswer DEF GateNext
  <1>2. CASE UNCHANGED gateVars
    <2>1. /\ Basics /\ LaneOK(lane, liveSessions)
          /\ Past(allowed, clock) /\ Past(lane, clock)
          /\ AskForApproval(lane) /\ Backed(receipts, said, clock)
          /\ AllApproved(allowed, said)
          /\ AllCounted(counters, allowed, clock)
          /\ AllWithin(allowed, lane)
      BY PartsOfInv
    <2>2. /\ liveSessions' = liveSessions /\ started' = started /\ counters' = counters /\ receipts' = receipts
          /\ lane' = lane /\ calls' = calls /\ said' = said /\ allowed' = allowed
          /\ clock' = clock
      BY <1>2 DEF gateVars
    <2>3. Basics'
      BY <2>1, <2>2 DEF Basics
    <2> QED
      BY <2>1, <2>2, <2>3, InvFromParts
  <1> QED
    BY <1>1, <1>2

LEMMA GateIsKept == GateSpec => []GateInv
  BY StartGate, EveryGateStep, PTL DEF GateSpec

\* Whatever the policy, the sessions and the order of calls, answers and
\* restarts, no rate limit is passed in any window by more than the calls of
\* other sessions that awaited their approval meanwhile.
THEOREM LimitsHoldUpToApprovals == GateSpec => []LimitUpToPendingApprovals
  <1>1. ASSUME GateInv, NEW r \in Limits, NEW from \in 0..clock
        PROVE  Cardinality(Through(r, from, from + Policy[r].window))
                  <= Policy[r].count + (IF MayPend(r) THEN Cardinality(Sessions) - 1 ELSE 0)
    <2> DEFINE to == from + Policy[r].window
               p == Cardinality(PermitsIn(allowed, r, from, to))
               w == Cardinality(PendingIn(lane, r, from, to))
               limit == Policy[r].count + Slack(r)
    <2>1. Basics /\ LaneOK(lane, liveSessions) /\ AllWithin(allowed, lane)
      BY <1>1, PartsOfInv
    <2>2. p + w <= limit
      <3>1. from \in Int
        BY <2>1 DEF Basics
      <3> QED
        BY <2>1, <3>1 DEF AllWithin, WithinBound
    <2>3. p \in Nat
      BY <2>1, PermitsAreFinite DEF Basics
    <2>4. w \in Nat
      BY <2>1, PendingAreSessions DEF LaneOK
    <2>5. limit \in Nat
      BY BoundIsNat
    <2>6. Cardinality(Through(r, from, to)) = p
      BY DEF Through, PermitsIn
    <2> HIDE DEF p, w, limit
    <2>7. Cardinality(Through(r, from, to)) <= limit
      BY <2>2, <2>3, <2>4, <2>5, <2>6
    <2> QED
      BY <2>7 DEF limit, Slack
  <1>2. GateInv => LimitUpToPendingApprovals
    BY <1>1 DEF LimitUpToPendingApprovals
  <1> QED
    BY <1>2, GateIsKept, PTL

\* Every call let through is counted by each of its rate limits as long as the
\* window lasts: rows that come in the same millisecond, a write that fails
\* half way, and a restart of the daemon lose none.
THEOREM LetThroughStaysCounted == GateSpec => []AllowedIsCounted
  <1>1. ASSUME GateInv, NEW r \in Limits
        PROVE  Cardinality(Through(r, clock - Policy[r].window, clock))
                  <= Cardinality(InWindow(r, clock))
    <2>1. Basics /\ AllCounted(counters, allowed, clock)
      BY <1>1, PartsOfInv
    <2>2. CountedBy(r, counters, allowed, clock) /\ r \in Rules
      BY <2>1, RulesAre DEF AllCounted
    <2>3. Cardinality(PermitsIn(allowed, r, clock - Policy[r].window, clock))
             <= Cardinality({row \in counters : row.rule = r /\ row.at >= clock - Policy[r].window})
      BY <2>1, <2>2, CountedAreFewer DEF Basics
    <2> QED
      BY <2>3 DEF Through, PermitsIn, InWindow
  <1>2. GateInv => AllowedIsCounted
    BY <1>1 DEF AllowedIsCounted
  <1> QED
    BY <1>2, GateIsKept, PTL

\* No call passes a rule that asks for approval without the user's yes to its
\* own prompt or, where the rule takes it, to an earlier request of the same
\* session that is still fresh; and none passes a rule that blocks.
THEOREM OnlyWhatTheUserApproved == GateSpec => []ApprovedByUser
  <1>1. GateInv => ApprovedByUser
    BY DEF GateInv
  <1> QED
    BY <1>1, GateIsKept, PTL

\* The gate's state keeps its types: a waiting session is live and waits once.
THEOREM GateTypeCorrect == GateSpec => []GateTypeOK
  <1>1. GateInv => GateTypeOK
    BY DEF GateInv
  <1> QED
    BY <1>1, GateIsKept, PTL

---------------------------------------------------------------------------
(***************************************************************************)
(* Execute, for words of any length and any limits: what the parser makes of *)
(* a command, and the limits of its run.                                   *)
(***************************************************************************)

---------------------------------------------------------------------------
(***************************************************************************)
(* The parser, one character at a time.                                    *)
(***************************************************************************)

ParseState == [argv : Seq(Seq(Characters)), currentToken : Seq(Characters),
               tokenStarted : BOOLEAN, quoteState : {"unquoted", "single", "double"},
               escaped : BOOLEAN, refused : BOOLEAN]

\* Within a word: the arguments so far, and what is read of the next one.
Reading(st, args, letters, begun, quote) ==
    /\ st \in ParseState
    /\ st.argv = args /\ st.currentToken = letters /\ st.tokenStarted = begun
    /\ st.quoteState = quote /\ st.escaped = FALSE /\ st.refused = FALSE

\* After a backslash.
Escaping(st, args, letters, quote) ==
    /\ st \in ParseState
    /\ st.argv = args /\ st.currentToken = letters
    /\ st.quoteState = quote /\ st.escaped = TRUE /\ st.refused = FALSE

Refusing(st) == st \in ParseState /\ st.refused = TRUE

LEMMA ParseCharIsTyped ==
    ASSUME NEW st \in ParseState, NEW char \in Characters
    PROVE  ParseChar(st, char) \in ParseState
  <1>1. /\ st.argv \in Seq(Seq(Characters)) /\ st.currentToken \in Seq(Characters)
        /\ st = [argv |-> st.argv, currentToken |-> st.currentToken,
                 tokenStarted |-> st.tokenStarted, quoteState |-> st.quoteState,
                 escaped |-> st.escaped, refused |-> st.refused]
    BY DEF ParseState
  <1>2. Append(st.currentToken, char) \in Seq(Characters)
    BY <1>1, AppendProperties
  <1>3. <<>> \in Seq(Characters) /\ Append(st.argv, st.currentToken) \in Seq(Seq(Characters))
    BY <1>1, AppendProperties, EmptySeq
  <1>4. pushToken(st) \in ParseState
    BY <1>1, <1>3 DEF pushToken, ParseState
  <1>5. [st EXCEPT !.currentToken = Append(@, char), !.tokenStarted = TRUE] \in ParseState
    BY <1>2 DEF ParseState
  <1>6. [[st EXCEPT !.currentToken = Append(@, char), !.tokenStarted = TRUE]
            EXCEPT !.escaped = FALSE] \in ParseState
    BY <1>2 DEF ParseState
  <1>7. /\ [st EXCEPT !.quoteState = "unquoted", !.tokenStarted = TRUE] \in ParseState
        /\ [st EXCEPT !.quoteState = "single", !.tokenStarted = TRUE] \in ParseState
        /\ [st EXCEPT !.quoteState = "double", !.tokenStarted = TRUE] \in ParseState
        /\ [st EXCEPT !.escaped = TRUE, !.tokenStarted = TRUE] \in ParseState
        /\ [st EXCEPT !.refused = TRUE] \in ParseState
    BY DEF ParseState
  <1> QED
    BY <1>4, <1>5, <1>6, <1>7 DEF ParseChar

\* What ParseChar is for a character of each kind, where it matters.
LEMMA InSingle ==
    ASSUME NEW st, NEW char, st.refused = FALSE, st.quoteState = "single"
    PROVE  ParseChar(st, char) =
             IF char = "'" THEN [st EXCEPT !.quoteState = "unquoted", !.tokenStarted = TRUE]
             ELSE [st EXCEPT !.currentToken = Append(@, char), !.tokenStarted = TRUE]
  BY DEF ParseChar

LEMMA AfterBackslash ==
    ASSUME NEW st, NEW char, st.refused = FALSE, st.quoteState # "single", st.escaped = TRUE
    PROVE  ParseChar(st, char) =
             [[st EXCEPT !.currentToken = Append(@, char), !.tokenStarted = TRUE]
                EXCEPT !.escaped = FALSE]
  BY DEF ParseChar

LEMMA AtBackslash ==
    ASSUME NEW st, st.refused = FALSE, st.quoteState # "single", st.escaped = FALSE
    PROVE  ParseChar(st, "\\") = [st EXCEPT !.escaped = TRUE, !.tokenStarted = TRUE]
  BY DEF ParseChar

LEMMA InDouble ==
    ASSUME NEW st, NEW char, st.refused = FALSE, st.quoteState = "double", st.escaped = FALSE,
           char # "\\"
    PROVE  ParseChar(st, char) =
             IF char = "\"" THEN [st EXCEPT !.quoteState = "unquoted", !.tokenStarted = TRUE]
             ELSE [st EXCEPT !.currentToken = Append(@, char), !.tokenStarted = TRUE]
  BY DEF ParseChar

LEMMA InUnquoted ==
    ASSUME NEW st, NEW char, st.refused = FALSE, st.quoteState = "unquoted", st.escaped = FALSE,
           char # "\\"
    PROVE  /\ char = "'" => ParseChar(st, char) =
                [st EXCEPT !.quoteState = "single", !.tokenStarted = TRUE]
           /\ char = "\"" => ParseChar(st, char) =
                [st EXCEPT !.quoteState = "double", !.tokenStarted = TRUE]
           /\ char = " " => ParseChar(st, char) = pushToken(st)
           /\ char = "|" => ParseChar(st, char) = [st EXCEPT !.refused = TRUE]
           /\ char \notin {" ", "'", "\"", "|"} => ParseChar(st, char) =
                [st EXCEPT !.currentToken = Append(@, char), !.tokenStarted = TRUE]
  <1>1. CASE char = "'"
    BY <1>1 DEF ParseChar, UNSUPPORTED_SHELL_SYNTAX
  <1>2. CASE char = "\""
    BY <1>2 DEF ParseChar, UNSUPPORTED_SHELL_SYNTAX
  <1>3. CASE char = " "
    BY <1>3 DEF ParseChar, UNSUPPORTED_SHELL_SYNTAX
  <1>4. CASE char = "|"
    BY <1>4 DEF ParseChar, UNSUPPORTED_SHELL_SYNTAX
  <1>5. CASE char \notin {" ", "'", "\"", "|"}
    BY <1>5 DEF ParseChar, UNSUPPORTED_SHELL_SYNTAX
  <1> QED
    BY <1>1, <1>2, <1>3, <1>4, <1>5

\* What each character does within a word.
LEMMA CharsAre ==
    /\ \A char \in {" ", "'", "\"", "\\"} : char \in Characters /\ char \notin UNSUPPORTED_SHELL_SYNTAX
    /\ \A char \in UNSUPPORTED_SHELL_SYNTAX : char \in Characters
    /\ \A char \in Characters : char \notin Meaningful <=> char = Ordinary
  BY ExecuteAssumption DEF Characters, Meaningful, UNSUPPORTED_SHELL_SYNTAX

\* A character without meaning there is taken into the word.
LEMMA CharIsTaken ==
    ASSUME NEW st, NEW args, NEW letters, NEW begun, NEW quote, NEW char \in Characters,
           Reading(st, args, letters, begun, quote),
           \/ quote = "single" /\ char # "'"
           \/ quote = "double" /\ char \notin {"\"", "\\"}
           \/ quote = "unquoted" /\ char \notin Meaningful
    PROVE  Reading(ParseChar(st, char), args, Append(letters, char), TRUE, quote)
  <1>1. /\ st \in ParseState /\ st.argv = args /\ st.currentToken = letters /\ st.tokenStarted = begun
        /\ st.quoteState = quote /\ st.escaped = FALSE /\ st.refused = FALSE
    BY DEF Reading
  <1> DEFINE taken == [st EXCEPT !.currentToken = Append(@, char), !.tokenStarted = TRUE]
  <1>2. ParseChar(st, char) = taken
    <2>1. CASE quote = "single" /\ char # "'"
      BY <1>1, <2>1 DEF ParseChar
    <2>2. CASE quote = "double" /\ char \notin {"\"", "\\"}
      BY <1>1, <2>2 DEF ParseChar
    <2>3. CASE quote = "unquoted" /\ char \notin Meaningful
      <3>1. /\ char # " " /\ char # "'" /\ char # "\"" /\ char # "\\"
            /\ char \notin UNSUPPORTED_SHELL_SYNTAX
        BY <2>3 DEF Meaningful
      <3> QED
        BY <1>1, <2>3, <3>1 DEF ParseChar
    <2> QED
      BY <2>1, <2>2, <2>3
  <1>3. ParseChar(st, char) \in ParseState
    BY <1>1, ParseCharIsTyped
  <1>4. /\ taken.argv = args /\ taken.currentToken = Append(letters, char)
        /\ taken.tokenStarted = TRUE /\ taken.quoteState = quote
        /\ taken.escaped = FALSE /\ taken.refused = FALSE
    BY <1>1 DEF ParseState
  <1> HIDE DEF taken
  <1> QED
    BY <1>2, <1>3, <1>4 DEF Reading

\* A quote opens or closes, and starts the word even if nothing is in it.
LEMMA QuoteIsRead ==
    ASSUME NEW st, NEW args, NEW letters, NEW begun, NEW quote, NEW next, NEW char,
           Reading(st, args, letters, begun, quote),
           \/ quote = "unquoted" /\ char = "'" /\ next = "single"
           \/ quote = "unquoted" /\ char = "\"" /\ next = "double"
           \/ quote = "single" /\ char = "'" /\ next = "unquoted"
           \/ quote = "double" /\ char = "\"" /\ next = "unquoted"
    PROVE  Reading(ParseChar(st, char), args, letters, TRUE, next)
  <1>1. /\ st \in ParseState /\ st.argv = args /\ st.currentToken = letters /\ st.tokenStarted = begun
        /\ st.quoteState = quote /\ st.escaped = FALSE /\ st.refused = FALSE
    BY DEF Reading
  <1> DEFINE quoted == [st EXCEPT !.quoteState = next, !.tokenStarted = TRUE]
  <1>2. char \in Characters /\ char \notin UNSUPPORTED_SHELL_SYNTAX
    BY CharsAre
  <1>3. ParseChar(st, char) = quoted
    BY <1>1, <1>2 DEF ParseChar
  <1>4. ParseChar(st, char) \in ParseState
    BY <1>1, <1>2, ParseCharIsTyped
  <1>5. /\ quoted.argv = args /\ quoted.currentToken = letters
        /\ quoted.tokenStarted = TRUE /\ quoted.quoteState = next
        /\ quoted.escaped = FALSE /\ quoted.refused = FALSE
    BY <1>1 DEF ParseState
  <1> HIDE DEF quoted
  <1> QED
    BY <1>3, <1>4, <1>5 DEF Reading

\* A backslash takes the next character as it is.
LEMMA BackslashIsRead ==
    ASSUME NEW st, NEW args, NEW letters, NEW begun, NEW quote \in {"unquoted", "double"},
           Reading(st, args, letters, begun, quote)
    PROVE  Escaping(ParseChar(st, "\\"), args, letters, quote)
  <1>1. /\ st \in ParseState /\ st.argv = args /\ st.currentToken = letters /\ st.tokenStarted = begun
        /\ st.quoteState = quote /\ st.escaped = FALSE /\ st.refused = FALSE
    BY DEF Reading
  <1> DEFINE next == [st EXCEPT !.escaped = TRUE, !.tokenStarted = TRUE]
  <1>2. "\\" \in Characters /\ "\\" \notin UNSUPPORTED_SHELL_SYNTAX
    BY CharsAre
  <1>3. ParseChar(st, "\\") = next
    BY <1>1, <1>2 DEF ParseChar
  <1>4. ParseChar(st, "\\") \in ParseState
    BY <1>1, <1>2, ParseCharIsTyped
  <1>5. /\ next.argv = args /\ next.currentToken = letters /\ next.quoteState = quote
        /\ next.escaped = TRUE /\ next.refused = FALSE
    BY <1>1 DEF ParseState
  <1> HIDE DEF next
  <1> QED
    BY <1>3, <1>4, <1>5 DEF Escaping

LEMMA EscapedIsRead ==
    ASSUME NEW st, NEW args, NEW letters, NEW quote \in {"unquoted", "double"},
           NEW char \in Characters, Escaping(st, args, letters, quote)
    PROVE  Reading(ParseChar(st, char), args, Append(letters, char), TRUE, quote)
  <1>1. /\ st \in ParseState /\ st.argv = args /\ st.currentToken = letters
        /\ st.quoteState = quote /\ st.escaped = TRUE /\ st.refused = FALSE
    BY DEF Escaping
  <1> DEFINE taken == [st EXCEPT !.currentToken = Append(@, char), !.tokenStarted = TRUE]
             next == [taken EXCEPT !.escaped = FALSE]
  <1>2. ParseChar(st, char) = next
    BY <1>1 DEF ParseChar
  <1>3. ParseChar(st, char) \in ParseState
    BY <1>1, ParseCharIsTyped
  <1>4. /\ next.argv = args /\ next.currentToken = Append(letters, char)
        /\ next.tokenStarted = TRUE /\ next.quoteState = quote
        /\ next.escaped = FALSE /\ next.refused = FALSE
    BY <1>1 DEF ParseState
  <1> HIDE DEF next
  <1> QED
    BY <1>2, <1>3, <1>4 DEF Reading

\* A space ends the word.
LEMMA SpaceIsRead ==
    ASSUME NEW st, NEW args, NEW letters, Reading(st, args, letters, TRUE, "unquoted")
    PROVE  Reading(ParseChar(st, " "), Append(args, letters), <<>>, FALSE, "unquoted")
  <1>1. /\ st \in ParseState /\ st.argv = args /\ st.currentToken = letters /\ st.tokenStarted = TRUE
        /\ st.quoteState = "unquoted" /\ st.escaped = FALSE /\ st.refused = FALSE
    BY DEF Reading
  <1> DEFINE next == [st EXCEPT !.argv = Append(@, st.currentToken), !.currentToken = <<>>,
                                !.tokenStarted = FALSE]
  <1>2. " " \in Characters /\ " " \notin UNSUPPORTED_SHELL_SYNTAX
    BY CharsAre
  <1>3. ParseChar(st, " ") = pushToken(st)
    BY <1>1, <1>2 DEF ParseChar
  <1>4. pushToken(st) = next
    BY <1>1 DEF pushToken
  <1>5. ParseChar(st, " ") \in ParseState
    BY <1>1, <1>2, ParseCharIsTyped
  <1>6. /\ next.argv = Append(args, letters) /\ next.currentToken = <<>>
        /\ next.tokenStarted = FALSE /\ next.quoteState = "unquoted"
        /\ next.escaped = FALSE /\ next.refused = FALSE
    BY <1>1 DEF ParseState
  <1> HIDE DEF next
  <1> QED
    BY <1>3, <1>4, <1>5, <1>6 DEF Reading

\* An operator of the shell is refused, whatever follows.
LEMMA OperatorIsRefused ==
    ASSUME NEW st, NEW args, NEW letters, NEW begun, NEW char \in UNSUPPORTED_SHELL_SYNTAX,
           Reading(st, args, letters, begun, "unquoted")
    PROVE  Refusing(ParseChar(st, char))
  <1>1. /\ st \in ParseState
        /\ st.quoteState = "unquoted" /\ st.escaped = FALSE /\ st.refused = FALSE
    BY DEF Reading
  <1>2. ParseChar(st, char) = [st EXCEPT !.refused = TRUE]
    BY <1>1 DEF ParseChar, UNSUPPORTED_SHELL_SYNTAX
  <1>3. ParseChar(st, char) \in ParseState
    BY <1>1, CharsAre, ParseCharIsTyped
  <1> QED
    BY <1>1, <1>2, <1>3 DEF Refusing, ParseState

LEMMA RefusedStaysRefused ==
    ASSUME NEW st, NEW char, Refusing(st)
    PROVE  ParseChar(st, char) = st
  BY DEF ParseChar, Refusing

---------------------------------------------------------------------------
\* The parser goes from one state to another over a text.
Reads(from, text, to) ==
    \E g \in [0..Len(text) -> ParseState] :
        /\ g[0] = from /\ g[Len(text)] = to
        /\ \A i \in 1..Len(text) : g[i] = ParseChar(g[i - 1], text[i])

LEMMA ReadsNothing ==
    ASSUME NEW st \in ParseState
    PROVE  Reads(st, <<>>, st)
  <1> DEFINE g == [i \in 0..0 |-> st]
  <1>1. Len(<<>>) = 0
    OBVIOUS
  <1>2. g \in [0..0 -> ParseState] /\ g[0] = st
    OBVIOUS
  <1> HIDE DEF g
  <1>3. \A i \in 1..Len(<<>>) : g[i] = ParseChar(g[i - 1], <<>>[i])
    BY <1>1
  <1> QED
    BY <1>1, <1>2, <1>3 DEF Reads

LEMMA ReadsOne ==
    ASSUME NEW st \in ParseState, NEW char \in Characters
    PROVE  Reads(st, <<char>>, ParseChar(st, char))
  <1> DEFINE g == [i \in 0..1 |-> IF i = 0 THEN st ELSE ParseChar(st, char)]
  <1>1. Len(<<char>>) = 1 /\ <<char>>[1] = char
    OBVIOUS
  <1>2. ParseChar(st, char) \in ParseState
    BY ParseCharIsTyped
  <1>3. g \in [0..1 -> ParseState] /\ g[0] = st /\ g[1] = ParseChar(st, char)
    BY <1>2
  <1> HIDE DEF g
  <1>4. \A i \in 1..1 : g[i] = ParseChar(g[i - 1], <<char>>[i])
    BY <1>1, <1>3
  <1> QED
    BY <1>1, <1>3, <1>4 DEF Reads

LEMMA ReadsBoth ==
    ASSUME NEW a \in Seq(Characters), NEW b \in Seq(Characters),
           NEW st, NEW mid, NEW to, Reads(st, a, mid), Reads(mid, b, to)
    PROVE  Reads(st, a \o b, to)
  <1>1. PICK g \in [0..Len(a) -> ParseState] :
           /\ g[0] = st /\ g[Len(a)] = mid
           /\ \A i \in 1..Len(a) : g[i] = ParseChar(g[i - 1], a[i])
    BY DEF Reads
  <1>2. PICK h \in [0..Len(b) -> ParseState] :
           /\ h[0] = mid /\ h[Len(b)] = to
           /\ \A i \in 1..Len(b) : h[i] = ParseChar(h[i - 1], b[i])
    BY DEF Reads
  <1> DEFINE ab == a \o b
             n == Len(a)
             m == Len(b)
             f == [i \in 0..n + m |-> IF i <= n THEN g[i] ELSE h[i - n]]
  <1>3. n \in Nat /\ m \in Nat
    BY LenProperties
  <1>4. /\ ab \in Seq(Characters) /\ Len(ab) = n + m
        /\ \A i \in 1..n : ab[i] = a[i]
        /\ \A i \in 1..m : ab[n + i] = b[i]
    <2>1. /\ ab \in Seq(Characters) /\ Len(ab) = n + m
          /\ \A i \in 1..n + m : ab[i] = IF i <= n THEN a[i] ELSE b[i - n]
      BY ConcatProperties
    <2>2. \A i \in 1..m : n + i \in 1..n + m /\ ~(n + i <= n) /\ (n + i) - n = i
      BY <1>3
    <2>3. \A i \in 1..n : i \in 1..n + m /\ i <= n
      BY <1>3
    <2> HIDE DEF ab, n, m
    <2> QED
      BY <2>1, <2>2, <2>3
  <1> HIDE DEF ab, n, m
  <1>5. f \in [0..n + m -> ParseState] /\ f[0] = st
    <2>1. \A i \in 0..n + m : IF i <= n THEN i \in 0..n ELSE i - n \in 0..m
      BY <1>3
    <2> QED
      BY <1>1, <1>2, <1>3, <2>1 DEF n, m
  <1>6. \A i \in 0..n : f[i] = g[i]
    BY <1>3
  <1>7. \A i \in 0..m : f[n + i] = h[i]
    <2>1. \A i \in 1..m : n + i \in 0..n + m /\ ~(n + i <= n) /\ (n + i) - n = i
      BY <1>3
    <2>2. f[n + 0] = h[0]
      BY <1>1, <1>2, <1>3 DEF n
    <2>3. \A i \in 0..m : i = 0 \/ i \in 1..m
      BY <1>3
    <2> QED
      BY <2>1, <2>2, <2>3
  <1> HIDE DEF f
  <1>8. ASSUME NEW i \in 1..n + m PROVE f[i] = ParseChar(f[i - 1], ab[i])
    <2>1. CASE i <= n
      <3>1. i \in 1..n /\ i \in 0..n /\ i - 1 \in 0..n
        BY <1>3, <2>1
      <3>2. g[i] = ParseChar(g[i - 1], a[i])
        BY <1>1, <3>1 DEF n
      <3> QED
        BY <1>4, <1>6, <3>1, <3>2
    <2>2. CASE ~(i <= n)
      <3> DEFINE j == i - n
      <3>1. j \in 1..m /\ j \in 0..m /\ j - 1 \in 0..m /\ n + j = i /\ n + (j - 1) = i - 1
        BY <1>3, <2>2
      <3> HIDE DEF j
      <3>2. h[j] = ParseChar(h[j - 1], b[j])
        BY <1>2, <3>1 DEF m
      <3>3. f[i] = h[j] /\ f[i - 1] = h[j - 1] /\ ab[i] = b[j]
        BY <1>4, <1>7, <3>1
      <3> QED
        BY <3>2, <3>3
    <2> QED
      BY <2>1, <2>2
  <1>9. f[n + m] = to
    BY <1>2, <1>3, <1>7 DEF m
  <1> QED
    BY <1>4, <1>5, <1>8, <1>9 DEF Reads, ab

LEMMA RefusedReads ==
    ASSUME NEW st, Refusing(st), NEW text \in Seq(Characters)
    PROVE  Reads(st, text, st)
  <1> DEFINE g == [i \in 0..Len(text) |-> st]
  <1>1. Len(text) \in Nat /\ st \in ParseState
    BY LenProperties DEF Refusing
  <1>2. g \in [0..Len(text) -> ParseState] /\ \A i \in 0..Len(text) : g[i] = st
    BY <1>1
  <1> HIDE DEF g
  <1>3. ASSUME NEW i \in 1..Len(text) PROVE g[i] = ParseChar(g[i - 1], text[i])
    <2>1. i - 1 \in 0..Len(text) /\ i \in 0..Len(text)
      BY <1>1
    <2> QED
      BY <1>2, <2>1, RefusedStaysRefused
  <1>4. g[0] = st /\ g[Len(text)] = st
    BY <1>1, <1>2
  <1> QED
    BY <1>2, <1>3, <1>4 DEF Reads

\* What it goes to is what Read computes.
LEMMA ReadsIsRead ==
    ASSUME NEW text \in Seq(Characters), NEW to, Reads(Start, text, to)
    PROVE  Read(text) = to
  <1> DEFINE n == Len(text)
             Def(h) == [i \in 0..n |-> IF i = 0 THEN Start ELSE ParseChar(h[i - 1], text[i])]
             p == CHOOSE h : h = Def(h)
  <1>1. PICK g \in [0..n -> ParseState] :
           /\ g[0] = Start /\ g[n] = to
           /\ \A i \in 1..n : g[i] = ParseChar(g[i - 1], text[i])
    BY DEF Reads
  <1>2. n \in Nat
    BY LenProperties
  <1>3. g = Def(g)
    <2>1. /\ g = [i \in 0..n |-> g[i]]
          /\ \A i \in 0..n : g[i] = IF i = 0 THEN Start ELSE ParseChar(g[i - 1], text[i])
      BY <1>1, <1>2
    <2> QED
      BY <2>1
  <1>4. p = Def(p)
    <2> HIDE DEF Def
    <2> QED
      BY <1>3
  <1>5. /\ p[0] = Start
        /\ \A i \in 1..n : p[i] = ParseChar(p[i - 1], text[i])
    <2> HIDE DEF p
    <2> QED
      BY <1>2, <1>4
  <1>6. Read(text) = p[n]
    BY DEF Read
  <1> HIDE DEF p
  <1> DEFINE S == {i \in 0..n : p[i] = g[i]}
  <1>7. 0 \in S
    BY <1>1, <1>2, <1>5
  <1>8. ASSUME NEW i \in 0..n, i < n, i \in S PROVE i + 1 \in S
    <2>1. i + 1 \in 1..n /\ (i + 1) - 1 = i
      BY <1>2, <1>8
    <2>2. p[i + 1] = ParseChar(p[i], text[i + 1]) /\ g[i + 1] = ParseChar(g[i], text[i + 1])
      BY <1>1, <1>5, <2>1
    <2> QED
      BY <1>8, <2>1, <2>2
  <1>9. n \in S
    <2> HIDE DEF S, n
    <2> QED
      BY <1>2, <1>7, <1>8, InductionUpTo
  <1> QED
    BY <1>1, <1>6, <1>9

\* It goes somewhere, whatever the text.
LEMMA EveryTextIsRead ==
    ASSUME NEW text \in Seq(Characters)
    PROVE  Read(text) \in ParseState
  <1> DEFINE n == Len(text)
             reading == [i \in 1..n |-> [st \in ParseState |-> ParseChar(st, text[i])]]
  <1>1. n \in Nat /\ \A i \in 1..n : text[i] \in Characters
    BY LenProperties, ElementOfSeq
  <1>2. Start \in ParseState
    BY EmptySeq DEF Start, ParseState
  <1>3. reading \in [1..n -> [ParseState -> ParseState]]
    BY <1>1, ParseCharIsTyped
  <1> HIDE DEF reading
  <1>4. PICK g : Iterates(g, n, ParseState, Start, reading)
    <2> HIDE DEF n
    <2> QED
      BY <1>1, <1>2, <1>3, IterationExists
  <1>5. ASSUME NEW i \in 1..n PROVE g[i] = ParseChar(g[i - 1], text[i])
    <2>1. i - 1 \in 0..n
      BY <1>1
    <2>2. g[i - 1] \in ParseState /\ g[i] = reading[i][g[i - 1]]
      BY <1>4, <2>1 DEF Iterates
    <2> QED
      BY <2>2 DEF reading
  <1>6. Reads(Start, text, g[n]) /\ g[n] \in ParseState
    BY <1>1, <1>4, <1>5 DEF Iterates, Reads
  <1> QED
    BY <1>6, ReadsIsRead

---------------------------------------------------------------------------
(***************************************************************************)
(* What is written, one character and one word at a time.                  *)
(***************************************************************************)

\* parts[i] is what the first i chunks are together.
Pieces(parts, chunks) ==
    /\ parts \in [0..Len(chunks) -> Seq(Characters)]
    /\ parts[0] = <<>>
    /\ \A i \in 1..Len(chunks) : parts[i] = parts[i - 1] \o chunks[i]

LEMMA OneCharacter ==
    /\ <<"'">> \in Seq(Characters) /\ <<"\"">> \in Seq(Characters)
    /\ <<" ">> \in Seq(Characters) /\ <<"\\">> \in Seq(Characters)
  <1>1. \A char \in Characters : <<char>> \in Seq(Characters)
    OBVIOUS
  <1>2. "'" \in Characters /\ "\"" \in Characters /\ " " \in Characters /\ "\\" \in Characters
    BY DEF Characters, Meaningful
  <1> QED
    BY <1>1, <1>2

LEMMA EscapeCharIsText ==
    ASSUME NEW char \in Characters, NEW escaped
    PROVE  /\ EscapeChar(char, escaped) \in Seq(Characters)
           /\ EscapeChar(char, escaped) # <<>>
           /\ Len(EscapeChar(char, escaped)) \in 1..2
           /\ EscapeChar(char, escaped)[Len(EscapeChar(char, escaped))] = char
           /\ char \in escaped => EscapeChar(char, escaped)[1] = "\\"
           /\ char \notin escaped => EscapeChar(char, escaped)[1] = char
  <1>1. "\\" \in Characters
    BY CharsAre
  <1>2. CASE char \in escaped
    <2>1. EscapeChar(char, escaped) = <<"\\", char>>
      BY <1>2 DEF EscapeChar
    <2>2. <<"\\", char>> \in Seq(Characters) /\ Len(<<"\\", char>>) = 2
      BY <1>1
    <2> QED
      BY <1>2, <2>1, <2>2
  <1>3. CASE char \notin escaped
    <2>1. EscapeChar(char, escaped) = <<char>>
      BY <1>3 DEF EscapeChar
    <2>2. <<char>> \in Seq(Characters) /\ Len(<<char>>) = 1
      OBVIOUS
    <2> QED
      BY <1>3, <2>1, <2>2
  <1> QED
    BY <1>2, <1>3

LEMMA EscapeIs ==
    ASSUME NEW w \in Seq(Characters), NEW escaped
    PROVE  \E parts :
             /\ Pieces(parts, [i \in 1..Len(w) |-> EscapeChar(w[i], escaped)])
             /\ Escape(w, escaped) = parts[Len(w)]
  <1> DEFINE n == Len(w)
             chunks == [i \in 1..n |-> EscapeChar(w[i], escaped)]
             reading == [i \in 1..n |-> [s \in Seq(Characters) |-> s \o chunks[i]]]
             Def(h) == [i \in 0..n |-> IF i = 0 THEN <<>>
                                       ELSE h[i - 1] \o EscapeChar(w[i], escaped)]
             p == CHOOSE h : h = Def(h)
  <1>1. n \in Nat /\ \A i \in 1..n : w[i] \in Characters
    BY LenProperties, ElementOfSeq
  <1>2. \A i \in 1..n : chunks[i] \in Seq(Characters) /\ chunks[i] = EscapeChar(w[i], escaped)
    BY <1>1, EscapeCharIsText
  <1>3. chunks \in Seq(Seq(Characters)) /\ Len(chunks) = n
    BY <1>1, <1>2
  <1> HIDE DEF chunks
  <1>4. reading \in [1..n -> [Seq(Characters) -> Seq(Characters)]]
    BY <1>2, ConcatProperties
  <1>5. <<>> \in Seq(Characters)
    BY EmptySeq
  <1>6. PICK g : Iterates(g, n, Seq(Characters), <<>>, reading)
    <2> HIDE DEF n, reading
    <2> QED
      BY <1>1, <1>4, <1>5, IterationExists
  <1>7. ASSUME NEW i \in 1..n PROVE g[i] = g[i - 1] \o chunks[i] /\ g[i - 1] \in Seq(Characters)
    <2>1. i - 1 \in 0..n
      BY <1>1
    <2>2. g[i - 1] \in Seq(Characters) /\ g[i] = reading[i][g[i - 1]]
      BY <1>6, <2>1 DEF Iterates
    <2> QED
      BY <2>2
  <1>8. g = Def(g)
    <2>1. g = [i \in 0..n |-> g[i]] /\ g[0] = <<>>
      BY <1>6 DEF Iterates
    <2>2. ASSUME NEW i \in 0..n
          PROVE  g[i] = IF i = 0 THEN <<>> ELSE g[i - 1] \o EscapeChar(w[i], escaped)
      <3>1. i = 0 \/ i \in 1..n
        BY <1>1
      <3> QED
        BY <1>2, <1>7, <2>1, <3>1
    <2> QED
      BY <2>1, <2>2
  <1>9. p = Def(p)
    <2> HIDE DEF Def
    <2> QED
      BY <1>8
  <1>10. /\ p = [i \in 0..n |-> p[i]]
         /\ p[0] = <<>>
         /\ \A i \in 1..n : p[i] = p[i - 1] \o chunks[i]
    <2> HIDE DEF p
    <2>1. \A i \in 1..n : i \in 0..n /\ i # 0
      BY <1>1
    <2> QED
      BY <1>1, <1>2, <1>9, <2>1
  <1>11. Escape(w, escaped) = p[n]
    BY DEF Escape
  <1> HIDE DEF p
  <1> DEFINE S == {i \in 0..n : p[i] = g[i]}
  <1>12. 0 \in S
    BY <1>1, <1>6, <1>10 DEF Iterates
  <1>13. ASSUME NEW i \in 0..n, i < n, i \in S PROVE i + 1 \in S
    <2>1. i + 1 \in 1..n /\ (i + 1) - 1 = i
      BY <1>1, <1>13
    <2>2. p[i + 1] = p[(i + 1) - 1] \o chunks[i + 1]
      BY <1>10, <2>1
    <2>3. g[i + 1] = g[(i + 1) - 1] \o chunks[i + 1]
      BY <1>7, <2>1
    <2>4. p[i] = g[i] /\ i + 1 \in 0..n
      BY <1>1, <1>13
    <2> QED
      BY <2>1, <2>2, <2>3, <2>4
  <1>14. n \in S
    <2> HIDE DEF S, n
    <2> QED
      BY <1>1, <1>12, <1>13, InductionUpTo
  <1>15. Pieces(g, chunks)
    BY <1>3, <1>6, <1>7 DEF Iterates, Pieces
  <1> QED
    BY <1>11, <1>14, <1>15 DEF chunks

LEMMA EscapeIsText ==
    ASSUME NEW w \in Seq(Characters), NEW escaped
    PROVE  Escape(w, escaped) \in Seq(Characters)
  <1> DEFINE chunks == [i \in 1..Len(w) |-> EscapeChar(w[i], escaped)]
  <1>1. PICK parts : Pieces(parts, chunks) /\ Escape(w, escaped) = parts[Len(w)]
    BY EscapeIs
  <1>2. chunks \in Seq(Seq(Characters)) /\ Len(chunks) = Len(w)
    <2>1. \A i \in 1..Len(w) : EscapeChar(w[i], escaped) \in Seq(Characters)
      BY ElementOfSeq, EscapeCharIsText
    <2>2. Len(w) \in Nat
      BY LenProperties
    <2> QED
      BY <2>1, <2>2
  <1>3. Len(w) \in 0..Len(w)
    BY LenProperties
  <1> QED
    BY <1>1, <1>2, <1>3 DEF Pieces

LEMMA WriteIsText ==
    ASSUME NEW w \in Seq(Characters), NEW how \in Styles
    PROVE  Write(w, how) \in Seq(Characters)
  <1>1. \A escaped : Escape(w, escaped) \in Seq(Characters)
    BY EscapeIsText
  <1>2. <<"'">> \in Seq(Characters) /\ <<"\"">> \in Seq(Characters)
    BY OneCharacter
  <1>3. /\ <<"'">> \o w \in Seq(Characters)
        /\ <<"\"">> \o Escape(w, {"\"", "\\"}) \in Seq(Characters)
    BY <1>1, <1>2, ConcatProperties
  <1>4. /\ (<<"'">> \o w) \o <<"'">> \in Seq(Characters)
        /\ (<<"\"">> \o Escape(w, {"\"", "\\"})) \o <<"\"">> \in Seq(Characters)
    BY <1>2, <1>3, ConcatProperties
  <1> QED
    BY <1>1, <1>4 DEF Write, Styles

\* parts[i] is the text of the first i words.
Texts(parts, ws, how) ==
    /\ parts \in [0..Len(ws) -> Seq(Characters)]
    /\ parts[0] = <<>>
    /\ \A i \in 1..Len(ws) :
          parts[i] = (IF i = 1 THEN <<>> ELSE parts[i - 1] \o <<" ">>) \o Write(ws[i], how)

LEMMA TextIs ==
    ASSUME NEW ws \in Seq(Seq(Characters)), NEW how \in Styles
    PROVE  \E parts : Texts(parts, ws, how) /\ Text(ws, how) = parts[Len(ws)]
  <1> DEFINE n == Len(ws)
             Word(i) == Write(ws[i], how)
             reading == [i \in 1..n |-> [s \in Seq(Characters) |->
                         (IF i = 1 THEN <<>> ELSE s \o <<" ">>) \o Word(i)]]
             Def(h) == [i \in 0..n |-> IF i = 0 THEN <<>>
                          ELSE (IF i = 1 THEN <<>> ELSE h[i - 1] \o <<" ">>) \o Write(ws[i], how)]
             p == CHOOSE h : h = Def(h)
  <1>1. n \in Nat /\ \A i \in 1..n : ws[i] \in Seq(Characters)
    BY LenProperties, ElementOfSeq
  <1>2. \A i \in 1..n : Word(i) \in Seq(Characters)
    BY <1>1, WriteIsText
  <1>3. <<>> \in Seq(Characters) /\ <<" ">> \in Seq(Characters)
    BY EmptySeq, OneCharacter
  <1>4. reading \in [1..n -> [Seq(Characters) -> Seq(Characters)]]
    <2>1. ASSUME NEW i \in 1..n, NEW s \in Seq(Characters)
          PROVE  (IF i = 1 THEN <<>> ELSE s \o <<" ">>) \o Word(i) \in Seq(Characters)
      <3>1. (IF i = 1 THEN <<>> ELSE s \o <<" ">>) \in Seq(Characters)
        BY <1>3, ConcatProperties
      <3> HIDE DEF Word
      <3> QED
        BY <1>2, <3>1, ConcatProperties
    <2> QED
      BY <2>1
  <1>5. PICK g : Iterates(g, n, Seq(Characters), <<>>, reading)
    <2> HIDE DEF n, reading
    <2> QED
      BY <1>1, <1>3, <1>4, IterationExists
  <1>6. ASSUME NEW i \in 1..n
        PROVE  g[i] = (IF i = 1 THEN <<>> ELSE g[i - 1] \o <<" ">>) \o Write(ws[i], how)
    <2>1. i - 1 \in 0..n
      BY <1>1
    <2>2. g[i - 1] \in Seq(Characters) /\ g[i] = reading[i][g[i - 1]]
      BY <1>5, <2>1 DEF Iterates
    <2> QED
      BY <2>2
  <1>7. g = Def(g)
    <2>1. g = [i \in 0..n |-> g[i]] /\ g[0] = <<>>
      BY <1>5 DEF Iterates
    <2>2. ASSUME NEW i \in 0..n
          PROVE  g[i] = IF i = 0 THEN <<>>
                        ELSE (IF i = 1 THEN <<>> ELSE g[i - 1] \o <<" ">>) \o Write(ws[i], how)
      <3>1. i = 0 \/ i \in 1..n
        BY <1>1
      <3> QED
        BY <1>6, <2>1, <3>1
    <2> QED
      BY <2>1, <2>2
  <1>8. p = Def(p)
    <2> HIDE DEF Def
    <2> QED
      BY <1>7
  <1>9. /\ p[0] = <<>>
        /\ \A i \in 1..n :
              p[i] = (IF i = 1 THEN <<>> ELSE p[i - 1] \o <<" ">>) \o Write(ws[i], how)
    <2> HIDE DEF p
    <2>1. \A i \in 0..n :
             p[i] = IF i = 0 THEN <<>>
                    ELSE (IF i = 1 THEN <<>> ELSE p[i - 1] \o <<" ">>) \o Write(ws[i], how)
      <3> HIDE DEF n
      <3> QED
        BY <1>8
    <2>2. 0 \in 0..n /\ \A i \in 1..n : i \in 0..n /\ i # 0
      BY <1>1
    <2> HIDE DEF n, Def
    <2> QED
      BY <2>1, <2>2
  <1>10. Text(ws, how) = p[n]
    BY DEF Text
  <1> HIDE DEF p
  <1> DEFINE S == {i \in 0..n : p[i] = g[i]}
  <1>11. 0 \in S
    <2>1. g[0] = <<>>
      BY <1>5 DEF Iterates
    <2>2. p[0] = <<>>
      BY <1>9
    <2>3. 0 \in 0..n
      BY <1>1
    <2> QED
      BY <2>1, <2>2, <2>3
  <1>12. ASSUME NEW i \in 0..n, i < n, i \in S PROVE i + 1 \in S
    <2>1. i + 1 \in 1..n /\ (i + 1) - 1 = i
      BY <1>1, <1>12
    <2>2. p[i + 1] = (IF i + 1 = 1 THEN <<>> ELSE p[(i + 1) - 1] \o <<" ">>) \o Write(ws[i + 1], how)
      BY <1>9, <2>1
    <2>3. g[i + 1] = (IF i + 1 = 1 THEN <<>> ELSE g[(i + 1) - 1] \o <<" ">>) \o Write(ws[i + 1], how)
      BY <1>6, <2>1
    <2>4. p[i] = g[i] /\ i + 1 \in 0..n
      BY <1>1, <1>12
    <2> QED
      BY <2>1, <2>2, <2>3, <2>4
  <1>13. n \in S
    <2> HIDE DEF S, n
    <2> QED
      BY <1>1, <1>11, <1>12, InductionUpTo
  <1>14. Texts(g, ws, how)
    BY <1>5, <1>6 DEF Iterates, Texts
  <1> QED
    BY <1>10, <1>13, <1>14

---------------------------------------------------------------------------
(***************************************************************************)
(* What is written is read as it was meant.                                *)
(***************************************************************************)

\* Within a word, chunk is read as the character char.
ReadAs(chunk, char, quote) ==
    \A st, args, letters, begun : Reading(st, args, letters, begun, quote) =>
        \E to : Reads(st, chunk, to) /\ Reading(to, args, Append(letters, char), TRUE, quote)

\* A character that is taken stands for itself.
LEMMA LiteralIsRead ==
    ASSUME NEW char \in Characters, NEW quote,
           \/ quote = "single" /\ char # "'"
           \/ quote = "double" /\ char \notin {"\"", "\\"}
           \/ quote = "unquoted" /\ char \notin Meaningful
    PROVE  ReadAs(<<char>>, char, quote)
  <1> SUFFICES ASSUME NEW st, NEW args, NEW letters, NEW begun,
                      Reading(st, args, letters, begun, quote)
               PROVE  \E to : /\ Reads(st, <<char>>, to)
                              /\ Reading(to, args, Append(letters, char), TRUE, quote)
    BY DEF ReadAs
  <1>1. st \in ParseState
    BY DEF Reading
  <1>2. Reads(st, <<char>>, ParseChar(st, char))
    BY <1>1, ReadsOne
  <1>3. Reading(ParseChar(st, char), args, Append(letters, char), TRUE, quote)
    BY CharIsTaken
  <1> QED
    BY <1>2, <1>3

\* Any character does after a backslash.
LEMMA EscapeIsRead ==
    ASSUME NEW char \in Characters, NEW quote \in {"unquoted", "double"}
    PROVE  ReadAs(<<"\\", char>>, char, quote)
  <1> SUFFICES ASSUME NEW st, NEW args, NEW letters, NEW begun,
                      Reading(st, args, letters, begun, quote)
               PROVE  \E to : /\ Reads(st, <<"\\", char>>, to)
                              /\ Reading(to, args, Append(letters, char), TRUE, quote)
    BY DEF ReadAs
  <1> DEFINE mid == ParseChar(st, "\\")
             to == ParseChar(mid, char)
  <1>1. st \in ParseState /\ "\\" \in Characters
    BY CharsAre DEF Reading
  <1>2. Escaping(mid, args, letters, quote)
    BY BackslashIsRead
  <1>3. mid \in ParseState
    BY <1>2 DEF Escaping
  <1>4. Reads(st, <<"\\">>, mid)
    BY <1>1, ReadsOne
  <1> HIDE DEF mid
  <1>5. Reads(mid, <<char>>, to)
    BY <1>3, ReadsOne
  <1>6. Reading(to, args, Append(letters, char), TRUE, quote)
    BY <1>2, EscapedIsRead
  <1> HIDE DEF to
  <1>7. <<"\\">> \in Seq(Characters) /\ <<char>> \in Seq(Characters)
    <2>1. <<char>> \in Seq(Characters)
      OBVIOUS
    <2> QED
      BY <2>1, OneCharacter
  <1>8. Reads(st, <<"\\">> \o <<char>>, to)
    BY <1>4, <1>5, <1>7, ReadsBoth
  <1>9. <<"\\">> \o <<char>> = <<"\\", char>>
    BY <1>1, TwoOnes
  <1> QED
    BY <1>6, <1>8, <1>9

\* Hence chunks that are read as characters are read as the word of these.
LEMMA ChunksAreRead ==
    ASSUME NEW w \in Seq(Characters), NEW chunks, NEW parts, NEW quote,
           chunks \in Seq(Seq(Characters)), Len(chunks) = Len(w), Pieces(parts, chunks),
           \A i \in 1..Len(w) : ReadAs(chunks[i], w[i], quote),
           NEW st, NEW args, NEW begun, Reading(st, args, <<>>, begun, quote)
    PROVE  \E to : /\ Reads(st, parts[Len(w)], to)
                   /\ Reading(to, args, w, IF w = <<>> THEN begun ELSE TRUE, quote)
  <1> DEFINE n == Len(w)
             ReadUpTo(i) == \E to :
                 /\ Reads(st, parts[i], to)
                 /\ Reading(to, args, SubSeq(w, 1, i), IF i = 0 THEN begun ELSE TRUE, quote)
             S == {i \in 0..n : ReadUpTo(i)}
  <1>1. n \in Nat /\ \A i \in 1..n : chunks[i] \in Seq(Characters)
    BY LenProperties, ElementOfSeq
  <1>2. /\ \A i \in 0..n : parts[i] \in Seq(Characters)
        /\ parts[0] = <<>>
        /\ \A i \in 1..n : parts[i] = parts[i - 1] \o chunks[i]
    BY DEF Pieces
  <1>3. 0 \in S
    <2>1. Reads(st, <<>>, st)
      BY ReadsNothing DEF Reading
    <2>2. SubSeq(w, 1, 0) = <<>>
      BY PrefixGrows
    <2>3. ReadUpTo(0)
      BY <1>2, <2>1, <2>2
    <2> QED
      BY <1>1, <2>3
  <1>4. ASSUME NEW i \in 0..n, i < n, i \in S PROVE i + 1 \in S
    <2>1. i + 1 \in 1..n /\ (i + 1) - 1 = i /\ i + 1 \in 0..n /\ i \in 0..n - 1 /\ i + 1 # 0
      BY <1>1, <1>4
    <2> DEFINE going == IF i = 0 THEN begun ELSE TRUE
    <2>2. PICK mid : Reads(st, parts[i], mid) /\ Reading(mid, args, SubSeq(w, 1, i), going, quote)
      BY <1>4
    <2> HIDE DEF going
    <2>3. PICK to : /\ Reads(mid, chunks[i + 1], to)
                    /\ Reading(to, args, Append(SubSeq(w, 1, i), w[i + 1]), TRUE, quote)
      BY <2>1, <2>2 DEF ReadAs
    <2>4. Append(SubSeq(w, 1, i), w[i + 1]) = SubSeq(w, 1, i + 1)
      BY <2>1, PrefixGrows
    <2>5. parts[i] \in Seq(Characters) /\ chunks[i + 1] \in Seq(Characters)
      BY <1>1, <1>2, <2>1
    <2>6. parts[i + 1] = parts[i] \o chunks[i + 1]
      BY <1>2, <2>1
    <2>7. Reads(st, parts[i + 1], to)
      BY <2>2, <2>3, <2>5, <2>6, ReadsBoth
    <2>8. ReadUpTo(i + 1)
      BY <2>1, <2>3, <2>4, <2>7
    <2> QED
      BY <2>1, <2>8
  <1>5. n \in S
    <2> HIDE DEF S, n
    <2> QED
      BY <1>1, <1>3, <1>4, InductionUpTo
  <1>6. ReadUpTo(n)
    BY <1>5
  <1>7. SubSeq(w, 1, n) = w /\ (n = 0 <=> w = <<>>)
    BY PrefixGrows, EmptySeq
  <1> QED
    BY <1>6, <1>7

LEMMA LiteralWordIsRead ==
    ASSUME NEW w \in Seq(Characters), NEW quote,
           \A i \in 1..Len(w) : ReadAs(<<w[i]>>, w[i], quote),
           NEW st, NEW args, NEW begun, Reading(st, args, <<>>, begun, quote)
    PROVE  \E to : /\ Reads(st, w, to)
                   /\ Reading(to, args, w, IF w = <<>> THEN begun ELSE TRUE, quote)
  <1> DEFINE n == Len(w)
             chunks == [i \in 1..n |-> <<w[i]>>]
             parts == [i \in 0..n |-> SubSeq(w, 1, i)]
  <1>1. n \in Nat /\ \A i \in 1..n : w[i] \in Characters
    BY LenProperties, ElementOfSeq
  <1>2. \A i \in 1..n : <<w[i]>> \in Seq(Characters)
    BY <1>1
  <1>3. /\ chunks \in Seq(Seq(Characters)) /\ Len(chunks) = n
        /\ \A i \in 1..n : chunks[i] = <<w[i]>>
    BY <1>1, <1>2
  <1>4. Pieces(parts, chunks)
    <2>1. \A i \in 0..n : SubSeq(w, 1, i) \in Seq(Characters)
      BY PrefixGrows
    <2>2. parts \in [0..n -> Seq(Characters)] /\ \A i \in 0..n : parts[i] = SubSeq(w, 1, i)
      BY <2>1
    <2>3. 0 \in 0..n /\ SubSeq(w, 1, 0) = <<>>
      BY <1>1, PrefixGrows
    <2>4. ASSUME NEW i \in 1..n PROVE parts[i] = parts[i - 1] \o chunks[i]
      <3>1. i \in 0..n /\ i - 1 \in 0..n /\ 1 \in 1..n /\ i \in 1..n
        BY <1>1
      <3>2. SubSeq(w, 1, i) = SubSeq(w, 1, i - 1) \o <<w[i]>>
        BY <3>1, SubSeqRecursiveSecond
      <3> HIDE DEF parts, chunks
      <3> QED
        BY <1>3, <2>2, <3>1, <3>2
    <2> HIDE DEF parts, chunks
    <2> QED
      BY <1>3, <2>2, <2>3, <2>4 DEF Pieces
  <1>5. parts[n] = w
    <2>1. n \in 0..n /\ SubSeq(w, 1, n) = w
      BY <1>1, PrefixGrows
    <2> QED
      BY <2>1
  <1>6. \A i \in 1..n : ReadAs(chunks[i], w[i], quote)
    BY <1>3
  <1> HIDE DEF parts, chunks
  <1>7. \E to : /\ Reads(st, parts[n], to)
                /\ Reading(to, args, w, IF w = <<>> THEN begun ELSE TRUE, quote)
    BY <1>3, <1>4, <1>6, ChunksAreRead
  <1> QED
    BY <1>5, <1>7

LEMMA EscapedWordIsRead ==
    ASSUME NEW w \in Seq(Characters), NEW escaped, NEW quote \in {"unquoted", "double"},
           \/ quote = "unquoted" /\ escaped = Meaningful
           \/ quote = "double" /\ escaped = {"\"", "\\"},
           NEW st, NEW args, NEW begun, Reading(st, args, <<>>, begun, quote)
    PROVE  \E to : /\ Reads(st, Escape(w, escaped), to)
                   /\ Reading(to, args, w, IF w = <<>> THEN begun ELSE TRUE, quote)
  <1> DEFINE n == Len(w)
             chunks == [i \in 1..n |-> EscapeChar(w[i], escaped)]
  <1>1. PICK parts : Pieces(parts, chunks) /\ Escape(w, escaped) = parts[n]
    BY EscapeIs
  <1>2. n \in Nat /\ \A i \in 1..n : w[i] \in Characters
    BY LenProperties, ElementOfSeq
  <1>3. \A i \in 1..n : EscapeChar(w[i], escaped) \in Seq(Characters)
    BY <1>2, EscapeCharIsText
  <1>4. /\ chunks \in Seq(Seq(Characters)) /\ Len(chunks) = n
        /\ \A i \in 1..n : chunks[i] = EscapeChar(w[i], escaped)
    <2>1. n \in Nat
      BY <1>2
    <2> HIDE DEF n
    <2> QED
      BY ONLY <1>3, <2>1
  <1> HIDE DEF chunks
  <1>5. ASSUME NEW i \in 1..n PROVE ReadAs(chunks[i], w[i], quote)
    <2>1. w[i] \in Characters
      BY <1>2
    <2>2. CASE w[i] \in escaped
      <3>1. chunks[i] = <<"\\", w[i]>>
        BY <1>4, <2>2 DEF EscapeChar
      <3> QED
        BY <2>1, <3>1, EscapeIsRead
    <2>3. CASE w[i] \notin escaped
      <3>1. chunks[i] = <<w[i]>>
        BY <1>4, <2>3 DEF EscapeChar
      <3>2. \/ quote = "double" /\ w[i] \notin {"\"", "\\"}
            \/ quote = "unquoted" /\ w[i] \notin Meaningful
        BY <2>3
      <3>3. ReadAs(<<w[i]>>, w[i], quote)
        BY <2>1, <3>2, LiteralIsRead
      <3> QED
        BY <3>1, <3>3
    <2> QED
      BY <2>2, <2>3
  <1>6. \E to : /\ Reads(st, parts[n], to)
                /\ Reading(to, args, w, IF w = <<>> THEN begun ELSE TRUE, quote)
    BY <1>1, <1>4, <1>5, ChunksAreRead
  <1> QED
    BY <1>1, <1>6

\* A word that is written as it is, up to an operator if there is one.
LEMMA PlainWordIsRead ==
    ASSUME NEW w \in Seq(Characters), w # <<>>,
           \A i \in 1..Len(w) : w[i] = Ordinary \/ w[i] \in UNSUPPORTED_SHELL_SYNTAX,
           NEW st, NEW args, Reading(st, args, <<>>, FALSE, "unquoted")
    PROVE  \E to : /\ Reads(st, w, to)
                   /\ IF \E i \in 1..Len(w) : w[i] \in UNSUPPORTED_SHELL_SYNTAX
                      THEN Refusing(to) ELSE Reading(to, args, w, TRUE, "unquoted")
  <1> DEFINE n == Len(w)
             At == {i \in 1..n : w[i] \in UNSUPPORTED_SHELL_SYNTAX}
  <1>1. n \in Nat /\ \A i \in 1..n : w[i] \in Characters
    BY LenProperties, ElementOfSeq
  <1>2. ReadAs(<<Ordinary>>, Ordinary, "unquoted")
    <2>1. Ordinary \in Characters /\ Ordinary \notin Meaningful
      BY ExecuteAssumption DEF Characters
    <2> QED
      BY <2>1, LiteralIsRead
  <1>3. CASE At = {}
    <2>1. \A i \in 1..n : ReadAs(<<w[i]>>, w[i], "unquoted")
      BY <1>2, <1>3
    <2>2. \E to : Reads(st, w, to) /\ Reading(to, args, w, IF w = <<>> THEN FALSE ELSE TRUE, "unquoted")
      BY <2>1, LiteralWordIsRead
    <2>3. ~ \E i \in 1..n : w[i] \in UNSUPPORTED_SHELL_SYNTAX
      BY <1>3
    <2> QED
      BY <2>2, <2>3
  <1>4. CASE At # {}
    <2>1. At \in SUBSET Nat
      BY <1>1
    <2>2. PICK m \in At : \A k \in At : m <= k
      BY <1>4, <2>1, LeastExists
    <2>3. m \in 1..n /\ w[m] \in UNSUPPORTED_SHELL_SYNTAX /\ m - 1 \in 0..n
          /\ \A i \in 1..m - 1 : w[i] = Ordinary
      BY <1>1, <2>2
    <2> DEFINE a == SubSeq(w, 1, m - 1)
               b == SubSeq(w, m + 1, n)
    <2>4. a \in Seq(Characters) /\ Len(a) = m - 1 /\ \A i \in 1..m - 1 : a[i] = Ordinary
      <3>1. 1 \in Int /\ m - 1 \in Int /\ \A i \in 1..m - 1 : w[i] \in Characters
        BY <1>1, <2>3
      <3>2. /\ a \in Seq(Characters)
            /\ Len(a) = IF 1 <= m - 1 THEN (m - 1) - 1 + 1 ELSE 0
            /\ \A i \in 1..(m - 1) - 1 + 1 : a[i] = w[1 + i - 1]
        BY <3>1, SubSeqProperties
      <3> HIDE DEF a
      <3> QED
        BY <1>1, <2>3, <3>2
    <2>5. b \in Seq(Characters)
      <3>1. m + 1 \in Int /\ n \in Int /\ \A i \in m + 1..n : w[i] \in Characters
        BY <1>1, <2>3
      <3> QED
        BY <3>1, SubSeqProperties
    <2>6. w = SubSeq(w, 1, m) \o b /\ SubSeq(w, 1, m) = a \o <<w[m]>>
      <3>1. /\ 1 \in 1..n /\ m \in 1..n /\ 1 \in 1..n + 1 /\ m \in 1 - 1..n /\ n \in m..n
            /\ n \in 1..n
        BY <1>1, <2>3
      <3>2. SubSeq(w, 1, m) = a \o <<w[m]>>
        BY <3>1, SubSeqRecursiveSecond
      <3>3. SubSeq(w, 1, m) \o b = SubSeq(w, 1, n)
        BY <3>1, ConcatAdjacentSubSeq
      <3>4. SubSeq(w, 1, n) = w
        BY SubSeqFull
      <3> QED
        BY <3>2, <3>3, <3>4
    <2> HIDE DEF a, b
    <2>7. PICK mid : Reads(st, a, mid) /\ Reading(mid, args, a, IF a = <<>> THEN FALSE ELSE TRUE, "unquoted")
      <3>1. \A i \in 1..Len(a) : ReadAs(<<a[i]>>, a[i], "unquoted")
        BY <1>2, <2>4
      <3> QED
        BY <2>4, <3>1, LiteralWordIsRead
    <2> DEFINE end == ParseChar(mid, w[m])
    <2>8. Refusing(end)
      BY <2>3, <2>7, OperatorIsRefused
    <2>9. Reads(mid, <<w[m]>>, end)
      <3>1. mid \in ParseState /\ w[m] \in Characters
        BY <1>1, <2>3, <2>7 DEF Reading
      <3> QED
        BY <3>1, ReadsOne
    <2> HIDE DEF end
    <2>10. Reads(end, b, end)
      BY <2>5, <2>8, RefusedReads
    <2>11. <<w[m]>> \in Seq(Characters)
      BY <1>1, <2>3
    <2>12. Reads(st, a \o <<w[m]>>, end) /\ a \o <<w[m]>> \in Seq(Characters)
      BY <2>4, <2>7, <2>9, <2>11, ReadsBoth, ConcatProperties
    <2>13. Reads(st, w, end)
      BY <2>5, <2>6, <2>10, <2>12, ReadsBoth
    <2> QED
      BY <2>3, <2>8, <2>13
  <1> QED
    BY <1>3, <1>4

\* The word holds an operator that nothing protects.
Refuses(w, how) == how = "plain" /\ ToSet(w) \cap UNSUPPORTED_SHELL_SYNTAX # {}

LEMMA QuoteReads ==
    ASSUME NEW st, NEW args, NEW letters, NEW begun, NEW quote, NEW next, NEW char,
           Reading(st, args, letters, begun, quote),
           \/ quote = "unquoted" /\ char = "'" /\ next = "single"
           \/ quote = "unquoted" /\ char = "\"" /\ next = "double"
           \/ quote = "single" /\ char = "'" /\ next = "unquoted"
           \/ quote = "double" /\ char = "\"" /\ next = "unquoted"
    PROVE  \E to : Reads(st, <<char>>, to) /\ Reading(to, args, letters, TRUE, next)
  <1>1. st \in ParseState /\ char \in Characters
    BY CharsAre DEF Reading
  <1>2. Reads(st, <<char>>, ParseChar(st, char))
    BY <1>1, ReadsOne
  <1>3. Reading(ParseChar(st, char), args, letters, TRUE, next)
    BY QuoteIsRead
  <1> QED
    BY <1>2, <1>3

\* A word in whatever style.
LEMMA WordIsRead ==
    ASSUME NEW w \in Seq(Characters), NEW how \in Styles, Writable(w, how),
           NEW st, NEW args, Reading(st, args, <<>>, FALSE, "unquoted")
    PROVE  \E to : /\ Reads(st, Write(w, how), to)
                   /\ IF Refuses(w, how) THEN Refusing(to) ELSE Reading(to, args, w, TRUE, "unquoted")
  <1>1. Len(w) \in Nat /\ DOMAIN w = 1..Len(w) /\ \A i \in 1..Len(w) : w[i] \in Characters
    BY LenProperties, ElementOfSeq
  <1>2. CASE how = "plain"
    <2>1. w # <<>> /\ ToSet(w) \subseteq {Ordinary} \cup UNSUPPORTED_SHELL_SYNTAX
      BY <1>2 DEF Writable
    <2>2. \A i \in 1..Len(w) : w[i] = Ordinary \/ w[i] \in UNSUPPORTED_SHELL_SYNTAX
      BY <1>1, <2>1 DEF ToSet
    <2>3. Refuses(w, how) <=> \E i \in 1..Len(w) : w[i] \in UNSUPPORTED_SHELL_SYNTAX
      BY <1>1, <1>2 DEF Refuses, ToSet
    <2>4. Write(w, how) = w
      BY <1>2 DEF Write
    <2> QED
      BY <2>1, <2>2, <2>3, <2>4, PlainWordIsRead
  <1>3. CASE how = "single"
    <2>1. /\ Write(w, how) = (<<"'">> \o w) \o <<"'">> /\ ~Refuses(w, how)
          /\ \A i \in 1..Len(w) : w[i] # "'"
      BY <1>1, <1>3 DEF Write, Writable, Refuses, ToSet
    <2>2. PICK open : Reads(st, <<"'">>, open) /\ Reading(open, args, <<>>, TRUE, "single")
      BY QuoteReads
    <2>3. \A i \in 1..Len(w) : ReadAs(<<w[i]>>, w[i], "single")
      BY <1>1, <2>1, LiteralIsRead
    <2>4. PICK inner : Reads(open, w, inner) /\ Reading(inner, args, w, TRUE, "single")
      <3>1. \E to : Reads(open, w, to) /\ Reading(to, args, w, IF w = <<>> THEN TRUE ELSE TRUE, "single")
        BY <2>2, <2>3, LiteralWordIsRead
      <3> QED
        BY <3>1
    <2>5. PICK close : Reads(inner, <<"'">>, close) /\ Reading(close, args, w, TRUE, "unquoted")
      BY <2>4, QuoteReads
    <2>6. <<"'">> \in Seq(Characters) /\ <<"'">> \o w \in Seq(Characters)
      BY OneCharacter, ConcatProperties
    <2>7. Reads(st, <<"'">> \o w, inner)
      BY <2>2, <2>4, <2>6, ReadsBoth
    <2>8. Reads(st, (<<"'">> \o w) \o <<"'">>, close)
      BY <2>5, <2>6, <2>7, ReadsBoth
    <2> QED
      BY <2>1, <2>5, <2>8
  <1>4. CASE how = "double"
    <2> DEFINE e == Escape(w, {"\"", "\\"})
    <2>1. Write(w, how) = (<<"\"">> \o e) \o <<"\"">> /\ ~Refuses(w, how)
      BY <1>4 DEF Write, Refuses
    <2>2. PICK open : Reads(st, <<"\"">>, open) /\ Reading(open, args, <<>>, TRUE, "double")
      BY QuoteReads
    <2>3. PICK inner : Reads(open, e, inner) /\ Reading(inner, args, w, TRUE, "double")
      <3>1. \E to : Reads(open, e, to) /\ Reading(to, args, w, IF w = <<>> THEN TRUE ELSE TRUE, "double")
        BY <2>2, EscapedWordIsRead
      <3> QED
        BY <3>1
    <2>4. PICK close : Reads(inner, <<"\"">>, close) /\ Reading(close, args, w, TRUE, "unquoted")
      BY <2>3, QuoteReads
    <2>5. e \in Seq(Characters)
      BY EscapeIsText
    <2> HIDE DEF e
    <2>6. <<"\"">> \in Seq(Characters) /\ <<"\"">> \o e \in Seq(Characters)
      BY <2>5, OneCharacter, ConcatProperties
    <2>7. Reads(st, <<"\"">> \o e, inner)
      BY <2>2, <2>3, <2>5, <2>6, ReadsBoth
    <2>8. Reads(st, (<<"\"">> \o e) \o <<"\"">>, close)
      BY <2>4, <2>6, <2>7, ReadsBoth
    <2> QED
      BY <2>1, <2>4, <2>8
  <1>5. CASE how = "escaped"
    <2>1. Write(w, how) = Escape(w, Meaningful) /\ ~Refuses(w, how) /\ w # <<>>
      BY <1>5 DEF Write, Writable, Refuses
    <2>2. \E to : /\ Reads(st, Escape(w, Meaningful), to)
                  /\ Reading(to, args, w, IF w = <<>> THEN FALSE ELSE TRUE, "unquoted")
      BY EscapedWordIsRead
    <2> QED
      BY <2>1, <2>2
  <1> QED
    BY <1>2, <1>3, <1>4, <1>5 DEF Styles

---------------------------------------------------------------------------
(***************************************************************************)
(* Nothing is trimmed: no word begins with a bare space, and none but one  *)
(* with an escaped space at its end ends in one.                           *)
(***************************************************************************)

\* The first and the last character of an escaped word.
LEMMA EscapeEnds ==
    ASSUME NEW w \in Seq(Characters), NEW escaped, w # <<>>
    PROVE  LET text == Escape(w, escaped)
           IN  /\ text # <<>>
               /\ text[1] = IF w[1] \in escaped THEN "\\" ELSE w[1]
               /\ text[Len(text)] = w[Len(w)]
  <1> DEFINE n == Len(w)
             chunks == [i \in 1..n |-> EscapeChar(w[i], escaped)]
             head == IF w[1] \in escaped THEN "\\" ELSE w[1]
  <1>1. PICK parts : Pieces(parts, chunks) /\ Escape(w, escaped) = parts[n]
    BY EscapeIs
  <1>2. n \in Nat /\ n >= 1 /\ \A i \in 1..n : w[i] \in Characters
    BY LenProperties, ElementOfSeq, EmptySeq
  <1>3. /\ Len(chunks) = n
        /\ \A i \in 1..n : chunks[i] = EscapeChar(w[i], escaped)
    <2>1. \A i \in 1..n : EscapeChar(w[i], escaped) \in Seq(Characters)
      BY <1>2, EscapeCharIsText
    <2>2. n \in Nat
      BY <1>2
    <2> HIDE DEF n
    <2> QED
      BY ONLY <2>1, <2>2
  <1> HIDE DEF chunks
  <1>4. ASSUME NEW i \in 1..n
        PROVE  /\ chunks[i] \in Seq(Characters) /\ chunks[i] # <<>>
               /\ chunks[i][Len(chunks[i])] = w[i]
    <2> DEFINE c == EscapeChar(w[i], escaped)
    <2>1. w[i] \in Characters
      BY <1>2
    <2>2. c \in Seq(Characters) /\ c # <<>> /\ c[Len(c)] = w[i]
      BY <2>1, EscapeCharIsText
    <2>3. chunks[i] = c
      BY <1>3
    <2> HIDE DEF c
    <2> QED
      BY <2>2, <2>3
  <1>5. chunks[1][1] = head
    <2> DEFINE c == EscapeChar(w[1], escaped)
    <2>1. 1 \in 1..n /\ w[1] \in Characters
      BY <1>2
    <2>2. c[1] = head
      BY <2>1, EscapeCharIsText
    <2>3. chunks[1] = c
      BY <1>3, <2>1
    <2> HIDE DEF c, head
    <2> QED
      BY <2>2, <2>3
  <1>6. /\ \A i \in 0..n : parts[i] \in Seq(Characters)
        /\ parts[0] = <<>>
        /\ \A i \in 1..n : parts[i] = parts[i - 1] \o chunks[i]
    BY <1>1, <1>3 DEF Pieces
  <1> HIDE DEF head
  <1> DEFINE S == {i \in 0..n : i = 0 \/ (parts[i] # <<>> /\ parts[i][1] = head)}
  <1>7. 0 \in S
    BY <1>2
  <1>8. ASSUME NEW i \in 0..n, i < n, i \in S PROVE i + 1 \in S
    <2>1. i + 1 \in 1..n /\ (i + 1) - 1 = i /\ i + 1 \in 0..n
      BY <1>2, <1>8
    <2>2. parts[i + 1] = parts[i] \o chunks[i + 1]
      BY <1>6, <2>1
    <2>3. /\ parts[i] \in Seq(Characters)
          /\ chunks[i + 1] \in Seq(Characters) /\ chunks[i + 1] # <<>>
      BY <1>4, <1>6, <2>1
    <2>4. CASE i = 0
      <3>1. parts[i + 1] = <<>> \o chunks[1] /\ chunks[1] \in Seq(Characters)
        <4>1. i + 1 = 1
          BY <2>4
        <4>2. parts[i] = <<>>
          BY <1>6, <2>4
        <4> QED
          BY <2>2, <2>3, <4>1, <4>2
      <3>2. parts[i + 1] = chunks[1]
        BY <3>1, ConcatEmptySeq
      <3> QED
        BY <1>5, <2>1, <2>3, <2>4, <3>2
    <2>5. CASE i # 0
      <3>1. parts[i] # <<>> /\ parts[i][1] = head
        BY <1>8, <2>5
      <3>2. parts[i + 1] # <<>> /\ parts[i + 1][1] = head
        <4> DEFINE a == parts[i]
                   b == chunks[i + 1]
        <4>1. a \in Seq(Characters) /\ b \in Seq(Characters) /\ a # <<>> /\ a[1] = head
          BY <2>3, <3>1
        <4>2. parts[i + 1] = a \o b
          BY <2>2
        <4> HIDE DEF a, b
        <4>3. a \o b # <<>> /\ (a \o b)[1] = a[1]
          BY <4>1, FirstOfConcat
        <4> QED
          BY <4>1, <4>2, <4>3
      <3> QED
        BY <2>1, <3>2
    <2> QED
      BY <2>4, <2>5
  <1>9. n \in S
    <2> HIDE DEF S, n
    <2> QED
      BY <1>2, <1>7, <1>8, InductionUpTo
  <1>10. parts[n] # <<>> /\ parts[n][1] = head
    BY <1>2, <1>9
  <1>11. parts[n][Len(parts[n])] = w[n]
    <2>1. n \in 1..n /\ n - 1 \in 0..n
      BY <1>2
    <2>2. /\ parts[n] = parts[n - 1] \o chunks[n]
          /\ parts[n - 1] \in Seq(Characters)
          /\ chunks[n] \in Seq(Characters) /\ chunks[n] # <<>>
          /\ chunks[n][Len(chunks[n])] = w[n]
      BY <1>4, <1>6, <2>1
    <2> DEFINE a == parts[n - 1]
               b == chunks[n]
    <2>3. /\ a \in Seq(Characters) /\ b \in Seq(Characters) /\ b # <<>>
          /\ b[Len(b)] = w[n] /\ parts[n] = a \o b
      BY <2>2
    <2> HIDE DEF a, b, n
    <2>4. (a \o b)[Len(a \o b)] = b[Len(b)]
      BY <2>3, LastOfConcat
    <2> QED
      BY <2>3, <2>4
  <1> QED
    BY <1>1, <1>10, <1>11 DEF head

LEMMA WriteEnds ==
    ASSUME NEW w \in Seq(Characters), NEW how \in Styles, Writable(w, how)
    PROVE  LET text == Write(w, how)
           IN  /\ text # <<>>
               /\ text[1] # " "
               /\ text[Len(text)] = " " => how = "escaped" /\ w # <<>> /\ w[Len(w)] = " "
  <1> DEFINE text == Write(w, how)
  <1>1. /\ Len(w) \in Nat /\ DOMAIN w = 1..Len(w) /\ \A i \in 1..Len(w) : w[i] \in Characters
        /\ w # <<>> => 1 \in 1..Len(w) /\ Len(w) \in 1..Len(w)
    BY LenProperties, ElementOfSeq, EmptySeq
  <1>2. CASE how = "plain"
    <2>1. w # <<>> /\ ToSet(w) \subseteq {Ordinary} \cup UNSUPPORTED_SHELL_SYNTAX /\ text = w
      BY <1>2 DEF Writable, Write
    <2>2. \A i \in 1..Len(w) : w[i] # " "
      BY <1>1, <2>1, ExecuteAssumption DEF ToSet, Meaningful, UNSUPPORTED_SHELL_SYNTAX
    <2> QED
      BY <1>1, <2>1, <2>2
  <1>3. CASE how \in {"single", "double"}
    <2>1. PICK q \in {"'", "\""}, inner \in Seq(Characters) : text = (<<q>> \o inner) \o <<q>>
      BY <1>3, EscapeIsText DEF Write
    <2>2. <<q>> \in Seq(Characters) /\ <<q>> # <<>> /\ Len(<<q>>) = 1 /\ <<q>>[1] = q
      BY OneCharacter
    <2>3. /\ <<q>> \o inner \in Seq(Characters) /\ <<q>> \o inner # <<>>
          /\ (<<q>> \o inner)[1] = q
      BY <2>2, FirstOfConcat, ConcatProperties
    <2>4. text # <<>> /\ text[1] = q /\ text[Len(text)] = q
      <3> DEFINE a == <<q>> \o inner
                 b == <<q>>
      <3>1. /\ a \in Seq(Characters) /\ b \in Seq(Characters) /\ a # <<>> /\ b # <<>>
            /\ a[1] = q /\ b[Len(b)] = q
        BY <2>2, <2>3
      <3>2. text = a \o b
        BY <2>1
      <3> HIDE DEF a, b, text
      <3>3. a \o b # <<>> /\ (a \o b)[1] = a[1]
        BY <3>1, FirstOfConcat
      <3>4. (a \o b)[Len(a \o b)] = b[Len(b)]
        BY <3>1, LastOfConcat
      <3> QED
        BY <3>1, <3>2, <3>3, <3>4
    <2> QED
      BY <2>1, <2>4
  <1>4. CASE how = "escaped"
    <2>1. w # <<>> /\ text = Escape(w, Meaningful)
      BY <1>4 DEF Writable, Write
    <2>2. /\ text # <<>>
          /\ text[1] = IF w[1] \in Meaningful THEN "\\" ELSE w[1]
          /\ text[Len(text)] = w[Len(w)]
      BY <2>1, EscapeEnds
    <2>3. text[1] # " "
      BY <2>2 DEF Meaningful
    <2> QED
      BY <1>4, <2>1, <2>2, <2>3
  <1> QED
    BY <1>2, <1>3, <1>4 DEF Styles

\* A text that neither begins nor ends with a space is left as it is.
LEMMA TrimKeeps ==
    ASSUME NEW text \in Seq(Characters), text # <<>>, text[1] # " ", text[Len(text)] # " "
    PROVE  Trim(text) = text
  <1> DEFINE n == Len(text)
             kept == {i \in DOMAIN text : text[i] # " "}
  <1>1. n \in Nat /\ 1 \in 1..n /\ n \in 1..n /\ DOMAIN text = 1..n
    BY NotEmpty, LenProperties
  <1>2. 1 \in kept /\ n \in kept /\ kept \subseteq 1..n
    <2> HIDE DEF n
    <2>1. text[1] # " " /\ text[n] # " "
      BY DEF n
    <2> QED
      BY <1>1, <2>1
  <1> HIDE DEF kept, n
  <1>3. Min(kept) = 1 /\ Max(kept) = n
    BY <1>1, <1>2, ExtremesAtEnds
  <1>4. Trim(text) = SubSeq(text, 1, n)
    <2>1. kept # {}
      BY <1>2
    <2> QED
      BY <1>3, <2>1 DEF Trim, kept
  <1> QED
    BY <1>4, SubSeqFull DEF n

\* The ends of the text are those of its first and its last word.
LEMMA TextEnds ==
    ASSUME NEW ws \in Seq(Seq(Characters)), NEW how \in Styles, ws # <<>>,
           \A i \in 1..Len(ws) : Writable(ws[i], how)
    PROVE  LET text == Text(ws, how)
               last == ws[Len(ws)]
           IN  /\ text \in Seq(Characters) /\ text # <<>>
               /\ text[1] # " "
               /\ text[Len(text)] = " " => how = "escaped" /\ last # <<>> /\ last[Len(last)] = " "
  <1> DEFINE n == Len(ws)
  <1>1. PICK parts : Texts(parts, ws, how) /\ Text(ws, how) = parts[n]
    BY TextIs
  <1>2. n \in Nat /\ n \in 1..n /\ \A i \in 1..n : ws[i] \in Seq(Characters)
    BY NotEmpty, ElementOfSeq
  <1> DEFINE Before(i) == IF i = 1 THEN <<>> ELSE parts[i - 1] \o <<" ">>
             Word(i) == Write(ws[i], how)
  <1>3. /\ \A i \in 0..n : parts[i] \in Seq(Characters)
        /\ \A i \in 1..n : parts[i] = Before(i) \o Word(i)
    BY <1>1 DEF Texts
  <1>4. ASSUME NEW i \in 1..n
        PROVE  /\ Word(i) \in Seq(Characters) /\ Word(i) # <<>> /\ Word(i)[1] # " "
               /\ Word(i)[Len(Word(i))] = " " =>
                     how = "escaped" /\ ws[i] # <<>> /\ ws[i][Len(ws[i])] = " "
    <2>1. ws[i] \in Seq(Characters) /\ Writable(ws[i], how)
      BY <1>2
    <2> QED
      BY <2>1, WriteIsText, WriteEnds
  <1> HIDE DEF Word
  <1>5. <<>> \in Seq(Characters) /\ <<" ">> \in Seq(Characters)
    BY EmptySeq, OneCharacter
  <1>6. ASSUME NEW i \in 1..n PROVE Before(i) \in Seq(Characters)
    <2>1. i - 1 \in 0..n
      BY <1>2
    <2>2. parts[i - 1] \o <<" ">> \in Seq(Characters)
      BY <1>3, <1>5, <2>1, ConcatProperties
    <2> QED
      BY <1>5, <2>2
  <1> DEFINE S == {k \in 0..n : k = 0 \/ (parts[k] # <<>> /\ parts[k][1] # " ")}
  <1>7. 0 \in S
    BY <1>2
  <1>8. ASSUME NEW k \in 0..n, k < n, k \in S PROVE k + 1 \in S
    <2>1. k + 1 \in 1..n /\ (k + 1) - 1 = k /\ k + 1 \in 0..n /\ (k + 1 = 1 <=> k = 0)
      <3> HIDE DEF S, n
      <3> QED
        BY <1>2, <1>8
    <2> DEFINE word == Word(k + 1)
               part == parts[k]
    <2>2. word \in Seq(Characters) /\ word # <<>> /\ word[1] # " " /\ part \in Seq(Characters)
      BY <1>3, <1>4, <2>1
    <2>3. parts[k + 1] = (IF k = 0 THEN <<>> ELSE part \o <<" ">>) \o word
      <3>1. parts[k + 1] = (IF k + 1 = 1 THEN <<>> ELSE parts[(k + 1) - 1] \o <<" ">>) \o Word(k + 1)
        BY <1>3, <2>1
      <3> QED
        BY <2>1, <3>1
    <2>4. k # 0 => part # <<>> /\ part[1] # " "
      BY <1>8
    <2> HIDE DEF word, part
    <2>5. CASE k = 0
      <3>1. parts[k + 1] = word
        BY <2>2, <2>3, <2>5, ConcatEmptySeq
      <3> QED
        BY <2>1, <2>2, <3>1
    <2>6. CASE k # 0
      <3> DEFINE a == part \o <<" ">>
      <3>1. a \in Seq(Characters) /\ a # <<>> /\ a[1] = part[1]
        BY <1>5, <2>2, <2>4, <2>6, FirstOfConcat, ConcatProperties
      <3>2. parts[k + 1] = a \o word
        BY <2>3, <2>6
      <3> HIDE DEF a
      <3>3. a \o word # <<>> /\ (a \o word)[1] = a[1]
        BY <2>2, <3>1, FirstOfConcat
      <3> QED
        BY <2>1, <2>4, <2>6, <3>1, <3>2, <3>3
    <2> QED
      BY <2>5, <2>6
  <1>9. n \in S
    <2> HIDE DEF S, n
    <2> QED
      BY <1>2, <1>7, <1>8, InductionUpTo
  <1>10. parts[n] \in Seq(Characters) /\ parts[n] # <<>> /\ parts[n][1] # " "
    <2>1. n \in 0..n /\ n # 0
      BY <1>2
    <2> QED
      BY <1>3, <1>9, <2>1
  <1>11. parts[n][Len(parts[n])] = Word(n)[Len(Word(n))]
    <2> DEFINE a == Before(n)
               b == Word(n)
    <2>1. /\ a \in Seq(Characters) /\ b \in Seq(Characters) /\ b # <<>>
          /\ parts[n] = a \o b
      BY <1>2, <1>3, <1>4, <1>6
    <2> HIDE DEF a, b
    <2>2. (a \o b)[Len(a \o b)] = b[Len(b)]
      BY <2>1, LastOfConcat
    <2> QED
      BY <2>1, <2>2 DEF b
  <1> QED
    BY <1>1, <1>2, <1>4, <1>10, <1>11

\* The words so far are read, unless one of them has an operator.
LEMMA TextReads ==
    ASSUME NEW ws \in Seq(Seq(Characters)), NEW how \in Styles, ws # <<>>,
           \A i \in 1..Len(ws) : Writable(ws[i], how)
    PROVE  \E to : /\ Reads(Start, Text(ws, how), to)
                   /\ IF \E i \in 1..Len(ws) : Refuses(ws[i], how) THEN Refusing(to)
                      ELSE Reading(to, SubSeq(ws, 1, Len(ws) - 1), ws[Len(ws)], TRUE, "unquoted")
  <1> DEFINE n == Len(ws)
  <1>1. PICK parts : Texts(parts, ws, how) /\ Text(ws, how) = parts[n]
    BY TextIs
  <1>2. n \in Nat /\ n \in 1..n /\ \A i \in 1..n : ws[i] \in Seq(Characters)
    BY NotEmpty, ElementOfSeq
  <1> DEFINE Word(i) == Write(ws[i], how)
             Refused(k) == \E i \in 1..k : Refuses(ws[i], how)
             ReadUpTo(k) == \E to :
                 /\ Reads(Start, parts[k], to)
                 /\ IF Refused(k) THEN Refusing(to)
                    ELSE Reading(to, SubSeq(ws, 1, k - 1), ws[k], TRUE, "unquoted")
             S == {k \in 0..n : k = 0 \/ ReadUpTo(k)}
  <1>3. /\ \A i \in 0..n : parts[i] \in Seq(Characters)
        /\ \A i \in 1..n : parts[i] = (IF i = 1 THEN <<>> ELSE parts[i - 1] \o <<" ">>) \o Word(i)
    BY <1>1 DEF Texts
  <1>4. \A i \in 1..n : Word(i) \in Seq(Characters)
    BY <1>2, WriteIsText
  <1>5. ASSUME NEW i \in 1..n, NEW st, NEW args, Reading(st, args, <<>>, FALSE, "unquoted")
        PROVE  \E to : /\ Reads(st, Word(i), to)
                       /\ IF Refuses(ws[i], how) THEN Refusing(to)
                          ELSE Reading(to, args, ws[i], TRUE, "unquoted")
    <2>1. ws[i] \in Seq(Characters) /\ Writable(ws[i], how)
      BY <1>2
    <2> QED
      BY <1>5, <2>1, WordIsRead
  <1> HIDE DEF Word
  <1>6. 0 \in S
    BY <1>2
  <1>7. ASSUME NEW k \in 0..n, k < n, k \in S PROVE k + 1 \in S
    <2>1. k + 1 \in 1..n /\ (k + 1) - 1 = k /\ k + 1 \in 0..n /\ k + 1 # 0 /\ (k + 1 = 1 <=> k = 0)
      <3> HIDE DEF S, n
      <3> QED
        BY <1>2, <1>7
    <2> DEFINE word == Word(k + 1)
    <2>2. word \in Seq(Characters) /\ parts[k] \in Seq(Characters)
      BY <1>3, <1>4, <2>1
    <2>3. parts[k + 1] = (IF k = 0 THEN <<>> ELSE parts[k] \o <<" ">>) \o word
      <3>1. parts[k + 1] = (IF k + 1 = 1 THEN <<>> ELSE parts[(k + 1) - 1] \o <<" ">>) \o Word(k + 1)
        BY <1>3, <2>1
      <3> QED
        BY <2>1, <3>1
    <2>4. Refused(k + 1) <=> Refused(k) \/ Refuses(ws[k + 1], how)
      <3>1. \A i : i \in 1..k + 1 <=> i \in 1..k \/ i = k + 1
        BY <1>2
      <3> QED
        BY <3>1
    <2>5. ASSUME NEW st, Reading(st, SubSeq(ws, 1, k), <<>>, FALSE, "unquoted")
          PROVE  \E to : /\ Reads(st, word, to)
                         /\ IF Refuses(ws[k + 1], how) THEN Refusing(to)
                            ELSE Reading(to, SubSeq(ws, 1, k), ws[k + 1], TRUE, "unquoted")
      BY <1>5, <2>1, <2>5
    <2> HIDE DEF word, Refused
    <2>6. CASE k = 0
      <3>1. parts[1] = word
        BY <2>2, <2>3, <2>6, ConcatEmptySeq
      <3>2. Reading(Start, SubSeq(ws, 1, 0), <<>>, FALSE, "unquoted")
        <4>1. SubSeq(ws, 1, 0) = <<>>
          BY PrefixGrows
        <4>2. Start \in ParseState
          BY EmptySeq DEF Start, ParseState
        <4> QED
          BY <4>1, <4>2 DEF Reading, Start
      <3>3. PICK to : /\ Reads(Start, word, to)
                      /\ IF Refuses(ws[k + 1], how) THEN Refusing(to)
                         ELSE Reading(to, SubSeq(ws, 1, k), ws[k + 1], TRUE, "unquoted")
        BY <2>5, <2>6, <3>2
      <3>4. ~Refused(k)
        BY <2>6 DEF Refused
      <3>5. ReadUpTo(k + 1)
        <4>1. parts[k + 1] = word
          BY <2>1, <2>6, <3>1
        <4> QED
          BY <2>1, <2>4, <3>3, <3>4, <4>1
      <3> QED
        BY <2>1, <3>5
    <2>7. CASE k # 0 /\ Refused(k)
      <3>1. PICK st : Reads(Start, parts[k], st) /\ Refusing(st)
        BY <1>7, <2>7
      <3>2. <<" ">> \in Seq(Characters)
        BY OneCharacter
      <3>3. Reads(st, <<" ">>, st) /\ Reads(st, word, st)
        BY <2>2, <3>1, <3>2, RefusedReads
      <3>4. Reads(Start, parts[k] \o <<" ">>, st) /\ parts[k] \o <<" ">> \in Seq(Characters)
        BY <2>2, <3>1, <3>2, <3>3, ReadsBoth, ConcatProperties
      <3>5. Reads(Start, parts[k + 1], st)
        BY <2>2, <2>3, <2>7, <3>3, <3>4, ReadsBoth
      <3>6. ReadUpTo(k + 1)
        BY <2>4, <2>7, <3>1, <3>5
      <3> QED
        BY <2>1, <3>6
    <2>8. CASE k # 0 /\ ~Refused(k)
      <3>1. PICK st : /\ Reads(Start, parts[k], st)
                      /\ Reading(st, SubSeq(ws, 1, k - 1), ws[k], TRUE, "unquoted")
        BY <1>7, <2>8
      <3> DEFINE mid == ParseChar(st, " ")
      <3>2. <<" ">> \in Seq(Characters) /\ " " \in Characters /\ st \in ParseState
        BY <3>1, OneCharacter, CharsAre DEF Reading
      <3>3. Reads(st, <<" ">>, mid)
        BY <3>2, ReadsOne
      <3>4. Reading(mid, Append(SubSeq(ws, 1, k - 1), ws[k]), <<>>, FALSE, "unquoted")
        BY <3>1, SpaceIsRead
      <3>5. Append(SubSeq(ws, 1, k - 1), ws[k]) = SubSeq(ws, 1, k)
        <4>1. k - 1 \in 0..Len(ws) - 1 /\ (k - 1) + 1 = k
          BY <1>2, <2>1, <2>8
        <4> QED
          BY <4>1, PrefixGrows
      <3> HIDE DEF mid
      <3>6. PICK to : /\ Reads(mid, word, to)
                      /\ IF Refuses(ws[k + 1], how) THEN Refusing(to)
                         ELSE Reading(to, SubSeq(ws, 1, k), ws[k + 1], TRUE, "unquoted")
        BY <2>5, <3>4, <3>5
      <3>7. Reads(Start, parts[k] \o <<" ">>, mid) /\ parts[k] \o <<" ">> \in Seq(Characters)
        BY <2>2, <3>1, <3>2, <3>3, ReadsBoth, ConcatProperties
      <3>8. Reads(Start, parts[k + 1], to)
        BY <2>2, <2>3, <2>8, <3>6, <3>7, ReadsBoth
      <3>9. ReadUpTo(k + 1)
        BY <2>1, <2>4, <2>8, <3>6, <3>8
      <3> QED
        BY <2>1, <3>9
    <2> QED
      BY <2>6, <2>7, <2>8
  <1>8. n \in S
    <2> HIDE DEF S, n
    <2> QED
      BY <1>2, <1>6, <1>7, InductionUpTo
  <1>9. ReadUpTo(n)
    <2>1. n # 0
      BY <1>2
    <2> HIDE DEF ReadUpTo
    <2> QED
      BY <1>8, <2>1
  <1> QED
    BY <1>1, <1>9

\* Whatever the words, they are read as they were meant.
LEMMA TextIsReadAsMeant ==
    ASSUME NEW ws \in Seq(Words), NEW how \in Styles, ws # <<>>,
           \A i \in DOMAIN ws : Writable(ws[i], how),
           ~(how = "escaped" /\ Last(ws) # <<>> /\ Last(Last(ws)) = " ")
    PROVE  parseCommand(Trim(Text(ws, how))) =
              IF how = "plain" /\ \E i \in DOMAIN ws : ToSet(ws[i]) \cap UNSUPPORTED_SHELL_SYNTAX # {}
              THEN NoArguments ELSE ws
  <1> DEFINE n == Len(ws)
             text == Text(ws, how)
             someRefused == \E i \in 1..n : Refuses(ws[i], how)
  <1>1. ws \in Seq(Seq(Characters))
    <2>1. Words \subseteq Seq(Characters)
      BY ExecuteAssumption
    <2> QED
      BY <2>1, SeqMonotonic
  <1>2. n \in Nat /\ n \in 1..n /\ DOMAIN ws = 1..n /\ \A i \in 1..n : Writable(ws[i], how)
    BY NotEmpty, LenProperties
  <1>3. /\ text \in Seq(Characters) /\ text # <<>> /\ text[1] # " "
        /\ text[Len(text)] = " " => how = "escaped" /\ ws[n] # <<>> /\ ws[n][Len(ws[n])] = " "
    BY <1>1, <1>2, TextEnds
  <1>4. Trim(text) = text
    <2>1. text[Len(text)] # " "
      BY <1>3 DEF Last
    <2> QED
      BY <1>3, <2>1, TrimKeeps
  <1>5. PICK read : /\ Reads(Start, text, read)
                    /\ IF someRefused THEN Refusing(read)
                       ELSE Reading(read, SubSeq(ws, 1, n - 1), ws[n], TRUE, "unquoted")
    BY <1>1, <1>2, TextReads
  <1>6. Read(text) = read
    BY <1>3, <1>5, ReadsIsRead
  <1>7. someRefused <=> how = "plain" /\ \E i \in DOMAIN ws : ToSet(ws[i]) \cap UNSUPPORTED_SHELL_SYNTAX # {}
    BY <1>2 DEF Refuses
  <1> HIDE DEF someRefused, text
  <1>8. CASE someRefused
    <2>1. read.refused = TRUE
      BY <1>5, <1>8 DEF Refusing
    <2>2. parseCommand(text) = NoArguments
      BY <1>6, <2>1 DEF parseCommand
    <2> QED
      BY <1>4, <1>7, <1>8, <2>2 DEF text
  <1>9. CASE ~someRefused
    <2>1. /\ read \in ParseState
          /\ read.argv = SubSeq(ws, 1, n - 1) /\ read.currentToken = ws[n] /\ read.tokenStarted = TRUE
          /\ read.quoteState = "unquoted" /\ read.escaped = FALSE /\ read.refused = FALSE
      BY <1>5, <1>9 DEF Reading
    <2>2. Append(SubSeq(ws, 1, n - 1), ws[n]) = ws
      <3>1. n - 1 \in 0..n - 1 /\ (n - 1) + 1 = n
        <4>1. n \in Nat /\ n \in 1..n
          BY <1>2
        <4> HIDE DEF n
        <4> QED
          BY ONLY <4>1
      <3>2. Append(SubSeq(ws, 1, n - 1), ws[(n - 1) + 1]) = SubSeq(ws, 1, (n - 1) + 1)
        BY <1>1, <3>1, PrefixGrows
      <3>3. SubSeq(ws, 1, n) = ws
        BY <1>1, PrefixGrows
      <3> QED
        BY <3>1, <3>2, <3>3
    <2>3. pushToken(read).argv = Append(read.argv, read.currentToken)
      BY <2>1 DEF pushToken, ParseState
    <2>4. pushToken(read).argv = ws
      BY <2>1, <2>2, <2>3
    <2>5. parseCommand(text) = ws
      BY <1>6, <2>1, <2>4 DEF parseCommand
    <2> QED
      BY <1>4, <1>7, <1>9, <2>5 DEF text
  <1> QED
    BY <1>8, <1>9

---------------------------------------------------------------------------
(***************************************************************************)
(* The arguments have their type, whatever the text.                       *)
(***************************************************************************)

LEMMA TrimIsText ==
    ASSUME NEW text \in Seq(Characters)
    PROVE  Trim(text) \in Seq(Characters)
  <1> DEFINE kept == {i \in DOMAIN text : text[i] # " "}
  <1>1. Len(text) \in Nat /\ DOMAIN text = 1..Len(text) /\ \A i \in 1..Len(text) : text[i] \in Characters
    BY LenProperties, ElementOfSeq
  <1>2. kept \subseteq 1..Len(text)
    BY <1>1
  <1>3. CASE kept = {}
    BY <1>3, EmptySeq DEF Trim
  <1>4. CASE kept # {}
    <2> DEFINE a == Min(kept)
               b == Max(kept)
    <2>1. Trim(text) = SubSeq(text, a, b)
      BY <1>4 DEF Trim
    <2> HIDE DEF kept
    <2>2. kept \in SUBSET Int /\ kept \in SUBSET Nat /\ IsFiniteSet(kept)
      <3>1. IsFiniteSet(1..Len(text))
        BY <1>1, FS_Interval
      <3>2. IsFiniteSet(kept)
        BY <1>2, <3>1, FS_Subset
      <3> QED
        BY <1>1, <1>2, <3>2
    <2>3. b \in kept
      BY <1>4, <2>2, MaxIsIn
    <2>4. a \in kept
      <3>1. \E m \in kept : \A k \in kept : m <= k
        BY <1>4, <2>2, LeastExists
      <3> QED
        BY <3>1 DEF Min
    <2> HIDE DEF a, b
    <2>5. a \in Int /\ b \in Int /\ \A i \in a..b : text[i] \in Characters
      BY <1>1, <1>2, <2>3, <2>4
    <2>6. SubSeq(text, a, b) \in Seq(Characters)
      BY <2>5, SubSeqProperties
    <2> QED
      BY <2>1, <2>6
  <1> QED
    BY <1>3, <1>4

LEMMA ParseIsTyped ==
    ASSUME NEW text \in Seq(Characters)
    PROVE  parseCommand(text) \in Seq(Seq(Characters)) \cup {NoArguments}
  <1> DEFINE read == Read(text)
  <1>1. read \in ParseState
    BY EveryTextIsRead
  <1> HIDE DEF read
  <1>2. read.argv \in Seq(Seq(Characters)) /\ read.currentToken \in Seq(Characters)
    BY <1>1 DEF ParseState
  <1>3. Append(read.argv, read.currentToken) \in Seq(Seq(Characters))
    BY <1>2, AppendProperties
  <1>4. pushToken(read).argv \in Seq(Seq(Characters))
    BY <1>1, <1>2, <1>3 DEF pushToken, ParseState
  <1>5. parseCommand(text) = NoArguments \/ parseCommand(text) = pushToken(read).argv
    BY DEF parseCommand, read
  <1> QED
    BY <1>4, <1>5

---------------------------------------------------------------------------
(***************************************************************************)
(* The run of the command.                                                 *)
(***************************************************************************)

\* TimeoutKillsGroup only holds because nobody is left in the group: a process
\* that were, though not running, could start another one.  Nor may the command
\* be begun after the time is over.
RunInv ==
    /\ ExecuteTypeOK
    /\ OutputIsPrefix
    /\ timedOut => group = {}
    /\ phase = "parsed" => ~timeoutId /\ ~timedOut

LEMMA RunInvStarts ==
    ASSUME ExecuteInit
    PROVE  RunInv
  <1>1. PICK n \in 1..MaxWords : words \in [1..n -> {w \in Words : Writable(w, style)}]
    BY DEF ExecuteInit
  <1>2. MaxWords \in Nat /\ n \in Nat
    BY ExecuteAssumption
  <1>3. words \in Seq(Words) /\ words \in Seq(Seq(Characters))
    <2>1. words \in [1..n -> Words] /\ Words \subseteq Seq(Characters)
      BY <1>1, ExecuteAssumption
    <2>2. words \in [1..n -> Seq(Characters)]
      BY <2>1
    <2> QED
      BY <1>2, <2>1, <2>2
  <1>4. Text(words, style) \in Seq(Characters)
    <2>1. style \in Styles
      BY DEF ExecuteInit
    <2>2. PICK parts : Texts(parts, words, style) /\ Text(words, style) = parts[Len(words)]
      BY <1>3, <2>1, TextIs
    <2>3. Len(words) \in 0..Len(words)
      BY <1>3, LenProperties
    <2> QED
      BY <2>2, <2>3 DEF Texts
  <1>5. argv \in Seq(Seq(Characters)) \cup {NoArguments}
    BY <1>4, TrimIsText, ParseIsTyped DEF ExecuteInit
  <1>6. MaxOutput \in Nat /\ Limit \in Nat /\ Min({0, Limit}) = 0
    <2>1. MaxOutput \in Nat /\ Limit \in Nat
      BY ExecuteAssumption
    <2>2. 0 \in Int /\ Limit \in Int
      BY <2>1
    <2>3. Min({0, Limit}) = IF 0 <= Limit THEN 0 ELSE Limit
      BY ONLY <2>2, ExtremesOfTwo
    <2> QED
      BY <2>1, <2>3
  <1>7. ExecuteTypeOK
    <2>1. /\ style \in Styles /\ timeoutId = FALSE /\ timedOut = FALSE /\ phase = "parsed"
          /\ group = {} /\ writers = {} /\ totalBytes = 0 /\ storedBytes = 0
          /\ process = [p \in Processes |-> "none"]
      BY DEF ExecuteInit
    <2>2. totalBytes \in 0..MaxOutput /\ storedBytes \in 0..Limit
      BY <1>6, <2>1
    <2>3. /\ process \in [Processes -> {"none", "running", "exited"}]
          /\ group \subseteq Processes /\ writers \subseteq Processes
          /\ timeoutId \in BOOLEAN /\ timedOut \in BOOLEAN
          /\ phase \in {"parsed", "running", "draining", "returned", "failed"}
      BY ONLY <2>1
    <2>4. words \in Seq(Words) /\ style \in Styles
      BY <1>3, <2>1
    <2> QED
      BY ONLY <1>5, <2>2, <2>3, <2>4 DEF ExecuteTypeOK
  <1>8. OutputIsPrefix
    BY <1>6 DEF ExecuteInit, OutputIsPrefix
  <1> QED
    BY <1>7, <1>8 DEF ExecuteInit, RunInv

\* What is stored of a chunk is what is missing of the first Limit bytes.
LEMMA StoredIsPrefix ==
    ASSUME ExecuteTypeOK, OutputIsPrefix, NEW n \in Nat, totalBytes + n <= MaxOutput
    PROVE  /\ store(n) = Min({totalBytes + n, Limit})
           /\ store(n) \in 0..Limit
           /\ totalBytes + n \in 0..MaxOutput
  <1>1. totalBytes \in Nat /\ storedBytes \in Nat /\ Limit \in Nat /\ MaxOutput \in Nat
    BY ExecuteAssumption DEF ExecuteTypeOK
  <1>2. /\ Min({totalBytes, Limit}) = IF totalBytes <= Limit THEN totalBytes ELSE Limit
        /\ Min({totalBytes + n, Limit}) = IF totalBytes + n <= Limit THEN totalBytes + n ELSE Limit
        /\ Min({n, Limit - storedBytes}) = IF n <= Limit - storedBytes THEN n ELSE Limit - storedBytes
    <2>1. totalBytes \in Int /\ totalBytes + n \in Int /\ Limit \in Int /\ n \in Int
          /\ Limit - storedBytes \in Int
      BY <1>1
    <2>2. Min({totalBytes, Limit}) = IF totalBytes <= Limit THEN totalBytes ELSE Limit
      BY ONLY <2>1, ExtremesOfTwo
    <2>3. Min({totalBytes + n, Limit}) = IF totalBytes + n <= Limit THEN totalBytes + n ELSE Limit
      BY ONLY <2>1, ExtremesOfTwo
    <2>4. Min({n, Limit - storedBytes}) = IF n <= Limit - storedBytes THEN n ELSE Limit - storedBytes
      BY ONLY <2>1, ExtremesOfTwo
    <2> QED
      BY <2>2, <2>3, <2>4
  <1>3. storedBytes = IF totalBytes <= Limit THEN totalBytes ELSE Limit
    BY <1>2 DEF OutputIsPrefix
  <1>4. store(n) = IF storedBytes >= Limit THEN storedBytes
                   ELSE storedBytes + IF n <= Limit - storedBytes THEN n ELSE Limit - storedBytes
    BY <1>2 DEF store
  <1> QED
    BY <1>1, <1>2, <1>3, <1>4

LEMMA ForgottenIsTyped ==
    ASSUME ForgetCommand
    PROVE  words' \in Seq(Words) /\ style' \in Styles /\ argv' \in Seq(Seq(Characters)) \cup {NoArguments}
  BY EmptySeq DEF ForgetCommand, Styles

LEMMA RunInvIsKept ==
    ASSUME RunInv, [ExecuteNext]_executeVars
    PROVE  RunInv'
  <1> USE DEF RunInv
  <1>0. Leader \in Processes /\ Descendants \subseteq Processes
    BY DEF Processes
  <1>1. CASE Fail
    BY <1>1, ForgottenIsTyped DEF Fail, ExecuteTypeOK, OutputIsPrefix, processVars, captureVars
  <1>2. CASE Spawn
    BY <1>0, <1>2, ForgottenIsTyped DEF Spawn, ExecuteTypeOK, OutputIsPrefix, captureVars
  <1>3. CASE Timeout
    BY <1>3 DEF Timeout, Killed, ExecuteTypeOK, OutputIsPrefix, captureVars
  <1>4. CASE Exited
    BY <1>4 DEF Exited, ExecuteTypeOK, OutputIsPrefix, processVars, captureVars
  <1>5. CASE Return
    BY <1>5 DEF Return, ExecuteTypeOK, OutputIsPrefix, processVars, captureVars
  <1>6. ASSUME NEW p \in Processes, CloseOutput(p) PROVE RunInv'
    BY <1>6 DEF CloseOutput, ExecuteTypeOK, OutputIsPrefix, captureVars
  <1>7. ASSUME NEW p \in Processes, Exit(p) PROVE RunInv'
    BY <1>7 DEF Exit, ExecuteTypeOK, OutputIsPrefix, captureVars
  <1>8. ASSUME NEW p \in Processes, NEW d \in Descendants, Fork(p, d) PROVE RunInv'
    BY <1>0, <1>8 DEF Fork, ExecuteTypeOK, OutputIsPrefix, captureVars
  <1>9. ASSUME NEW d \in Descendants, LeaveGroup(d) PROVE RunInv'
    BY <1>9 DEF LeaveGroup, ExecuteTypeOK, OutputIsPrefix, captureVars
  <1>10. ASSUME NEW n \in 1..MaxChunk, ReadChunk(n) PROVE RunInv'
    <2>1. n \in Nat /\ totalBytes + n <= MaxOutput
      BY <1>10, ExecuteAssumption DEF ReadChunk
    <2>2. /\ store(n) = Min({totalBytes + n, Limit})
          /\ store(n) \in 0..Limit
          /\ totalBytes + n \in 0..MaxOutput
      BY <2>1, StoredIsPrefix
    <2>3. totalBytes' = totalBytes + n /\ storedBytes' = store(n)
      BY <1>10 DEF ReadChunk
    <2> HIDE DEF RunInv
    <2>4. OutputIsPrefix'
      BY <2>2, <2>3 DEF OutputIsPrefix
    <2>5. ExecuteTypeOK'
      BY <1>10, <2>2, <2>3 DEF RunInv, ReadChunk, ExecuteTypeOK, processVars
    <2> QED
      BY <1>10, <2>4, <2>5 DEF RunInv, ReadChunk, processVars
  <1>11. CASE UNCHANGED executeVars
    BY <1>11 DEF executeVars, processVars, captureVars, ExecuteTypeOK, OutputIsPrefix
  <1> HIDE DEF RunInv
  <1> QED
    BY <1>1, <1>2, <1>3, <1>4, <1>5, <1>6, <1>7, <1>8, <1>9, <1>10, <1>11
       DEF ExecuteNext, HandlerStep, ProcessStep

LEMMA RunInvHolds == ExecuteSpec => []RunInv
  <1>1. ExecuteInit => RunInv
    BY RunInvStarts
  <1>2. RunInv /\ [ExecuteNext]_executeVars => RunInv'
    BY RunInvIsKept
  <1> QED
    BY <1>1, <1>2, PTL DEF ExecuteSpec

\* The limits of a call hold: after the timeout of handler.ts nothing in the
\* command's group runs or is begun, and captureStream keeps exactly the first
\* bytes up to the limit.
THEOREM LimitsAlwaysHold == ExecuteSpec => []LimitsHold
  <1>1. RunInv => LimitsHold
    BY DEF RunInv, LimitsHold, TimeoutKillsGroup
  <1> QED
    BY <1>1, RunInvHolds, PTL

\* parseCommand is the inverse of quoting, for words of any length over the
\* characters it tells apart: each word is read as it was meant, in every style of writing it,
\* and an operator of the shell that is not quoted is refused.
THEOREM WordsAreReadAsMeant == ExecuteSpec => []ParsedAsMeant
  <1>1. ExecuteInit => ParsedAsMeant
    <2> SUFFICES ASSUME ExecuteInit, ~EndsInSpace
                 PROVE  argv = IF style = "plain" /\ \E i \in DOMAIN words :
                                    ToSet(words[i]) \cap UNSUPPORTED_SHELL_SYNTAX # {}
                               THEN NoArguments ELSE words
      BY DEF ParsedAsMeant
    <2>1. PICK n \in 1..MaxWords : words \in [1..n -> {w \in Words : Writable(w, style)}]
      BY DEF ExecuteInit
    <2>2. MaxWords \in Nat /\ n \in Nat /\ n >= 1
      BY ExecuteAssumption
    <2>3. /\ words \in Seq(Words) /\ Len(words) = n
          /\ \A i \in DOMAIN words : Writable(words[i], style)
      <3>1. words \in [1..n -> Words] /\ DOMAIN words = 1..n
        BY <2>1
      <3>2. words \in Seq(Words) /\ Len(words) = n
        BY <2>2, <3>1
      <3> QED
        BY <2>1, <3>1, <3>2
    <2>4. words # <<>>
      BY <2>2, <2>3
    <2>5. style \in Styles /\ argv = parseCommand(Trim(Text(words, style)))
      BY DEF ExecuteInit
    <2> QED
      BY <2>3, <2>4, <2>5, TextIsReadAsMeant DEF EndsInSpace
  <1>2. ParsedAsMeant /\ [ExecuteNext]_executeVars => ParsedAsMeant'
    <2> SUFFICES ASSUME ParsedAsMeant, [ExecuteNext]_executeVars
                 PROVE  ParsedAsMeant'
      OBVIOUS
    <2>1. \/ UNCHANGED <<words, style, argv, phase>>
          \/ phase' # "parsed"
      BY DEF ExecuteNext, HandlerStep, ProcessStep, Fail, Spawn, Timeout, Exited, Return,
             CloseOutput, Exit, Fork, LeaveGroup, ReadChunk, executeVars
    <2> QED
      BY <2>1 DEF ParsedAsMeant, EndsInSpace
  <1> QED
    BY <1>1, <1>2, PTL DEF ExecuteSpec
===============================================================================
