----------------------------- MODULE ToolCalls -----------------------------
(***************************************************************************)
(* Calls of the operations of one tool, or raw http calls, by concurrent   *)
(* sessions: the OAuth token they share in the memory table, the request   *)
(* with its retries, and the provider that issues the tokens.              *)
(* src/interpreter/auth.ts, http-executor.ts and pipeline.ts.              *)
(*                                                                         *)
(* A token is known by the number of the grant that issued it.  Building   *)
(* the request and mapping the response keep no state and are left out.    *)
(* Whatever is done between two awaits of the network, the user or a timer *)
(* is one step: the memory table itself is read and written synchronously. *)
(***************************************************************************)
EXTENDS Integers

CONSTANTS
    Calls,
    None,
    MAX_ATTEMPTS,
    MaxGrants        \* bound: tokens the provider issues

ASSUME BoundsAssumption == MAX_ATTEMPTS \in Nat \ {0} /\ MaxGrants \in Nat

Grants == 1..MaxGrants
NoRefresh == 0

\* StoredOAuthToken: an access token, and a refresh token or NoRefresh.
Token == [access : Grants, refresh : Grants \cup {NoRefresh}]

ASSUME NoneAssumption == None \notin Token

VARIABLES
    provider,     \* what the spec and the provider are like, fixed
    stored,       \* the token in the memory table, or None
    step,         \* call -> where it is
    token,        \* call -> the token of its AuthBinding
    grant,        \* call -> the refresh token it sent, 0 for any other grant
    answer,       \* call -> the response of the token endpoint, or None
    attempts,     \* call -> requests sent
    unauthorizedRetried,
    \* the provider
    issued,       \* grants so far
    live,         \* refresh tokens it accepts
    stale,        \* the stored token is past its expires_at
    \* history
    refused,      \* call -> the token that its 401 was about
    forfeited     \* refresh tokens revoked, or whose replacement was lost

callVars == <<step, token, grant, answer, attempts, unauthorizedRetried, refused>>
providerVars == <<issued, live>>
memoryVars == <<stored, stale>>
vars == <<provider, memoryVars, callVars, providerVars, forfeited>>

\* static: no authentication, or a secret of the environment.
Flows == {"static", "client_credentials", "authorization_code"}

\* offline: it issues refresh tokens.  rotates: a refresh replaces them.
Providers ==
    {p \in [flow : Flows, offline : BOOLEAN, rotates : BOOLEAN] :
        /\ p.flow = "static" => ~p.offline
        /\ p.rotates => p.offline}

Waiting == {"asking", "exchanging", "answered", "requesting", "sleeping"}
Ended == {"returned", "threw"}

TypeOK ==
    /\ provider \in Providers
    /\ stored \in Token \cup {None}
    /\ step \in [Calls -> {"idle"} \cup Waiting \cup Ended]
    /\ token \in [Calls -> Token \cup {None}]
    /\ grant \in [Calls -> Grants \cup {NoRefresh}]
    /\ answer \in [Calls -> Token \cup {None}]
    /\ attempts \in [Calls -> Nat]
    /\ \A c \in Calls :
          \/ attempts[c] <= MAX_ATTEMPTS
          \/ unauthorizedRetried[c] /\ attempts[c] = MAX_ATTEMPTS + 1
    /\ unauthorizedRetried \in [Calls -> BOOLEAN]
    /\ issued \in 0..MaxGrants
    /\ live \subseteq 1..issued
    /\ stale \in BOOLEAN
    /\ refused \in [Calls -> Token \cup {None}]
    /\ forfeited \subseteq 1..issued

Init ==
    /\ provider \in Providers
    /\ stored = None
    /\ step = [c \in Calls |-> "idle"]
    /\ token = [c \in Calls |-> None]
    /\ grant = [c \in Calls |-> NoRefresh]
    /\ answer = [c \in Calls |-> None]
    /\ attempts = [c \in Calls |-> 0]
    /\ unauthorizedRetried = [c \in Calls |-> FALSE]
    /\ issued = 0
    /\ live = {}
    /\ stale = FALSE
    /\ refused = [c \in Calls |-> None]
    /\ forfeited = {}

---------------------------------------------------------------------------
(***************************************************************************)
(* resolveOAuth2Binding                                                    *)
(***************************************************************************)

isExpired == stale

Goto(c, to) == step' = [step EXCEPT ![c] = to]

\* Faulty variant: the attempt is counted outside the loop.
FetchCountsOnce(c) ==
    /\ attempts' = [attempts EXCEPT ![c] = 1]
    /\ Goto(c, "requesting")

\* executeHttpRequest: the next attempt.
Fetch(c) ==
    /\ attempts' = [attempts EXCEPT ![c] = @ + 1]
    /\ Goto(c, "requesting")

\* The calls in cs end, and their local state with them; a refresh token whose
\* replacement was received and not stored is lost.
End(cs, as) ==
    /\ step' = [c \in Calls |-> IF c \in cs THEN as ELSE step[c]]
    /\ token' = [c \in Calls |-> IF c \in cs THEN None ELSE token[c]]
    /\ grant' = [c \in Calls |-> IF c \in cs THEN NoRefresh ELSE grant[c]]
    /\ answer' = [c \in Calls |-> IF c \in cs THEN None ELSE answer[c]]
    /\ attempts' = [c \in Calls |-> IF c \in cs THEN 0 ELSE attempts[c]]
    /\ unauthorizedRetried' =
          [c \in Calls |-> IF c \in cs THEN FALSE ELSE unauthorizedRetried[c]]
    /\ refused' = [c \in Calls |-> IF c \in cs THEN None ELSE refused[c]]
    /\ forfeited' = forfeited \cup
          ({grant[c] : c \in {d \in cs : step[d] = "answered"}} \ (live \cup {NoRefresh}))
    /\ UNCHANGED <<provider, memoryVars, providerVars>>

\* Faulty variant: the forced refresh is forgotten.
storedIsValid(forceRefresh) == stored # None /\ ~isExpired

useStored(forceRefresh) == ~forceRefresh /\ stored # None /\ ~isExpired

\* The stored token, bound by buildOAuthBinding.
BindStored(c, forceRefresh) ==
    /\ useStored(forceRefresh)
    /\ token' = [token EXCEPT ![c] = stored]
    /\ Fetch(c)
    /\ UNCHANGED grant

\* requestOAuthToken, up to its fetch: a refresh if the stored token allows
\* one, client credentials if the spec has them.
RequestToken(c, forceRefresh) ==
    /\ ~useStored(forceRefresh)
    /\ \/ /\ stored # None /\ stored.refresh # NoRefresh
          /\ grant' = [grant EXCEPT ![c] = stored.refresh]
       \/ /\ stored # None => stored.refresh = NoRefresh
          /\ provider.flow = "client_credentials"
          /\ grant' = [grant EXCEPT ![c] = NoRefresh]
    /\ Goto(c, "exchanging")
    /\ UNCHANGED <<token, attempts>>

\* Otherwise the user is asked for a code, through the lane of Prompts.
AskForCode(c, forceRefresh) ==
    /\ ~useStored(forceRefresh)
    /\ stored # None => stored.refresh = NoRefresh
    /\ provider.flow = "authorization_code"
    /\ Goto(c, "asking")
    /\ UNCHANGED <<token, grant, attempts>>

resolveOAuth2Binding(c, forceRefresh) ==
    \/ BindStored(c, forceRefresh)
    \/ RequestToken(c, forceRefresh)
    \/ AskForCode(c, forceRefresh)

\* The reply to the prompt, sent to the token endpoint.
UserAnswers(c) ==
    /\ step[c] = "asking"
    /\ grant' = [grant EXCEPT ![c] = NoRefresh]
    /\ Goto(c, "exchanging")
    /\ UNCHANGED <<provider, memoryVars, token, answer, attempts, unauthorizedRetried,
                   refused, providerVars, forfeited>>

\* The token endpoint accepts a new grant, or a refresh token that is live.
ProviderIssues(c) ==
    /\ step[c] = "exchanging"
    /\ issued < MaxGrants
    /\ grant[c] \in live \cup {NoRefresh}
    /\ LET n == issued + 1
           withRefresh == IF grant[c] = NoRefresh THEN provider.offline
                                                  ELSE provider.rotates
       IN  /\ issued' = n
           /\ answer' = [answer EXCEPT ![c] =
                 [access |-> n, refresh |-> IF withRefresh THEN n ELSE NoRefresh]]
           /\ live' = (live \ {r \in {grant[c]} : provider.rotates})
                         \cup {r \in {n} : withRefresh}
    /\ Goto(c, "answered")
    /\ UNCHANGED <<provider, memoryVars, token, grant, attempts, unauthorizedRetried,
                   refused, forfeited>>

\* Faulty variant: the refresh token that was sent wins over the one received.
PrefersPrior(payload, priorRefreshToken) ==
    [payload EXCEPT !.refresh = IF priorRefreshToken # NoRefresh THEN priorRefreshToken ELSE @]

\* A response without a refresh token leaves the one that was sent in use.
normalizeTokenResponse(payload, priorRefreshToken) ==
    [payload EXCEPT !.refresh = IF @ = NoRefresh THEN priorRefreshToken ELSE @]

\* The rest of requestOAuthToken: memory.set, then the binding is built.
ReceiveToken(c) ==
    /\ step[c] = "answered"
    /\ LET t == normalizeTokenResponse(answer[c], grant[c]) IN
          /\ stored' = t
          /\ stale' = FALSE
          /\ token' = [token EXCEPT ![c] = t]
    /\ answer' = [answer EXCEPT ![c] = None]
    /\ grant' = [grant EXCEPT ![c] = NoRefresh]
    /\ Fetch(c)
    /\ UNCHANGED <<provider, unauthorizedRetried, refused,
                   providerVars, forfeited>>

---------------------------------------------------------------------------
(***************************************************************************)
(* executeOperation and executeHttpRequest                                 *)
(***************************************************************************)

\* resolveAuthBinding, before the first request.
Begin(c) ==
    /\ step[c] = "idle"
    /\ IF provider.flow = "static"
       THEN Fetch(c) /\ UNCHANGED <<token, grant>>
       ELSE resolveOAuth2Binding(c, FALSE)
    /\ UNCHANGED <<provider, memoryVars, answer, unauthorizedRetried, refused,
                   providerVars, forfeited>>

\* refreshOnUnauthorized returns null without a way to get another token.
canRefresh(t) == t.refresh # NoRefresh \/ provider.flow = "client_credentials"

\* The first 401: rebuildOnUnauthorized.
Unauthorized(c) ==
    /\ step[c] = "requesting"
    /\ provider.flow # "static"
    /\ ~unauthorizedRetried[c]
    /\ canRefresh(token[c])
    /\ unauthorizedRetried' = [unauthorizedRetried EXCEPT ![c] = TRUE]
    /\ refused' = [refused EXCEPT ![c] = token[c]]
    /\ resolveOAuth2Binding(c, TRUE)
    /\ UNCHANGED <<provider, memoryVars, answer, providerVars, forfeited>>

mayRetry(c) == attempts[c] < MAX_ATTEMPTS

\* A 429 or 503.
Busy(c) ==
    /\ step[c] = "requesting"
    /\ mayRetry(c)
    /\ Goto(c, "sleeping")
    /\ UNCHANGED <<provider, memoryVars, token, grant, answer, attempts, unauthorizedRetried,
                   refused, providerVars, forfeited>>

Wake(c) ==
    /\ step[c] = "sleeping"
    /\ Fetch(c)
    /\ UNCHANGED <<provider, memoryVars, token, grant, answer, unauthorizedRetried,
                   refused, providerVars, forfeited>>

\* Any other response, and a 401, 429 or 503 that is not retried.
Returns(c) ==
    /\ step[c] = "requesting"
    /\ End({c}, "returned")

\* The operation is unknown, a parameter or an environment variable missing,
\* the prompt rejected or its answer empty, the grant refused, the network
\* down, the time limit over, or the memory table locked.
Throws(c) ==
    /\ step[c] \notin Ended \cup {"sleeping"}
    /\ End({c}, "threw")

---------------------------------------------------------------------------
(***************************************************************************)
(* Around the calls                                                        *)
(***************************************************************************)

\* The daemon stops or crashes: only the memory table stays.
Crash ==
    LET running == {c \in Calls : step[c] \in Waiting} IN
    /\ running # {}
    /\ End(running, "threw")

\* The expires_at of the stored token comes within 30 seconds.
Expire ==
    /\ stored # None
    /\ ~stale
    /\ stale' = TRUE
    /\ UNCHANGED <<provider, stored, callVars, providerVars, forfeited>>

\* The user withdraws an authorization.
Revoke(r) ==
    /\ r \in live
    /\ live' = live \ {r}
    /\ forfeited' = forfeited \cup {r}
    /\ UNCHANGED <<provider, memoryVars, callVars, issued>>

\* The entry is deleted with the memory primitive.
Forget ==
    /\ stored # None
    /\ stored' = None
    /\ stale' = FALSE
    /\ UNCHANGED <<provider, callVars, providerVars, forfeited>>

CallStep(c) ==
    \/ UserAnswers(c) \/ ProviderIssues(c) \/ ReceiveToken(c)
    \/ Unauthorized(c) \/ Busy(c) \/ Wake(c) \/ Returns(c) \/ Throws(c)

Next ==
    \/ \E c \in Calls : Begin(c) \/ CallStep(c)
    \/ Crash
    \/ \E r \in Grants : Revoke(r)
    \/ Expire
    \/ Forget

Spec == Init /\ [][Next]_vars

\* Every fetch ends with a response or after its 30 seconds, and a timer
\* fires.  Nothing is assumed of a user who is asked for a code.
Fairness ==
    \A c \in Calls : WF_vars(step[c] # "asking" /\ step[c] # "idle" /\ CallStep(c))

FairSpec == Spec /\ Fairness

---------------------------------------------------------------------------
(***************************************************************************)
(* Properties                                                              *)
(***************************************************************************)

\* However calls overlap, fail or are cut off: the refresh token that is
\* stored is one the provider accepts, unless the call that replaced it is
\* about to store its successor, the successor was lost on its way, or the
\* user revoked it.
RefreshTokenKept ==
    stored # None /\ stored.refresh # NoRefresh =>
        \/ stored.refresh \in live \cup forfeited
        \/ \E c \in Calls : step[c] = "answered" /\ grant[c] = stored.refresh

\* After a 401 the token that was refused is not sent again, in the retry or
\* in those that follow a 429 or 503.
RetryUsesNewToken ==
    \A c \in Calls :
        step[c] \in {"requesting", "sleeping"} /\ refused[c] # None
            => token[c].access # refused[c].access

\* A provider that issues refresh tokens has its user asked for a code only
\* when no token is stored: expiry, a 401 or another call never ask again.
NoNeedlessPrompt ==
    [][\A c \in Calls :
          provider.offline /\ step[c] # "asking" /\ step'[c] = "asking" => stored = None]_vars

\* A call that began returns or throws, or the user is being asked: it does
\* not retry for ever.
CallSettles == \A c \in Calls : step[c] \in Waiting ~> step[c] \in Ended \cup {"asking"}
=============================================================================
