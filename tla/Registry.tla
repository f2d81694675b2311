------------------------------ MODULE Registry ------------------------------
(***************************************************************************)
(* The registry of tool specs, specs/registry.ts: one file per tool in the *)
(* directory of its trust tier, and in memory the spec of each tool with   *)
(* two indexes of its operations.  The runtime registers specs at run time *)
(* (spec.register), the user promotes them by moving their files, and a    *)
(* start of the daemon reads them again.  Calls of operations look their   *)
(* names up twice: for the policy, and after it for the request            *)
(* (primitives/dispatcher.ts, interpreter/pipeline.ts).                    *)
(*                                                                         *)
(* A registration is one action, because nothing in it waits; a crash may  *)
(* come at any of its file operations.  A file is named after its tool,    *)
(* which is how the registry itself names it.  Operations are numbered in  *)
(* the order of their canonical names.                                     *)
(***************************************************************************)
EXTENDS Integers, FiniteSets, FiniteSetsExt

CONSTANTS Tools,          \* the ids of tools
          Specs,          \* valid specs
          tool,           \* spec -> its tool
          operations,     \* spec -> its operations, by their canonical names
          ProviderNames,
          providerName,   \* operation -> its name for the model's provider
          SeededSpec,     \* GITHUB_TRUSTED_SPEC
          Calls,
          None, Torn,     \* no file, no spec; a file that holds part of a spec
          MaxRegistrations,
          MaxRestarts

Operations == UNION {operations[sp] : sp \in Specs}

ASSUME RegistryAssumption ==
    /\ tool \in [Specs -> Tools]
    /\ operations \in [Specs -> SUBSET Nat]
    /\ \A sp \in Specs : operations[sp] # {} /\ IsFiniteSet(operations[sp])
    \* a canonical name begins with the id of its tool
    /\ \A sp, other \in Specs :
          tool[sp] # tool[other] => operations[sp] \cap operations[other] = {}
    /\ providerName \in [Operations -> ProviderNames]
    /\ ProviderNames \cap Operations = {}
    /\ SeededSpec \in Specs
    /\ None \notin Specs \cup Tools /\ Torn \notin Specs \cup {None}
    /\ MaxRegistrations \in Nat /\ MaxRestarts \in Nat

Tiers == {"trusted", "user-reviewed", "untrusted"}

VARIABLES
    disk,                        \* tier -> tool -> its file
    daemon,                      \* "down", "up"
    specsByTool,
    operationsByCanonicalName,
    operationsByProviderName,
    phase,                       \* call -> "idle", "checked", "running"
    name,                        \* call -> the name it was made with
    checked,                     \* call -> the entry the policy saw
    resolvedOperation,           \* call -> the entry its requests are built from
    registrations, restarts,
    \* history
    renewed,                     \* call -> its tool was registered again before it ran
    sent                         \* call -> the entries its requests were built from

indexVars == <<specsByTool, operationsByCanonicalName, operationsByProviderName>>
callVars == <<phase, name, checked, resolvedOperation, renewed, sent>>
vars == <<disk, daemon, indexVars, callVars, registrations, restarts>>

RegisteredSpecs == [spec : Specs, trustTier : Tiers]
Entries == [operation : Operations, registeredSpec : RegisteredSpecs]

ASSUME NoneAssumption == None \notin RegisteredSpecs /\ None \notin Entries

TypeOK ==
    /\ disk \in [Tiers -> [Tools -> Specs \cup {None, Torn}]]
    /\ daemon \in {"down", "up"}
    /\ specsByTool \in [Tools -> RegisteredSpecs \cup {None}]
    /\ operationsByCanonicalName \in [Operations -> Entries \cup {None}]
    /\ operationsByProviderName \in [ProviderNames -> Entries \cup {None}]
    /\ phase \in [Calls -> {"idle", "checked", "running"}]
    /\ name \in [Calls -> Operations \cup ProviderNames \cup {None}]
    /\ checked \in [Calls -> Entries \cup {None}]
    /\ resolvedOperation \in [Calls -> Entries \cup {None}]
    /\ renewed \in [Calls -> BOOLEAN]
    /\ sent \in [Calls -> SUBSET Entries]
    /\ registrations \in 0..MaxRegistrations
    /\ restarts \in 0..MaxRestarts

NoCalls ==
    /\ phase' = [c \in Calls |-> "idle"]
    /\ name' = [c \in Calls |-> None]
    /\ checked' = [c \in Calls |-> None]
    /\ resolvedOperation' = [c \in Calls |-> None]
    /\ renewed' = [c \in Calls |-> FALSE]
    /\ sent' = [c \in Calls |-> {}]

Init ==
    /\ disk = [tier \in Tiers |-> [t \in Tools |-> None]]
    /\ daemon = "down"
    /\ specsByTool = [t \in Tools |-> None]
    /\ operationsByCanonicalName = [op \in Operations |-> None]
    /\ operationsByProviderName = [n \in ProviderNames |-> None]
    /\ phase = [c \in Calls |-> "idle"]
    /\ name = [c \in Calls |-> None]
    /\ checked = [c \in Calls |-> None]
    /\ resolvedOperation = [c \in Calls |-> None]
    /\ renewed = [c \in Calls |-> FALSE]
    /\ sent = [c \in Calls |-> {}]
    /\ registrations = 0
    /\ restarts = 0

---------------------------------------------------------------------------
(***************************************************************************)
(* The indexes.                                                            *)
(***************************************************************************)

Provided(sp, n) == {op \in operations[sp] : providerName[op] = n}

\* The entries of a registered spec.  Of two operations with one provider
\* name the later one is found under it.
CanonicalEntry(registered, op) == [operation |-> op, registeredSpec |-> registered]
ProviderEntry(registered, n) == CanonicalEntry(registered, Max(Provided(registered.spec, n)))

\* prepareRegisteredSpec: what refuses a spec, given the tool it may replace.
DuplicateOperation(sp, replacingToolId) ==
    \E op \in operations[sp] :
        \E entry \in {operationsByCanonicalName[op], operationsByProviderName[providerName[op]]} :
            entry # None /\ tool[entry.registeredSpec.spec] # replacingToolId

\* Faulty variant: the entries of the replaced spec stay under their provider names.
IndexedWithout(index, registered, gone) == index

\* unregisterSpec: an index without the entries of a spec.
Unindexed(index, registered, gone) ==
    IF registered = None THEN index
    ELSE [n \in DOMAIN index |-> IF n \in gone THEN None ELSE index[n]]

\* The indexes after spec sp was committed in place of the one it replaces.
Commit(sp, trustTier) ==
    LET registered == [spec |-> sp, trustTier |-> trustTier]
        existing == specsByTool[tool[sp]]
        old == IF existing = None THEN {} ELSE operations[existing.spec]
        canonical == Unindexed(operationsByCanonicalName, existing, old)
        provider == Unindexed(operationsByProviderName, existing, {providerName[op] : op \in old})
    IN /\ specsByTool' = [specsByTool EXCEPT ![tool[sp]] = registered]
       /\ operationsByCanonicalName' =
             [op \in Operations |-> IF op \in operations[sp]
                                    THEN CanonicalEntry(registered, op) ELSE canonical[op]]
       /\ operationsByProviderName' =
             [n \in ProviderNames |-> IF Provided(sp, n) # {}
                                      THEN ProviderEntry(registered, n) ELSE provider[n]]

---------------------------------------------------------------------------
(***************************************************************************)
(* Starts.                                                                 *)
(***************************************************************************)

Files(files, t) == {tier \in Tiers : files[tier][t] # None}

\* reload() gets to its end: every file can be read, no tool has two of them,
\* and no provider name is taken twice.
Loads(files) ==
    /\ \A tier \in Tiers, t \in Tools : files[tier][t] # Torn
    /\ \A t \in Tools : Cardinality(Files(files, t)) <= 1
    /\ \A one, two \in Tiers, t, u \in Tools :
          (t # u /\ files[one][t] # None /\ files[two][u] # None) =>
              \A op \in operations[files[one][t]], other \in operations[files[two][u]] :
                  providerName[op] # providerName[other]

\* The spec a tool is registered with after a load.
LoadedSpec(files, t) ==
    IF Files(files, t) = {} THEN None
    ELSE LET tier == CHOOSE tier \in Files(files, t) : TRUE
         IN [spec |-> files[tier][t], trustTier |-> tier]

\* seedTrustedSpec: only if there is no such file.
Seeded ==
    IF disk["trusted"][tool[SeededSpec]] # None THEN disk
    ELSE [disk EXCEPT !["trusted"][tool[SeededSpec]] = SeededSpec]

\* The constructor.
Start ==
    /\ daemon = "down"
    /\ Loads(Seeded)
    /\ disk' = Seeded
    /\ daemon' = "up"
    /\ LET loaded(t) == LoadedSpec(Seeded, t)
           of(op) == {t \in Tools : loaded(t) # None /\ op \in operations[loaded(t).spec]}
           named(n) == {t \in Tools : loaded(t) # None /\ Provided(loaded(t).spec, n) # {}}
       IN /\ specsByTool' = [t \in Tools |-> loaded(t)]
          /\ operationsByCanonicalName' =
                [op \in Operations |-> IF of(op) = {} THEN None
                    ELSE CanonicalEntry(loaded(CHOOSE t \in of(op) : TRUE), op)]
          /\ operationsByProviderName' =
                [n \in ProviderNames |-> IF named(n) = {} THEN None
                    ELSE ProviderEntry(loaded(CHOOSE t \in named(n) : TRUE), n)]
    /\ UNCHANGED <<callVars, registrations, restarts>>

\* The constructor throws, and the daemon does not start.
StartFails ==
    /\ daemon = "down"
    /\ ~Loads(Seeded)
    /\ disk' = Seeded
    /\ UNCHANGED <<daemon, indexVars, callVars, registrations, restarts>>

\* The seed is written in place: a crash or a full disk leaves part of it.
SeedIsCut ==
    /\ daemon = "down"
    /\ Seeded # disk
    /\ restarts < MaxRestarts
    /\ restarts' = restarts + 1
    /\ disk' = [disk EXCEPT !["trusted"][tool[SeededSpec]] = Torn]
    /\ UNCHANGED <<daemon, indexVars, callVars, registrations>>

\* The daemon stops or crashes; memory and calls are gone.
GoesDown ==
    /\ restarts < MaxRestarts
    /\ restarts' = restarts + 1
    /\ daemon' = "down"
    /\ specsByTool' = [t \in Tools |-> None]
    /\ operationsByCanonicalName' = [op \in Operations |-> None]
    /\ operationsByProviderName' = [n \in ProviderNames |-> None]
    /\ NoCalls

Stop ==
    /\ daemon = "up"
    /\ GoesDown
    /\ UNCHANGED <<disk, registrations>>

---------------------------------------------------------------------------
(***************************************************************************)
(* Registrations and promotions.                                           *)
(***************************************************************************)

\* What registerUntrustedSpec checks before it writes.
Admitted(sp) ==
    LET replacing == IF specsByTool[tool[sp]] = None THEN None ELSE tool[sp]
    IN ~DuplicateOperation(sp, replacing)

Written(sp) == [disk EXCEPT !["untrusted"][tool[sp]] = sp]

\* registerUntrustedSpec: the file takes its place in one step, the rename.
Register(sp) ==
    /\ daemon = "up"
    /\ registrations < MaxRegistrations
    /\ registrations' = registrations + 1
    /\ Admitted(sp)
    /\ disk' = Written(sp)
    /\ Commit(sp, "untrusted")
    /\ renewed' = [c \in Calls |-> \/ renewed[c]
                                   \/ /\ phase[c] = "checked"
                                      /\ tool[checked[c].registeredSpec.spec] = tool[sp]]
    /\ UNCHANGED <<daemon, phase, name, checked, resolvedOperation, sent, restarts>>

\* Faulty variant: the file is written in place.
WhatACrashLeavesInPlace(sp) == {disk, Written(sp), [disk EXCEPT !["untrusted"][tool[sp]] = Torn]}

\* The files after a crash in a registration: temporary files are not read.
WhatACrashLeaves(sp) == {disk, Written(sp)}

CrashInRegister(sp) ==
    /\ daemon = "up"
    /\ registrations < MaxRegistrations
    /\ registrations' = registrations + 1
    /\ Admitted(sp)
    /\ disk' \in WhatACrashLeaves(sp)
    /\ GoesDown

\* The user moves the file of a tool, in place of the one that is there, if
\* these are all the files of the tool.
Promote(t, from, to) ==
    /\ <<from, to>> \in {<<"untrusted", "user-reviewed">>, <<"untrusted", "trusted">>,
                         <<"user-reviewed", "trusted">>}
    /\ from \in Files(disk, t) /\ Files(disk, t) \subseteq {from, to}
    /\ disk' = [disk EXCEPT ![to][t] = disk[from][t], ![from][t] = None]
    /\ UNCHANGED <<daemon, indexVars, callVars, registrations, restarts>>

---------------------------------------------------------------------------
(***************************************************************************)
(* Calls of operations.                                                    *)
(***************************************************************************)

getOperation(n) ==
    IF n \in Operations THEN operationsByCanonicalName[n] ELSE operationsByProviderName[n]

\* dispatch up to the policy.  A name that is not known is an error at once.
Dispatch(c, n) ==
    /\ daemon = "up"
    /\ phase[c] = "idle"
    /\ getOperation(n) # None
    /\ phase' = [phase EXCEPT ![c] = "checked"]
    /\ name' = [name EXCEPT ![c] = n]
    /\ checked' = [checked EXCEPT ![c] = getOperation(n)]
    /\ UNCHANGED <<disk, daemon, indexVars, resolvedOperation, renewed, sent,
                   registrations, restarts>>

\* A call ends: refused by the policy or the user, its operation gone, answered
\* or failed.
End(c) ==
    /\ phase' = [phase EXCEPT ![c] = "idle"]
    /\ name' = [name EXCEPT ![c] = None]
    /\ checked' = [checked EXCEPT ![c] = None]
    /\ resolvedOperation' = [resolvedOperation EXCEPT ![c] = None]
    /\ renewed' = [renewed EXCEPT ![c] = FALSE]
    /\ sent' = [sent EXCEPT ![c] = {}]
    /\ UNCHANGED <<disk, daemon, indexVars, registrations, restarts>>

Refused(c) == phase[c] = "checked" /\ End(c)

\* executeOperation looks the name up again.
executeOperation(c) ==
    /\ phase[c] = "checked"
    /\ getOperation(name[c]) # None
    /\ phase' = [phase EXCEPT ![c] = "running"]
    /\ resolvedOperation' = [resolvedOperation EXCEPT ![c] = getOperation(name[c])]
    /\ UNCHANGED <<disk, daemon, indexVars, name, checked, renewed, sent,
                   registrations, restarts>>

UnknownOperation(c) == phase[c] = "checked" /\ getOperation(name[c]) = None /\ End(c)

\* Faulty variant: a request that is built again looks its operation up again.
RequestOfNow(c) == getOperation(name[c])

\* buildRequest: the first request, and those after a new token.
buildRequest(c) == resolvedOperation[c]

Request(c) ==
    /\ phase[c] = "running"
    /\ buildRequest(c) # None
    /\ sent' = [sent EXCEPT ![c] = @ \cup {buildRequest(c)}]
    /\ UNCHANGED <<disk, daemon, indexVars, phase, name, checked, resolvedOperation,
                   renewed, registrations, restarts>>

Answered(c) == phase[c] = "running" /\ End(c)

Next ==
    \/ Start \/ StartFails \/ SeedIsCut \/ Stop
    \/ \E sp \in Specs : Register(sp) \/ CrashInRegister(sp)
    \/ \E t \in Tools, from, to \in Tiers : Promote(t, from, to)
    \/ \E c \in Calls :
          \/ \E n \in Operations \cup ProviderNames : Dispatch(c, n)
          \/ Refused(c) \/ executeOperation(c) \/ UnknownOperation(c)
          \/ Request(c) \/ Answered(c)

Spec == Init /\ [][Next]_vars

---------------------------------------------------------------------------
(***************************************************************************)
(* Properties                                                              *)
(***************************************************************************)

\* The three maps describe one set of specs: an operation is found, under each
\* of its names, exactly if its tool is registered with a spec that has it, and
\* with that spec; no name leads to a spec that was replaced.
IndexesAgree ==
    LET has(t, op) == specsByTool[t] # None /\ op \in operations[specsByTool[t].spec]
    IN /\ \A op \in Operations :
             IF \E t \in Tools : has(t, op)
             THEN \E t \in Tools : has(t, op) /\ operationsByCanonicalName[op] =
                                                     CanonicalEntry(specsByTool[t], op)
             ELSE operationsByCanonicalName[op] = None
       /\ \A n \in ProviderNames :
             LET ops == {op \in Operations : providerName[op] = n /\ \E t \in Tools : has(t, op)}
             IN operationsByProviderName[n] = IF ops = {} THEN None
                                              ELSE operationsByCanonicalName[Max(ops)]

AtMostOneFile == \A t \in Tools : Cardinality(Files(disk, t)) <= 1
SeedWhole == disk["trusted"][tool[SeededSpec]] # Torn

\* Whatever was registered, promoted or interrupted, the next start succeeds, and
\* finds what the daemon runs with: unless a tool has two files, because it was
\* registered again while it was in a reviewed tier, or the seed was cut.
RestartSucceeds ==
    (AtMostOneFile /\ SeedWhole) =>
        /\ Loads(Seeded)
        /\ daemon = "up" => \A t \in Tools :
              LET loaded == LoadedSpec(Seeded, t)
              IN IF loaded = None THEN specsByTool[t] = None
                 ELSE specsByTool[t] # None /\ specsByTool[t].spec = loaded.spec

\* All the requests of a call are built from one definition, and that is the one
\* the policy saw, unless its tool was registered again while the policy or the
\* user decided.
RunsCheckedSpec ==
    \A c \in Calls : \A entry \in sent[c] :
        /\ entry = resolvedOperation[c]
        /\ ~renewed[c] => entry = checked[c]

\* docs/architecture.md:1654 of spec.register: "writes to `~/.agent/tools/untrusted/`
\* -> loads into runtime -> available to future sessions".  Then what is written
\* does not keep the daemon from starting.
RegisteredForFutureSessions == SeedWhole => Loads(Seeded)
=============================================================================
