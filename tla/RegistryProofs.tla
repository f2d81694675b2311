--------------------------- MODULE RegistryProofs ---------------------------
(***************************************************************************)
(* Proofs about Registry, for any set of tools and specs: the indexes of   *)
(* the registry agree, and a call runs the definition that the policy saw. *)
(***************************************************************************)
EXTENDS Registry, TLAPS, FiniteSetTheorems, WellFoundedInduction

\* What a registered spec, or no spec, provides.
Has(registered, op) == registered # None /\ op \in operations[registered.spec]
HasNamed(registered, n) == registered # None /\ Provided(registered.spec, n) # {}

\* A file is named after the tool of the spec in it.
FilesNamed ==
    \A tier \in Tiers, t \in Tools :
        disk[tier][t] \in Specs => tool[disk[tier][t]] = t

\* Under every name of an operation of a registered spec there is the entry of
\* that spec, and under no other name is there an entry.
IndexInv ==
    /\ \A t \in Tools : specsByTool[t] # None => tool[specsByTool[t].spec] = t
    /\ \A t \in Tools, op \in Operations :
          Has(specsByTool[t], op) => operationsByCanonicalName[op] = CanonicalEntry(specsByTool[t], op)
    /\ \A op \in Operations :
          operationsByCanonicalName[op] # None => \E t \in Tools : Has(specsByTool[t], op)
    /\ \A t \in Tools, n \in ProviderNames :
          HasNamed(specsByTool[t], n) => operationsByProviderName[n] = ProviderEntry(specsByTool[t], n)
    /\ \A n \in ProviderNames :
          operationsByProviderName[n] # None => \E t \in Tools : HasNamed(specsByTool[t], n)

\* What a call has found: the name it was made with still leads to what the
\* policy saw, until the tool is registered again.
CallInvOf(c) ==
    /\ daemon = "down" => phase[c] = "idle"
    /\ phase[c] # "running" => sent[c] = {}
    /\ phase[c] # "idle" => checked[c] \in Entries
    /\ phase[c] = "checked" =>
          /\ name[c] \in Operations \cup ProviderNames
          /\ ~renewed[c] => getOperation(name[c]) = checked[c]
    /\ phase[c] = "running" =>
          /\ \A entry \in sent[c] : entry = resolvedOperation[c]
          /\ ~renewed[c] => resolvedOperation[c] = checked[c]

CallInv == \A c \in Calls : CallInvOf(c)

Inv == TypeOK /\ FilesNamed /\ IndexInv /\ CallInv

---------------------------------------------------------------------------
(***************************************************************************)
(* Operators.                                                              *)
(***************************************************************************)

\* A finite set of numbers has a greatest one: the set of the elements above
\* some element is minimal for inclusion only if it is empty.
LEMMA MaxIsIn ==
    ASSUME NEW S \in SUBSET Nat, S # {}, IsFiniteSet(S)
    PROVE  Max(S) \in S /\ \A m \in S : m <= Max(S)
  <1> DEFINE Above(least) == {i \in S : i > least}
             T == {Above(least) : least \in S}
  <1>1. IsWellFoundedOn(StrictSubsetOrdering(S), SUBSET S)
    BY FS_StrictSubsetOrderingWellFounded, FS_FiniteSubsetsOfFinite
  <1>2. T \subseteq SUBSET S /\ T # {}
    OBVIOUS
  <1>3. PICK x \in T : \A y \in T : <<y, x>> \notin StrictSubsetOrdering(S)
    <2> HIDE DEF T
    <2> QED
      BY <1>1, <1>2, WFMin
  <1>4. PICK m \in S : x = Above(m)
    BY <1>3
  <1>5. ASSUME NEW k \in S, k > m PROVE FALSE
    <2>0. k \in Nat /\ m \in Nat /\ S \subseteq Nat
      OBVIOUS
    <2>1. k \in Above(m) /\ k \notin Above(k)
      BY <2>0, <1>5
    <2>3. ASSUME NEW i \in S, i > k PROVE i > m
      BY <2>0, <2>3, <1>5
    <2>4. Above(k) \subseteq Above(m)
      BY <2>3
    <2>2. <<Above(k), x>> \in StrictSubsetOrdering(S)
      BY <2>1, <2>4, <1>2, <1>3, <1>4 DEF StrictSubsetOrdering
    <2> QED
      BY <2>2, <1>3
  <1>6. \A k \in S : m >= k
    BY <1>5
  <1> HIDE DEF T
  <1>7. \E a \in S : \A k \in S : a >= k
    BY <1>6
  <1>8. Max(S) \in S /\ \A k \in S : Max(S) >= k
    BY <1>7 DEF Max
  <1> QED
    BY <1>8

LEMMA SpecsAre ==
    ASSUME NEW sp \in Specs
    PROVE  /\ tool[sp] \in Tools /\ sp # None /\ sp # Torn
           /\ operations[sp] \subseteq Operations /\ operations[sp] \subseteq Nat
           /\ \A n : Provided(sp, n) \subseteq operations[sp]
           /\ \A op \in operations[sp] :
                 providerName[op] \in ProviderNames /\ op \in Provided(sp, providerName[op])
  BY RegistryAssumption DEF Operations, Provided

\* The entry found under a provider name is one of the spec, for an operation
\* of that name.
LEMMA EntriesAre ==
    ASSUME NEW registered \in RegisteredSpecs
    PROVE  /\ registered.spec \in Specs
           /\ \A op \in operations[registered.spec] :
                 /\ CanonicalEntry(registered, op) \in Entries
                 /\ CanonicalEntry(registered, op) # None
                 /\ CanonicalEntry(registered, op).registeredSpec = registered
           /\ \A n : Provided(registered.spec, n) # {} =>
                 /\ Max(Provided(registered.spec, n)) \in Provided(registered.spec, n)
                 /\ ProviderEntry(registered, n) \in Entries
                 /\ ProviderEntry(registered, n) # None
                 /\ ProviderEntry(registered, n).registeredSpec = registered
  <1>1. registered.spec \in Specs
    BY DEF RegisteredSpecs
  <1>2. ASSUME NEW op \in operations[registered.spec]
        PROVE  /\ CanonicalEntry(registered, op) \in Entries
               /\ CanonicalEntry(registered, op) # None
               /\ CanonicalEntry(registered, op).registeredSpec = registered
    <2>1. op \in Operations
      BY <1>1, <1>2, SpecsAre
    <2>2. CanonicalEntry(registered, op) \in Entries
      BY <2>1 DEF CanonicalEntry, Entries
    <2> QED
      BY <2>2, NoneAssumption DEF CanonicalEntry
  <1>3. ASSUME NEW n, Provided(registered.spec, n) # {}
        PROVE  Max(Provided(registered.spec, n)) \in Provided(registered.spec, n)
    <2>1. IsFiniteSet(operations[registered.spec])
      BY <1>1, RegistryAssumption
    <2>2. /\ Provided(registered.spec, n) \subseteq operations[registered.spec]
          /\ Provided(registered.spec, n) \in SUBSET Nat
      BY <1>1, SpecsAre
    <2>3. IsFiniteSet(Provided(registered.spec, n))
      BY <2>1, <2>2, FS_Subset
    <2> QED
      BY <1>3, <2>2, <2>3, MaxIsIn
  <1>4. ASSUME NEW n, Provided(registered.spec, n) # {}
        PROVE  Max(Provided(registered.spec, n)) \in operations[registered.spec]
    BY <1>3, <1>4, <1>1, SpecsAre
  <1> QED
    BY <1>1, <1>2, <1>3, <1>4 DEF ProviderEntry

LEMMA ToolsShareNothing ==
    ASSUME NEW sp \in Specs, NEW other \in Specs,
           NEW op \in operations[sp], op \in operations[other]
    PROVE  tool[sp] = tool[other]
  BY RegistryAssumption

\* What is found under a name of an operation is a typed entry of that operation's tool.
LEMMA RegisteredAre ==
    ASSUME TypeOK, IndexInv, NEW t \in Tools, specsByTool[t] # None
    PROVE  /\ specsByTool[t] \in RegisteredSpecs
           /\ specsByTool[t].spec \in Specs
           /\ tool[specsByTool[t].spec] = t
  <1>1. specsByTool[t] \in RegisteredSpecs
    BY DEF TypeOK
  <1> QED
    BY <1>1 DEF IndexInv, RegisteredSpecs

---------------------------------------------------------------------------
(***************************************************************************)
(* Registrations.                                                          *)
(***************************************************************************)

\* The indexes after a commit, name by name.
LEMMA CommitIs ==
    ASSUME TypeOK, IndexInv, NEW sp \in Specs, Commit(sp, "untrusted")
    PROVE  LET registered == [spec |-> sp, trustTier |-> "untrusted"] IN
           /\ specsByTool' = [specsByTool EXCEPT ![tool[sp]] = registered]
           /\ operationsByCanonicalName' = [op \in Operations |->
                 IF op \in operations[sp] THEN CanonicalEntry(registered, op)
                 ELSE IF Has(specsByTool[tool[sp]], op) THEN None ELSE operationsByCanonicalName[op]]
           /\ operationsByProviderName' = [n \in ProviderNames |->
                 IF Provided(sp, n) # {} THEN ProviderEntry(registered, n)
                 ELSE IF HasNamed(specsByTool[tool[sp]], n) THEN None ELSE operationsByProviderName[n]]
  <1> DEFINE t0 == tool[sp]
             existing == specsByTool[t0]
             old == IF existing = None THEN {} ELSE operations[existing.spec]
  <1>1. t0 \in Tools
    BY SpecsAre
  <1>2. \A op : Has(specsByTool[t0], op) <=> op \in old
    BY DEF Has
  <1>3. \A n \in ProviderNames : HasNamed(specsByTool[t0], n) <=> n \in {providerName[op] : op \in old}
    BY DEF HasNamed, Provided
  <1>4. \A op \in Operations :
           Unindexed(operationsByCanonicalName, existing, old)[op] =
              IF Has(specsByTool[t0], op) THEN None ELSE operationsByCanonicalName[op]
    <2>1. CASE existing = None
      BY <2>1, <1>2 DEF Unindexed
    <2>2. CASE existing # None
      <3>1. DOMAIN operationsByCanonicalName = Operations
        BY DEF TypeOK
      <3> HIDE DEF old
      <3> QED
        BY <2>2, <3>1, <1>2 DEF Unindexed
    <2> QED
      BY <2>1, <2>2
  <1>5. \A n \in ProviderNames :
           Unindexed(operationsByProviderName, existing, {providerName[op] : op \in old})[n] =
              IF HasNamed(specsByTool[t0], n) THEN None ELSE operationsByProviderName[n]
    <2>1. CASE existing = None
      BY <2>1, <1>3 DEF Unindexed
    <2>2. CASE existing # None
      <3> DEFINE gone == {providerName[op] : op \in old}
      <3>1. DOMAIN operationsByProviderName = ProviderNames
        BY DEF TypeOK
      <3>2. \A n \in ProviderNames : HasNamed(specsByTool[t0], n) <=> n \in gone
        BY <1>3
      <3> HIDE DEF old, gone
      <3>3. \A n \in ProviderNames :
               Unindexed(operationsByProviderName, existing, gone)[n] =
                  IF HasNamed(specsByTool[t0], n) THEN None ELSE operationsByProviderName[n]
        BY <2>2, <3>1, <3>2 DEF Unindexed
      <3> QED
        BY <3>3 DEF gone
    <2> QED
      BY <2>1, <2>2
  <1> QED
    BY <1>4, <1>5 DEF Commit

\* The tools that share neither an operation nor a name with the admitted spec
\* are all the others.
LEMMA OthersAreApart ==
    ASSUME TypeOK, IndexInv, NEW sp \in Specs, Admitted(sp),
           NEW t \in Tools, t # tool[sp]
    PROVE  /\ \A op \in Operations :
                  Has(specsByTool[t], op) => op \notin operations[sp] /\ ~Has(specsByTool[tool[sp]], op)
           /\ \A n \in ProviderNames :
                  HasNamed(specsByTool[t], n) => Provided(sp, n) = {} /\ ~HasNamed(specsByTool[tool[sp]], n)
  <1>1. ASSUME NEW op \in Operations, Has(specsByTool[t], op)
        PROVE  op \notin operations[sp] /\ ~Has(specsByTool[tool[sp]], op)
    <2>1. specsByTool[t].spec \in Specs /\ tool[specsByTool[t].spec] = t
      BY <1>1, RegisteredAre DEF Has
    <2>2. op \notin operations[sp]
      BY <2>1, <1>1, ToolsShareNothing DEF Has
    <2>3. ~Has(specsByTool[tool[sp]], op)
      BY <2>1, <1>1, RegisteredAre, SpecsAre, ToolsShareNothing DEF Has
    <2> QED
      BY <2>2, <2>3
  <1>2. ASSUME NEW n \in ProviderNames, HasNamed(specsByTool[t], n)
        PROVE  Provided(sp, n) = {} /\ ~HasNamed(specsByTool[tool[sp]], n)
    <2>1. /\ specsByTool[t] \in RegisteredSpecs
          /\ specsByTool[t].spec \in Specs /\ tool[specsByTool[t].spec] = t
      BY <1>2, RegisteredAre DEF HasNamed
    <2>2. operationsByProviderName[n] = ProviderEntry(specsByTool[t], n)
      BY <1>2 DEF IndexInv
    <2>3. /\ operationsByProviderName[n] # None
          /\ operationsByProviderName[n].registeredSpec = specsByTool[t]
      BY <2>1, <2>2, <1>2, EntriesAre DEF HasNamed
    <2>4. Provided(sp, n) = {}
      <3>1. SUFFICES ASSUME NEW op \in operations[sp], providerName[op] = n PROVE FALSE
        BY DEF Provided
      <3>2. tool[operationsByProviderName[providerName[op]].registeredSpec.spec] = t
        BY <3>1, <2>3, <2>1
      <3>3. t # (IF specsByTool[tool[sp]] = None THEN None ELSE tool[sp])
        BY RegistryAssumption
      <3> QED
        BY <3>1, <3>2, <3>3, <2>3 DEF Admitted, DuplicateOperation
    <2>5. ASSUME HasNamed(specsByTool[tool[sp]], n) PROVE FALSE
      <3>1. /\ tool[sp] \in Tools /\ specsByTool[tool[sp]] # None
            /\ specsByTool[tool[sp]] \in RegisteredSpecs
            /\ tool[specsByTool[tool[sp]].spec] = tool[sp]
        BY <2>5, RegisteredAre, SpecsAre DEF HasNamed
      <3>2. operationsByProviderName[n] = ProviderEntry(specsByTool[tool[sp]], n)
        BY <2>5, <3>1 DEF IndexInv
      <3>3. operationsByProviderName[n].registeredSpec = specsByTool[tool[sp]]
        BY <3>1, <3>2, <2>5, EntriesAre DEF HasNamed
      <3> QED
        BY <3>1, <3>3, <2>3, <2>1
    <2> QED
      BY <2>4, <2>5
  <1> QED
    BY <1>1, <1>2

IndexTyped ==
    /\ specsByTool \in [Tools -> RegisteredSpecs \cup {None}]
    /\ operationsByCanonicalName \in [Operations -> Entries \cup {None}]
    /\ operationsByProviderName \in [ProviderNames -> Entries \cup {None}]

LEMMA CommitKeepsIndex ==
    ASSUME TypeOK, IndexInv, NEW sp \in Specs, Admitted(sp), Commit(sp, "untrusted")
    PROVE  IndexTyped' /\ IndexInv'
  <1> DEFINE registered == [spec |-> sp, trustTier |-> "untrusted"]
             t0 == tool[sp]
  <1>1. /\ specsByTool' = [specsByTool EXCEPT ![t0] = registered]
        /\ operationsByCanonicalName' = [op \in Operations |->
              IF op \in operations[sp] THEN CanonicalEntry(registered, op)
              ELSE IF Has(specsByTool[t0], op) THEN None ELSE operationsByCanonicalName[op]]
        /\ operationsByProviderName' = [n \in ProviderNames |->
              IF Provided(sp, n) # {} THEN ProviderEntry(registered, n)
              ELSE IF HasNamed(specsByTool[t0], n) THEN None ELSE operationsByProviderName[n]]
    BY CommitIs
  <1>2. t0 \in Tools /\ registered \in RegisteredSpecs /\ registered.spec = sp /\ registered # None
    BY SpecsAre, NoneAssumption DEF RegisteredSpecs, Tiers
  <1>3. \A op \in operations[sp] : CanonicalEntry(registered, op) \in Entries
    BY <1>2, EntriesAre
  <1>4. \A n : Provided(sp, n) # {} => ProviderEntry(registered, n) \in Entries
    BY <1>2, EntriesAre
  <1> HIDE DEF registered, t0
  <1>5. IndexTyped'
    <2>1. specsByTool' \in [Tools -> RegisteredSpecs \cup {None}]
      BY <1>1, <1>2 DEF TypeOK
    <2>2. operationsByCanonicalName' \in [Operations -> Entries \cup {None}]
      BY <1>1, <1>3 DEF TypeOK
    <2>3. operationsByProviderName' \in [ProviderNames -> Entries \cup {None}]
      BY <1>1, <1>4 DEF TypeOK
    <2> QED
      BY <2>1, <2>2, <2>3 DEF IndexTyped
  <1>6. \A t \in Tools : specsByTool'[t] = IF t = t0 THEN registered ELSE specsByTool[t]
    BY <1>1 DEF TypeOK
  <1>7. \A op : Has(registered, op) <=> op \in operations[sp]
    BY <1>2 DEF Has
  <1>8. \A n : HasNamed(registered, n) <=> Provided(sp, n) # {}
    BY <1>2 DEF HasNamed
  <1>9. ASSUME NEW t \in Tools, t # t0
        PROVE  /\ \A op \in Operations : Has(specsByTool[t], op) => op \notin operations[sp] /\ ~Has(specsByTool[t0], op)
               /\ \A n \in ProviderNames : HasNamed(specsByTool[t], n) => Provided(sp, n) = {} /\ ~HasNamed(specsByTool[t0], n)
    BY <1>9, OthersAreApart DEF t0
  <1>10. ASSUME NEW t \in Tools, specsByTool'[t] # None PROVE tool[specsByTool'[t].spec] = t
    BY <1>10, <1>2, <1>6 DEF IndexInv, t0
  <1>11. ASSUME NEW t \in Tools, NEW op \in Operations, Has(specsByTool'[t], op)
         PROVE  operationsByCanonicalName'[op] = CanonicalEntry(specsByTool'[t], op)
    <2>1. CASE t = t0
      BY <2>1, <1>1, <1>6, <1>7, <1>11
    <2>2. CASE t # t0
      <3>1. Has(specsByTool[t], op) /\ op \notin operations[sp] /\ ~Has(specsByTool[t0], op)
        BY <2>2, <1>6, <1>7, <1>9, <1>11
      <3>2. operationsByCanonicalName[op] = CanonicalEntry(specsByTool[t], op)
        BY <3>1 DEF IndexInv
      <3> QED
        BY <2>2, <3>1, <3>2, <1>1, <1>6
    <2> QED
      BY <2>1, <2>2
  <1>12. ASSUME NEW op \in Operations, operationsByCanonicalName'[op] # None
         PROVE  \E t \in Tools : Has(specsByTool'[t], op)
    <2>1. CASE op \in operations[sp]
      BY <2>1, <1>2, <1>6, <1>7
    <2>2. CASE op \notin operations[sp]
      <3>1. ~Has(specsByTool[t0], op) /\ operationsByCanonicalName[op] # None
        BY <2>2, <1>1, <1>12
      <3>2. PICK t \in Tools : Has(specsByTool[t], op)
        BY <3>1 DEF IndexInv
      <3> QED
        BY <3>1, <3>2, <1>6, <1>7
    <2> QED
      BY <2>1, <2>2
  <1>13. ASSUME NEW t \in Tools, NEW n \in ProviderNames, HasNamed(specsByTool'[t], n)
         PROVE  operationsByProviderName'[n] = ProviderEntry(specsByTool'[t], n)
    <2>1. CASE t = t0
      BY <2>1, <1>1, <1>6, <1>8, <1>13
    <2>2. CASE t # t0
      <3>1. HasNamed(specsByTool[t], n) /\ Provided(sp, n) = {} /\ ~HasNamed(specsByTool[t0], n)
        BY <2>2, <1>6, <1>8, <1>9, <1>13
      <3>2. operationsByProviderName[n] = ProviderEntry(specsByTool[t], n)
        BY <3>1 DEF IndexInv
      <3> QED
        BY <2>2, <3>1, <3>2, <1>1, <1>6
    <2> QED
      BY <2>1, <2>2
  <1>14. ASSUME NEW n \in ProviderNames, operationsByProviderName'[n] # None
         PROVE  \E t \in Tools : HasNamed(specsByTool'[t], n)
    <2>1. CASE Provided(sp, n) # {}
      BY <2>1, <1>2, <1>6, <1>8
    <2>2. CASE Provided(sp, n) = {}
      <3>1. ~HasNamed(specsByTool[t0], n) /\ operationsByProviderName[n] # None
        BY <2>2, <1>1, <1>14
      <3>2. PICK t \in Tools : HasNamed(specsByTool[t], n)
        BY <3>1 DEF IndexInv
      <3> QED
        BY <3>1, <3>2, <1>6, <1>8
    <2> QED
      BY <2>1, <2>2
  <1>15. IndexInv'
    BY <1>10, <1>11, <1>12, <1>13, <1>14 DEF IndexInv
  <1> QED
    BY <1>5, <1>15

\* A name that leads elsewhere after a registration led to nothing or to the
\* same tool before.
LEMMA CommitKeepsNames ==
    ASSUME TypeOK, IndexInv, NEW sp \in Specs, Admitted(sp), Commit(sp, "untrusted"),
           NEW n \in Operations \cup ProviderNames, getOperation(n) # None,
           tool[getOperation(n).registeredSpec.spec] # tool[sp]
    PROVE  getOperation(n)' = getOperation(n)
  <1>1. CASE n \in Operations
    <2>1. getOperation(n) = operationsByCanonicalName[n]
      BY <1>1 DEF getOperation
    <2>2. PICK t \in Tools : Has(specsByTool[t], n)
      BY <1>1, <2>1 DEF IndexInv
    <2>3. /\ specsByTool[t] \in RegisteredSpecs /\ tool[specsByTool[t].spec] = t
          /\ operationsByCanonicalName[n] = CanonicalEntry(specsByTool[t], n)
      BY <1>1, <2>2, RegisteredAre DEF Has, IndexInv
    <2>4. t # tool[sp]
      BY <2>1, <2>3 DEF CanonicalEntry
    <2>5. n \notin operations[sp] /\ ~Has(specsByTool[tool[sp]], n)
      BY <1>1, <2>2, <2>4, OthersAreApart
    <2>6. operationsByCanonicalName' = [op \in Operations |->
             IF op \in operations[sp]
             THEN CanonicalEntry([spec |-> sp, trustTier |-> "untrusted"], op)
             ELSE IF Has(specsByTool[tool[sp]], op) THEN None ELSE operationsByCanonicalName[op]]
      BY CommitIs
    <2>7. operationsByCanonicalName'[n] = operationsByCanonicalName[n]
      BY <1>1, <2>5, <2>6
    <2> QED
      BY <1>1, <2>7 DEF getOperation
  <1>2. CASE n \in ProviderNames
    <2>0. n \notin Operations
      BY <1>2, RegistryAssumption
    <2>1. getOperation(n) = operationsByProviderName[n]
      BY <2>0 DEF getOperation
    <2>2. PICK t \in Tools : HasNamed(specsByTool[t], n)
      BY <1>2, <2>1 DEF IndexInv
    <2>3. /\ specsByTool[t] \in RegisteredSpecs /\ tool[specsByTool[t].spec] = t
          /\ operationsByProviderName[n] = ProviderEntry(specsByTool[t], n)
      BY <1>2, <2>2, RegisteredAre DEF HasNamed, IndexInv
    <2>4. t # tool[sp]
      BY <2>1, <2>3 DEF ProviderEntry, CanonicalEntry
    <2>5. Provided(sp, n) = {} /\ ~HasNamed(specsByTool[tool[sp]], n)
      BY <1>2, <2>2, <2>4, OthersAreApart
    <2>6. operationsByProviderName' = [m \in ProviderNames |->
             IF Provided(sp, m) # {}
             THEN ProviderEntry([spec |-> sp, trustTier |-> "untrusted"], m)
             ELSE IF HasNamed(specsByTool[tool[sp]], m) THEN None ELSE operationsByProviderName[m]]
      BY CommitIs
    <2>7. operationsByProviderName'[n] = operationsByProviderName[n]
      BY <1>2, <2>5, <2>6
    <2> QED
      BY <2>0, <2>7 DEF getOperation
  <1> QED
    BY <1>1, <1>2

---------------------------------------------------------------------------
(***************************************************************************)
(* Starts.                                                                 *)
(***************************************************************************)

FileContents == Specs \cup {None, Torn}

LEMMA SeededIs ==
    ASSUME TypeOK, FilesNamed
    PROVE  /\ Seeded \in [Tiers -> [Tools -> FileContents]]
           /\ \A tier \in Tiers, t \in Tools :
                 Seeded[tier][t] \in Specs => tool[Seeded[tier][t]] = t
  <1>1. tool[SeededSpec] \in Tools /\ SeededSpec \in Specs /\ "trusted" \in Tiers
    BY RegistryAssumption DEF Tiers
  <1>2. CASE disk["trusted"][tool[SeededSpec]] # None
    BY <1>2 DEF Seeded, TypeOK, FilesNamed, FileContents
  <1>3. CASE disk["trusted"][tool[SeededSpec]] = None
    <2>1. Seeded = [disk EXCEPT !["trusted"][tool[SeededSpec]] = SeededSpec]
      BY <1>3 DEF Seeded
    <2>2. \A tier \in Tiers, t \in Tools :
             Seeded[tier][t] = IF tier = "trusted" /\ t = tool[SeededSpec]
                               THEN SeededSpec ELSE disk[tier][t]
      BY <1>1, <2>1 DEF TypeOK
    <2>3. Seeded \in [Tiers -> [Tools -> FileContents]]
      BY <1>1, <2>1 DEF TypeOK, FileContents
    <2> QED
      BY <2>2, <2>3 DEF FilesNamed
  <1> QED
    BY <1>2, <1>3

\* What a tool is registered with after a load comes from one of its files.
LEMMA LoadedIs ==
    ASSUME TypeOK, FilesNamed, Loads(Seeded), NEW t \in Tools, LoadedSpec(Seeded, t) # None
    PROVE  /\ LoadedSpec(Seeded, t) \in RegisteredSpecs
           /\ LoadedSpec(Seeded, t).spec \in Specs
           /\ tool[LoadedSpec(Seeded, t).spec] = t
           /\ \E tier \in Tiers : /\ Seeded[tier][t] # None
                                   /\ Seeded[tier][t] = LoadedSpec(Seeded, t).spec
  <1> DEFINE tier == CHOOSE tier \in Files(Seeded, t) : TRUE
  <1>1. Files(Seeded, t) # {}
    BY DEF LoadedSpec
  <1>2. tier \in Tiers /\ Seeded[tier][t] # None
    BY <1>1 DEF Files
  <1>3. LoadedSpec(Seeded, t) = [spec |-> Seeded[tier][t], trustTier |-> tier]
    BY <1>1 DEF LoadedSpec
  <1> HIDE DEF tier
  <1>4. Seeded[tier][t] # Torn
    BY <1>2 DEF Loads
  <1>5. Seeded[tier][t] \in Specs
    BY <1>2, <1>4, SeededIs DEF FileContents
  <1>6. tool[Seeded[tier][t]] = t
    BY <1>2, <1>5, SeededIs
  <1> QED
    BY <1>2, <1>3, <1>5, <1>6 DEF RegisteredSpecs

\* No two tools of a load share an operation or a name.
LEMMA LoadedAreApart ==
    ASSUME TypeOK, FilesNamed, Loads(Seeded), NEW t \in Tools, NEW u \in Tools, t # u
    PROVE  /\ \A op : ~(Has(LoadedSpec(Seeded, t), op) /\ Has(LoadedSpec(Seeded, u), op))
           /\ \A n : ~(HasNamed(LoadedSpec(Seeded, t), n) /\ HasNamed(LoadedSpec(Seeded, u), n))
  <1> DEFINE one == LoadedSpec(Seeded, t)
             two == LoadedSpec(Seeded, u)
  <1>1. SUFFICES ASSUME one # None, two # None
                 PROVE  /\ \A op : ~(Has(one, op) /\ Has(two, op))
                        /\ \A n : ~(HasNamed(one, n) /\ HasNamed(two, n))
    BY DEF Has, HasNamed
  <1>2. /\ one.spec \in Specs /\ tool[one.spec] = t
        /\ two.spec \in Specs /\ tool[two.spec] = u
    BY <1>1, LoadedIs
  <1>3. PICK first \in Tiers : Seeded[first][t] # None /\ Seeded[first][t] = one.spec
    BY <1>1, LoadedIs
  <1>4. PICK second \in Tiers : Seeded[second][u] # None /\ Seeded[second][u] = two.spec
    BY <1>1, LoadedIs
  <1>5. \A op \in operations[one.spec], other \in operations[two.spec] :
           providerName[op] # providerName[other]
    BY <1>3, <1>4 DEF Loads
  <1> HIDE DEF one, two
  <1>6. \A op : ~(Has(one, op) /\ Has(two, op))
    BY <1>2, ToolsShareNothing DEF Has
  <1>7. \A n : ~(HasNamed(one, n) /\ HasNamed(two, n))
    BY <1>5 DEF HasNamed, Provided
  <1> QED
    BY <1>6, <1>7

LEMMA StartKeepsIndex ==
    ASSUME TypeOK, FilesNamed, Start
    PROVE  IndexTyped' /\ IndexInv'
  <1> DEFINE loaded(t) == LoadedSpec(Seeded, t)
             of(op) == {t \in Tools : Has(loaded(t), op)}
             named(n) == {t \in Tools : HasNamed(loaded(t), n)}
  <1>1. Loads(Seeded)
    BY DEF Start
  <1>2. specsByTool' = [t \in Tools |-> loaded(t)]
    BY DEF Start
  <1>3. operationsByCanonicalName' =
           [op \in Operations |-> IF of(op) = {} THEN None
               ELSE CanonicalEntry(loaded(CHOOSE t \in of(op) : TRUE), op)]
    BY DEF Start, Has
  <1>4. operationsByProviderName' =
           [n \in ProviderNames |-> IF named(n) = {} THEN None
               ELSE ProviderEntry(loaded(CHOOSE t \in named(n) : TRUE), n)]
    BY DEF Start, HasNamed
  <1>5. \A t \in Tools : loaded(t) # None =>
           loaded(t) \in RegisteredSpecs /\ tool[loaded(t).spec] = t
    BY <1>1, LoadedIs
  <1>6. \A op, t : t \in of(op) => of(op) = {t}
    BY <1>1, LoadedAreApart
  <1>7. \A n, t : t \in named(n) => named(n) = {t}
    BY <1>1, LoadedAreApart
  <1>8. ASSUME NEW op \in Operations, NEW t \in of(op)
        PROVE  operationsByCanonicalName'[op] = CanonicalEntry(loaded(t), op)
    <2>1. of(op) = {t}
      BY <1>6, <1>8
    <2>2. (CHOOSE u \in of(op) : TRUE) = t
      BY <2>1
    <2> HIDE DEF of, loaded
    <2> QED
      BY <1>3, <1>8, <2>2
  <1>9. ASSUME NEW n \in ProviderNames, NEW t \in named(n)
        PROVE  operationsByProviderName'[n] = ProviderEntry(loaded(t), n)
    <2>1. named(n) = {t}
      BY <1>7, <1>9
    <2>2. (CHOOSE u \in named(n) : TRUE) = t
      BY <2>1
    <2> HIDE DEF named, loaded
    <2> QED
      BY <1>4, <1>9, <2>2
  <1>10. ASSUME NEW op \in Operations, NEW t \in of(op)
         PROVE  operationsByCanonicalName'[op] \in Entries
    <2>1. loaded(t) \in RegisteredSpecs /\ op \in operations[loaded(t).spec]
      BY <1>5, <1>10 DEF Has
    <2> HIDE DEF loaded
    <2>2. CanonicalEntry(loaded(t), op) \in Entries
      BY <2>1, EntriesAre
    <2> QED
      BY <2>2, <1>8, <1>10
  <1>11. ASSUME NEW n \in ProviderNames, NEW t \in named(n)
         PROVE  operationsByProviderName'[n] \in Entries
    <2>1. loaded(t) \in RegisteredSpecs /\ Provided(loaded(t).spec, n) # {}
      BY <1>5, <1>11 DEF HasNamed
    <2> HIDE DEF loaded
    <2>2. ProviderEntry(loaded(t), n) \in Entries
      BY <2>1, EntriesAre
    <2> QED
      BY <2>2, <1>9, <1>11
  <1>12. ASSUME NEW op \in Operations, of(op) = {} PROVE operationsByCanonicalName'[op] = None
    <2> HIDE DEF of, loaded
    <2> QED
      BY <1>3, <1>12
  <1>13. ASSUME NEW n \in ProviderNames, named(n) = {} PROVE operationsByProviderName'[n] = None
    <2> HIDE DEF named, loaded
    <2> QED
      BY <1>4, <1>13
  <1>14. /\ DOMAIN operationsByCanonicalName' = Operations
         /\ operationsByCanonicalName' = [op \in Operations |-> operationsByCanonicalName'[op]]
         /\ operationsByProviderName' = [n \in ProviderNames |-> operationsByProviderName'[n]]
    <2> HIDE DEF of, named, loaded
    <2> QED
      BY <1>3, <1>4
  <1>15. IndexTyped'
    <2>1. specsByTool' \in [Tools -> RegisteredSpecs \cup {None}]
      <3> HIDE DEF loaded
      <3> QED
        BY <1>2, <1>5
    <2>2. \A op \in Operations : operationsByCanonicalName'[op] \in Entries \cup {None}
      <3> HIDE DEF of
      <3> QED
        BY <1>10, <1>12
    <2>3. \A n \in ProviderNames : operationsByProviderName'[n] \in Entries \cup {None}
      <3> HIDE DEF named
      <3> QED
        BY <1>11, <1>13
    <2> QED
      BY <2>1, <2>2, <2>3, <1>14 DEF IndexTyped
  <1>16. ASSUME NEW t \in Tools PROVE specsByTool'[t] = loaded(t)
    BY <1>2
  <1>17. IndexInv'
    <2>1. \A t \in Tools : specsByTool'[t] # None => tool[specsByTool'[t].spec] = t
      BY <1>5, <1>16
    <2>2. \A t \in Tools, op \in Operations : Has(specsByTool'[t], op) =>
             operationsByCanonicalName'[op] = CanonicalEntry(specsByTool'[t], op)
      BY <1>8, <1>16
    <2>3. \A op \in Operations : operationsByCanonicalName'[op] # None =>
             \E t \in Tools : Has(specsByTool'[t], op)
      BY <1>12, <1>16
    <2>4. \A t \in Tools, n \in ProviderNames : HasNamed(specsByTool'[t], n) =>
             operationsByProviderName'[n] = ProviderEntry(specsByTool'[t], n)
      BY <1>9, <1>16
    <2>5. \A n \in ProviderNames : operationsByProviderName'[n] # None =>
             \E t \in Tools : HasNamed(specsByTool'[t], n)
      BY <1>13, <1>16
    <2> QED
      BY <2>1, <2>2, <2>3, <2>4, <2>5 DEF IndexInv
  <1> QED
    BY <1>15, <1>17

---------------------------------------------------------------------------
(***************************************************************************)
(* Calls.                                                                  *)
(***************************************************************************)

CallTyped ==
    /\ phase \in [Calls -> {"idle", "checked", "running"}]
    /\ name \in [Calls -> Operations \cup ProviderNames \cup {None}]
    /\ checked \in [Calls -> Entries \cup {None}]
    /\ resolvedOperation \in [Calls -> Entries \cup {None}]
    /\ renewed \in [Calls -> BOOLEAN]
    /\ sent \in [Calls -> SUBSET Entries]

CallStep(c) ==
    \/ \E n \in Operations \cup ProviderNames : Dispatch(c, n)
    \/ Refused(c) \/ executeOperation(c) \/ UnknownOperation(c)
    \/ Request(c) \/ Answered(c)

LEMMA FoundIsTyped ==
    ASSUME TypeOK, NEW n \in Operations \cup ProviderNames, getOperation(n) # None
    PROVE  getOperation(n) \in Entries
  BY DEF TypeOK, getOperation

\* A call apart from those that the step is about.
LEMMA OtherCalls ==
    ASSUME CallInv, NEW d \in Calls, UNCHANGED indexVars,
           daemon' = daemon, phase'[d] = phase[d], name'[d] = name[d], checked'[d] = checked[d],
           resolvedOperation'[d] = resolvedOperation[d], renewed'[d] = renewed[d],
           sent'[d] = sent[d]
    PROVE  CallInvOf(d)'
  BY DEF CallInv, CallInvOf, getOperation, indexVars

LEMMA EndKeepsCalls ==
    ASSUME TypeOK, CallInv, NEW c \in Calls, End(c)
    PROVE  CallTyped' /\ CallInv'
  <1>1. CallTyped'
    BY DEF End, TypeOK, CallTyped
  <1>2. ASSUME NEW d \in Calls, d # c PROVE CallInvOf(d)'
    <2>1. phase'[d] = phase[d] /\ name'[d] = name[d] /\ checked'[d] = checked[d]
      BY <1>2 DEF End, TypeOK
    <2>2. /\ resolvedOperation'[d] = resolvedOperation[d] /\ renewed'[d] = renewed[d]
          /\ sent'[d] = sent[d]
      BY <1>2 DEF End, TypeOK
    <2>3. UNCHANGED <<indexVars, daemon>>
      BY DEF End
    <2> QED
      BY <2>1, <2>2, <2>3, OtherCalls
  <1>3. CallInvOf(c)'
    <2>1. phase'[c] = "idle" /\ sent'[c] = {}
      BY DEF End, TypeOK
    <2> QED
      BY <2>1 DEF CallInvOf
  <1> QED
    BY <1>1, <1>2, <1>3 DEF CallInv

LEMMA DispatchKeepsCalls ==
    ASSUME TypeOK, CallInv, NEW c \in Calls, NEW n \in Operations \cup ProviderNames,
           Dispatch(c, n)
    PROVE  CallTyped' /\ CallInv'
  <1>1. getOperation(n) \in Entries
    BY FoundIsTyped DEF Dispatch
  <1>2. CallTyped'
    BY <1>1 DEF Dispatch, TypeOK, CallTyped
  <1>3. UNCHANGED <<indexVars, daemon, sent, renewed, resolvedOperation>>
    BY DEF Dispatch
  <1>4. ASSUME NEW d \in Calls, d # c PROVE CallInvOf(d)'
    <2>1. phase'[d] = phase[d] /\ name'[d] = name[d] /\ checked'[d] = checked[d]
      BY <1>4 DEF Dispatch, TypeOK
    <2> QED
      BY <2>1, <1>3, OtherCalls
  <1>5. CallInvOf(c)'
    <2>1. phase'[c] = "checked"
      BY DEF Dispatch, TypeOK
    <2>2. name'[c] = n
      BY DEF Dispatch, TypeOK
    <2>3. checked'[c] = getOperation(n)
      BY DEF Dispatch, TypeOK
    <2>4. sent[c] = {} /\ daemon = "up"
      BY DEF Dispatch, CallInv, CallInvOf
    <2> QED
      BY <2>1, <2>2, <2>3, <2>4, <1>1, <1>3 DEF CallInvOf, getOperation, indexVars
  <1> QED
    BY <1>2, <1>4, <1>5 DEF CallInv

LEMMA executeOperationKeepsCalls ==
    ASSUME TypeOK, CallInv, NEW c \in Calls, executeOperation(c)
    PROVE  CallTyped' /\ CallInv'
  <1>1. /\ phase[c] = "checked" /\ sent[c] = {} /\ checked[c] \in Entries
        /\ name[c] \in Operations \cup ProviderNames /\ daemon # "down"
        /\ ~renewed[c] => getOperation(name[c]) = checked[c]
    BY DEF executeOperation, CallInv, CallInvOf
  <1>2. getOperation(name[c]) \in Entries
    BY <1>1, FoundIsTyped DEF executeOperation
  <1>3. CallTyped'
    BY <1>2 DEF executeOperation, TypeOK, CallTyped
  <1>4. UNCHANGED <<indexVars, daemon, name, checked, renewed, sent>>
    BY DEF executeOperation
  <1>5. ASSUME NEW d \in Calls, d # c PROVE CallInvOf(d)'
    <2>1. phase'[d] = phase[d] /\ resolvedOperation'[d] = resolvedOperation[d]
      BY <1>5 DEF executeOperation, TypeOK
    <2> QED
      BY <2>1, <1>4, OtherCalls
  <1>6. CallInvOf(c)'
    <2>1. phase'[c] = "running"
      BY DEF executeOperation, TypeOK
    <2>2. resolvedOperation'[c] = getOperation(name[c])
      BY DEF executeOperation, TypeOK
    <2> QED
      BY <2>1, <2>2, <1>1, <1>4 DEF CallInvOf
  <1> QED
    BY <1>3, <1>5, <1>6 DEF CallInv

LEMMA RequestKeepsCalls ==
    ASSUME TypeOK, CallInv, NEW c \in Calls, Request(c)
    PROVE  CallTyped' /\ CallInv'
  <1>1. resolvedOperation[c] \in Entries
    BY DEF Request, buildRequest, TypeOK
  <1>2. CallTyped'
    BY <1>1 DEF Request, buildRequest, TypeOK, CallTyped
  <1>3. UNCHANGED <<indexVars, daemon, phase, name, checked, renewed, resolvedOperation>>
    BY DEF Request
  <1>4. ASSUME NEW d \in Calls, d # c PROVE CallInvOf(d)'
    <2>1. sent'[d] = sent[d]
      BY <1>4 DEF Request, TypeOK
    <2> QED
      BY <2>1, <1>3, OtherCalls
  <1>5. CallInvOf(c)'
    <2>1. sent'[c] = sent[c] \cup {resolvedOperation[c]} /\ phase[c] = "running"
      BY DEF Request, buildRequest, TypeOK
    <2>2. CallInvOf(c)
      BY DEF CallInv
    <2> QED
      BY <2>1, <2>2, <1>3 DEF CallInvOf
  <1> QED
    BY <1>2, <1>4, <1>5 DEF CallInv

LEMMA CallStepKeeps ==
    ASSUME Inv, NEW c \in Calls, CallStep(c)
    PROVE  Inv'
  <1> USE DEF Inv
  <1>1. UNCHANGED <<disk, daemon, indexVars, registrations, restarts>>
    BY DEF CallStep, Dispatch, Refused, executeOperation, UnknownOperation, Request, Answered, End
  <1>2. CallTyped' /\ CallInv'
    <2>1. CASE \E n \in Operations \cup ProviderNames : Dispatch(c, n)
      BY <2>1, DispatchKeepsCalls
    <2>2. CASE Refused(c) \/ UnknownOperation(c) \/ Answered(c)
      BY <2>2, EndKeepsCalls DEF Refused, UnknownOperation, Answered
    <2>3. CASE executeOperation(c)
      BY <2>3, executeOperationKeepsCalls
    <2>4. CASE Request(c)
      BY <2>4, RequestKeepsCalls
    <2> QED
      BY <2>1, <2>2, <2>3, <2>4 DEF CallStep
  <1>3. TypeOK'
    BY <1>1, <1>2 DEF TypeOK, CallTyped, indexVars
  <1>4. FilesNamed' /\ IndexInv'
    BY <1>1 DEF FilesNamed, IndexInv, indexVars, Has, HasNamed
  <1> QED
    BY <1>2, <1>3, <1>4

---------------------------------------------------------------------------
(***************************************************************************)
(* The other steps.                                                        *)
(***************************************************************************)

LEMMA StartKeeps == ASSUME Inv, Start PROVE Inv'
  <1> USE DEF Inv
  <1>1. IndexTyped' /\ IndexInv'
    BY StartKeepsIndex
  <1>2. /\ disk' = Seeded /\ daemon' = "up" /\ daemon = "down"
        /\ UNCHANGED <<callVars, registrations, restarts>>
    BY DEF Start
  <1>3. TypeOK'
    BY <1>1, <1>2, SeededIs DEF TypeOK, IndexTyped, callVars, FileContents
  <1>4. FilesNamed'
    BY <1>2, SeededIs DEF FilesNamed
  <1>5. ASSUME NEW c \in Calls PROVE CallInvOf(c)'
    <2>1. phase[c] = "idle" /\ sent[c] = {}
      BY <1>2 DEF CallInv, CallInvOf
    <2> QED
      BY <2>1, <1>2 DEF CallInvOf, callVars
  <1> QED
    BY <1>1, <1>3, <1>4, <1>5 DEF CallInv

\* A step that changes nothing but files, which stay typed and named.
LEMMA FilesStepKeeps ==
    ASSUME Inv, UNCHANGED <<daemon, indexVars, callVars, registrations>>,
           restarts' \in 0..MaxRestarts,
           disk' \in [Tiers -> [Tools -> FileContents]], FilesNamed'
    PROVE  Inv'
  <1> USE DEF Inv
  <1>1. TypeOK'
    BY DEF TypeOK, indexVars, callVars, FileContents
  <1>2. IndexInv'
    BY DEF IndexInv, indexVars
  <1>3. CallInv'
    BY DEF CallInv, CallInvOf, getOperation, indexVars, callVars
  <1> QED
    BY <1>1, <1>2, <1>3

\* The file of one tool in one tier is replaced by one that is torn, or of this tool.
LEMMA FileReplaced ==
    ASSUME TypeOK, FilesNamed, NEW tier \in Tiers, NEW t \in Tools, NEW file \in FileContents,
           file \in Specs => tool[file] = t,
           disk' = [disk EXCEPT ![tier][t] = file]
    PROVE  disk' \in [Tiers -> [Tools -> FileContents]] /\ FilesNamed'
  <1>1. disk \in [Tiers -> [Tools -> FileContents]]
    BY DEF TypeOK, FileContents
  <1>2. disk' \in [Tiers -> [Tools -> FileContents]]
    BY <1>1
  <1>3. \A other \in Tiers, u \in Tools :
           disk'[other][u] = IF other = tier /\ u = t THEN file ELSE disk[other][u]
    BY <1>1
  <1> QED
    BY <1>2, <1>3 DEF FilesNamed

LEMMA StartFailsKeeps == ASSUME Inv, StartFails PROVE Inv'
  <1>1. disk' = Seeded /\ UNCHANGED <<daemon, indexVars, callVars, registrations, restarts>>
    BY DEF StartFails
  <1>2. disk' \in [Tiers -> [Tools -> FileContents]] /\ FilesNamed'
    BY <1>1, SeededIs DEF FilesNamed, Inv
  <1> QED
    BY <1>1, <1>2, FilesStepKeeps DEF Inv, TypeOK

LEMMA SeedIsCutKeeps == ASSUME Inv, SeedIsCut PROVE Inv'
  <1>1. /\ disk' = [disk EXCEPT !["trusted"][tool[SeededSpec]] = Torn]
        /\ UNCHANGED <<daemon, indexVars, callVars, registrations>>
        /\ restarts < MaxRestarts /\ restarts' = restarts + 1
    BY DEF SeedIsCut
  <1>2. "trusted" \in Tiers /\ tool[SeededSpec] \in Tools /\ Torn \in FileContents /\ Torn \notin Specs
    BY RegistryAssumption DEF Tiers, FileContents
  <1>3. disk' \in [Tiers -> [Tools -> FileContents]] /\ FilesNamed'
    BY <1>1, <1>2, FileReplaced DEF Inv
  <1>4. restarts' \in 0..MaxRestarts
    BY <1>1, RegistryAssumption DEF Inv, TypeOK
  <1> QED
    BY <1>1, <1>3, <1>4, FilesStepKeeps

LEMMA PromoteKeeps ==
    ASSUME Inv, NEW t \in Tools, NEW from \in Tiers, NEW to \in Tiers, Promote(t, from, to)
    PROVE  Inv'
  <1>1. /\ disk' = [disk EXCEPT ![to][t] = disk[from][t], ![from][t] = None]
        /\ UNCHANGED <<daemon, indexVars, callVars, registrations, restarts>>
    BY DEF Promote
  <1>2. disk \in [Tiers -> [Tools -> FileContents]] /\ None \notin Specs
    BY RegistryAssumption DEF Inv, TypeOK, FileContents
  <1>3. disk' \in [Tiers -> [Tools -> FileContents]]
    BY <1>1, <1>2 DEF FileContents
  <1>4. \A tier \in Tiers, u \in Tools :
           disk'[tier][u] \in {disk[tier][u], None} \/ (u = t /\ disk'[tier][u] = disk[from][t])
    BY <1>1, <1>2
  <1>5. FilesNamed'
    BY <1>2, <1>4 DEF Inv, FilesNamed
  <1> QED
    BY <1>1, <1>3, <1>5, FilesStepKeeps DEF Inv, TypeOK

LEMMA GoesDownKeeps ==
    ASSUME TypeOK, GoesDown
    PROVE  IndexTyped' /\ CallTyped' /\ IndexInv' /\ CallInv'
           /\ daemon' = "down" /\ restarts' \in 0..MaxRestarts
  <1>1. /\ specsByTool' = [t \in Tools |-> None]
        /\ operationsByCanonicalName' = [op \in Operations |-> None]
        /\ operationsByProviderName' = [n \in ProviderNames |-> None]
    BY DEF GoesDown
  <1>2. IndexTyped'
    BY <1>1 DEF IndexTyped
  <1>3. IndexInv'
    BY <1>1 DEF IndexInv, Has, HasNamed
  <1>4. CallTyped'
    BY DEF GoesDown, NoCalls, CallTyped
  <1>5. CallInv'
    BY DEF GoesDown, NoCalls, CallInv, CallInvOf
  <1>6. restarts' \in 0..MaxRestarts /\ daemon' = "down"
    BY RegistryAssumption DEF GoesDown, TypeOK
  <1> QED
    BY <1>2, <1>3, <1>4, <1>5, <1>6

\* The file of a registered spec.
LEMMA WrittenIs ==
    ASSUME TypeOK, FilesNamed, NEW sp \in Specs, disk' \in {disk, Written(sp)}
    PROVE  disk' \in [Tiers -> [Tools -> FileContents]] /\ FilesNamed'
  <1>1. CASE disk' = disk
    BY <1>1 DEF TypeOK, FilesNamed, FileContents
  <1>2. CASE disk' = Written(sp)
    <2>1. "untrusted" \in Tiers /\ tool[sp] \in Tools /\ sp \in FileContents
      BY SpecsAre DEF Tiers, FileContents
    <2> QED
      BY <1>2, <2>1, FileReplaced DEF Written
  <1> QED
    BY <1>1, <1>2

LEMMA StopKeeps == ASSUME Inv, Stop \/ \E sp \in Specs : CrashInRegister(sp) PROVE Inv'
  <1> USE DEF Inv
  <1>1. GoesDown
    BY DEF Stop, CrashInRegister
  <1>2. IndexTyped' /\ CallTyped' /\ IndexInv' /\ CallInv' /\ daemon' = "down" /\ restarts' \in 0..MaxRestarts
    BY <1>1, GoesDownKeeps
  <1>3. disk' \in [Tiers -> [Tools -> FileContents]] /\ FilesNamed'
    <2>1. CASE Stop
      BY <2>1 DEF Stop, TypeOK, FilesNamed, FileContents
    <2>2. CASE \E sp \in Specs : CrashInRegister(sp)
      BY <2>2, WrittenIs DEF CrashInRegister, WhatACrashLeaves
    <2> QED
      BY <2>1, <2>2
  <1>4. registrations' \in 0..MaxRegistrations
    BY RegistryAssumption DEF Stop, CrashInRegister, TypeOK
  <1>5. TypeOK'
    BY <1>2, <1>3, <1>4 DEF TypeOK, IndexTyped, CallTyped, FileContents
  <1> QED
    BY <1>2, <1>3, <1>5

LEMMA RegisterKeeps == ASSUME Inv, NEW sp \in Specs, Register(sp) PROVE Inv'
  <1> USE DEF Inv
  <1>1. Admitted(sp) /\ Commit(sp, "untrusted") /\ daemon = "up"
    BY DEF Register
  <1>2. IndexTyped' /\ IndexInv'
    BY <1>1, CommitKeepsIndex
  <1>3. disk' \in [Tiers -> [Tools -> FileContents]] /\ FilesNamed'
    BY WrittenIs DEF Register
  <1>4. UNCHANGED <<daemon, phase, name, checked, resolvedOperation, sent, restarts>>
    BY DEF Register
  <1>5. renewed' \in [Calls -> BOOLEAN]
    BY DEF Register, TypeOK
  <1>6. registrations' \in 0..MaxRegistrations
    BY RegistryAssumption DEF Register, TypeOK
  <1>7. TypeOK'
    BY <1>2, <1>3, <1>4, <1>5, <1>6 DEF TypeOK, IndexTyped, FileContents
  <1>8. ASSUME NEW c \in Calls PROVE CallInvOf(c)'
    <2>1. /\ renewed[c] => renewed'[c]
          /\ ~renewed'[c] /\ phase[c] = "checked" =>
                tool[checked[c].registeredSpec.spec] # tool[sp]
      BY DEF Register, TypeOK
    <2>2. CallInvOf(c)
      BY DEF CallInv
    <2>3. ASSUME phase[c] = "checked", ~renewed'[c] PROVE getOperation(name[c])' = checked[c]
      <3>1. /\ name[c] \in Operations \cup ProviderNames /\ checked[c] \in Entries
            /\ getOperation(name[c]) = checked[c]
        BY <2>1, <2>2, <2>3 DEF CallInvOf
      <3>2. getOperation(name[c]) # None
        BY <3>1, NoneAssumption
      <3> DEFINE n == name[c]
      <3>3. getOperation(n)' = getOperation(n)
        <4>1. /\ n \in Operations \cup ProviderNames /\ getOperation(n) # None
              /\ tool[getOperation(n).registeredSpec.spec] # tool[sp]
          BY <2>1, <2>3, <3>1, <3>2
        <4>2. \A m \in Operations \cup ProviderNames :
                 /\ getOperation(m) # None
                 /\ tool[getOperation(m).registeredSpec.spec] # tool[sp]
                 => (IF m \in Operations THEN operationsByCanonicalName'[m]
                     ELSE operationsByProviderName'[m]) = getOperation(m)
          BY <1>1, CommitKeepsNames DEF getOperation
        <4> QED
          BY <4>1, <4>2, <1>4 DEF getOperation
      <3> QED
        BY <3>1, <3>3
    <2> QED
      BY <2>1, <2>2, <2>3, <1>1, <1>4 DEF CallInvOf
  <1> QED
    BY <1>2, <1>3, <1>7, <1>8 DEF CallInv

LEMMA StutterKeeps == ASSUME Inv, UNCHANGED vars PROVE Inv'
  BY DEF Inv, TypeOK, FilesNamed, IndexInv, CallInv, CallInvOf, getOperation,
         vars, indexVars, callVars

LEMMA InitInv == Init => Inv
  <1> SUFFICES ASSUME Init PROVE Inv
    OBVIOUS
  <1> USE DEF Init
  <1>1. TypeOK
    BY RegistryAssumption DEF TypeOK
  <1>2. FilesNamed
    BY RegistryAssumption DEF FilesNamed
  <1>3. IndexInv
    BY DEF IndexInv, Has, HasNamed
  <1>4. CallInv
    BY DEF CallInv, CallInvOf
  <1> QED
    BY <1>1, <1>2, <1>3, <1>4 DEF Inv

LEMMA NextKeeps == Inv /\ [Next]_vars => Inv'
  <1> SUFFICES ASSUME Inv, [Next]_vars PROVE Inv'
    OBVIOUS
  <1>1. CASE Start
    BY <1>1, StartKeeps
  <1>2. CASE StartFails
    BY <1>2, StartFailsKeeps
  <1>3. CASE SeedIsCut
    BY <1>3, SeedIsCutKeeps
  <1>4. CASE Stop \/ \E sp \in Specs : CrashInRegister(sp)
    BY <1>4, StopKeeps
  <1>5. CASE \E sp \in Specs : Register(sp)
    BY <1>5, RegisterKeeps
  <1>6. CASE \E t \in Tools, from, to \in Tiers : Promote(t, from, to)
    BY <1>6, PromoteKeeps
  <1>7. CASE \E c \in Calls : CallStep(c)
    BY <1>7, CallStepKeeps
  <1>8. CASE UNCHANGED vars
    BY <1>8, StutterKeeps
  <1> QED
    BY <1>1, <1>2, <1>3, <1>4, <1>5, <1>6, <1>7, <1>8 DEF Next, CallStep

\* The state of the registry and of the calls is always of its type, and the
\* invariant that the other theorems rest on holds.
THEOREM InvHolds == Spec => []Inv
  BY InitInv, NextKeeps, PTL DEF Spec

\* The variables of the registry, its files and its calls keep their types,
\* whatever is registered, promoted, interrupted or called.
THEOREM Typed == Spec => []TypeOK
  <1>1. Inv => TypeOK
    BY DEF Inv
  <1> QED
    BY <1>1, InvHolds, PTL

LEMMA InvImpliesAgree == Inv => IndexesAgree
  <1> SUFFICES ASSUME Inv PROVE IndexesAgree
    OBVIOUS
  <1> USE DEF Inv
  <1>1. ASSUME NEW op \in Operations
        PROVE  IF \E t \in Tools : Has(specsByTool[t], op)
               THEN \E t \in Tools : Has(specsByTool[t], op) /\ operationsByCanonicalName[op] =
                                                     CanonicalEntry(specsByTool[t], op)
               ELSE operationsByCanonicalName[op] = None
    BY DEF IndexInv
  <1>2. ASSUME NEW n \in ProviderNames
        PROVE  LET ops == {op \in Operations : providerName[op] = n /\ \E t \in Tools : Has(specsByTool[t], op)}
               IN operationsByProviderName[n] = IF ops = {} THEN None
                                                ELSE operationsByCanonicalName[Max(ops)]
    <2> DEFINE ops == {op \in Operations : providerName[op] = n /\ \E t \in Tools : Has(specsByTool[t], op)}
    <2>1. ASSUME NEW t \in Tools, HasNamed(specsByTool[t], n)
          PROVE  ops = Provided(specsByTool[t].spec, n)
      <3>1. /\ specsByTool[t].spec \in Specs /\ specsByTool[t] # None
            /\ specsByTool[t] \in RegisteredSpecs
            /\ operationsByProviderName[n] = ProviderEntry(specsByTool[t], n)
        BY <2>1, RegisteredAre DEF HasNamed, IndexInv
      <3>2. ASSUME NEW op \in Provided(specsByTool[t].spec, n) PROVE op \in ops
        <4>1. op \in operations[specsByTool[t].spec] /\ providerName[op] = n /\ op \in Operations
          BY <3>1, <3>2, SpecsAre DEF Provided
        <4> QED
          BY <4>1, <3>1 DEF Has
      <3>3. ASSUME NEW op \in ops PROVE op \in Provided(specsByTool[t].spec, n)
        <4>1. PICK u \in Tools : Has(specsByTool[u], op)
          BY <3>3
        <4>2. HasNamed(specsByTool[u], n)
          BY <4>1, <3>3 DEF Has, HasNamed, Provided
        <4>3. /\ specsByTool[u] \in RegisteredSpecs /\ tool[specsByTool[u].spec] = u
              /\ operationsByProviderName[n] = ProviderEntry(specsByTool[u], n)
          BY <4>1, <4>2, RegisteredAre DEF Has, IndexInv
        <4>4. specsByTool[u] = specsByTool[t]
          BY <4>2, <4>3, <3>1, <2>1, EntriesAre DEF HasNamed
        <4> QED
          BY <4>1, <4>4, <3>3 DEF Has, Provided
      <3> QED
        BY <3>2, <3>3
    <2>2. CASE \E t \in Tools : HasNamed(specsByTool[t], n)
      <3>1. PICK t \in Tools : HasNamed(specsByTool[t], n)
        BY <2>2
      <3>2. /\ ops = Provided(specsByTool[t].spec, n) /\ ops # {}
            /\ specsByTool[t] \in RegisteredSpecs /\ specsByTool[t] # None
            /\ operationsByProviderName[n] = ProviderEntry(specsByTool[t], n)
        BY <2>1, <3>1, RegisteredAre DEF HasNamed, IndexInv
      <3> HIDE DEF ops
      <3>3. Max(ops) \in ops
        BY <3>2, EntriesAre
      <3>4. Max(ops) \in Operations /\ Has(specsByTool[t], Max(ops))
        BY <3>2, <3>3, EntriesAre, SpecsAre DEF Has
      <3>5. operationsByCanonicalName[Max(ops)] = CanonicalEntry(specsByTool[t], Max(ops))
        BY <3>4 DEF IndexInv
      <3>6. operationsByProviderName[n] = CanonicalEntry(specsByTool[t], Max(ops))
        BY <3>2 DEF ProviderEntry
      <3>7. operationsByProviderName[n] = IF ops = {} THEN None
                                          ELSE operationsByCanonicalName[Max(ops)]
        BY <3>2, <3>5, <3>6
      <3> QED
        BY <3>7 DEF ops
    <2>3. CASE ~\E t \in Tools : HasNamed(specsByTool[t], n)
      <3>1. ops = {}
        BY <2>3 DEF Has, HasNamed, Provided
      <3>2. operationsByProviderName[n] = None
        BY <2>3 DEF IndexInv
      <3> QED
        BY <3>1, <3>2
    <2> QED
      BY <2>2, <2>3
  <1> QED
    BY <1>1, <1>2 DEF IndexesAgree, Has

\* The two indexes and the map of the specs describe the same operations, for
\* any tools, specs and names and any number of registrations: with a spec
\* replaced while its names pass to it or become free.
THEOREM IndexesAlwaysAgree == Spec => []IndexesAgree
  BY InvHolds, InvImpliesAgree, PTL

\* Every request of a call is built from the definition that the policy saw,
\* unless its tool was registered again meanwhile, and from one definition
\* even then: for any number of calls.
THEOREM CallsRunWhatWasChecked == Spec => []RunsCheckedSpec
  <1>1. Inv => RunsCheckedSpec
    BY DEF Inv, TypeOK, CallInv, CallInvOf, RunsCheckedSpec
  <1> QED
    BY <1>1, InvHolds, PTL

---------------------------------------------------------------------------
(***************************************************************************)
(* Restarts.                                                               *)
(***************************************************************************)

\* The spec a tool was last registered with: it is in the least trusted file.
Latest(files, t) ==
    IF files["untrusted"][t] # None THEN files["untrusted"][t]
    ELSE IF files["user-reviewed"][t] # None THEN files["user-reviewed"][t]
    ELSE files["trusted"][t]

NamesApart(sp, other) ==
    \A op \in operations[sp], another \in operations[other] :
        providerName[op] # providerName[another]

SeedFile == disk["trusted"][tool[SeededSpec]]

\* Before the first start that comes to its end there are no files; only the seed
\* can be torn; the latest specs of two tools can be loaded together, and a daemon
\* that is up runs with the latest ones.
DiskInv ==
    /\ SeedFile \in {None, Torn} =>
          /\ daemon = "down"
          /\ \A tier \in Tiers, t \in Tools :
                disk[tier][t] # None => tier = "trusted" /\ t = tool[SeededSpec]
    /\ \A tier \in Tiers, t \in Tools :
          disk[tier][t] = Torn => tier = "trusted" /\ t = tool[SeededSpec]
    /\ \A t, u \in Tools :
          (t # u /\ Latest(disk, t) \in Specs /\ Latest(disk, u) \in Specs) =>
              NamesApart(Latest(disk, t), Latest(disk, u))
    /\ daemon = "up" => \A t \in Tools :
          IF Latest(disk, t) = None THEN specsByTool[t] = None
          ELSE specsByTool[t] # None /\ specsByTool[t].spec = Latest(disk, t)

LEMMA TiersAre == /\ "untrusted" \in Tiers /\ "user-reviewed" \in Tiers /\ "trusted" \in Tiers
                  /\ tool[SeededSpec] \in Tools /\ SeededSpec \in Specs
                  /\ None \notin Specs /\ Torn \notin Specs /\ None # Torn
  BY RegistryAssumption DEF Tiers

LEMMA OneOrNone ==
    ASSUME NEW S \in SUBSET Tiers
    PROVE  Cardinality(S) <= 1 <=> \A a, b \in S : a = b
  <1>1. IsFiniteSet(Tiers)
    <2>1. IsFiniteSet({"trusted"}) /\ IsFiniteSet({"user-reviewed"}) /\ IsFiniteSet({"untrusted"})
      BY FS_Singleton
    <2>2. IsFiniteSet({"trusted"} \cup {"user-reviewed"})
      BY <2>1, FS_Union
    <2>3. IsFiniteSet(({"trusted"} \cup {"user-reviewed"}) \cup {"untrusted"})
      BY <2>1, <2>2, FS_Union
    <2>4. Tiers = ({"trusted"} \cup {"user-reviewed"}) \cup {"untrusted"}
      BY DEF Tiers
    <2> QED
      BY <2>3, <2>4
  <1>2. IsFiniteSet(S)
    BY <1>1, FS_Subset
  <1>3. ASSUME NEW a \in S, NEW b \in S, a # b PROVE ~(Cardinality(S) <= 1)
    <2>1. Cardinality({a}) = 1 /\ IsFiniteSet({a})
      BY FS_Singleton
    <2>2. Cardinality({a} \cup {b}) = 2
      BY <2>1, <1>3, FS_AddElement
    <2>3. Cardinality({a} \cup {b}) <= Cardinality(S)
      BY <1>2, FS_Subset
    <2>4. Cardinality(S) \in Nat
      BY <1>2, FS_CardinalityType
    <2> QED
      BY <2>2, <2>3, <2>4
  <1>4. ASSUME \A a, b \in S : a = b PROVE Cardinality(S) <= 1
    <2>1. CASE S = {}
      BY <2>1, FS_EmptySet
    <2>2. CASE S # {}
      <3>1. PICK a \in S : TRUE
        BY <2>2
      <3>2. S = {a}
        BY <3>1, <1>4
      <3> QED
        BY <3>2, FS_Singleton
    <2> QED
      BY <2>1, <2>2
  <1> QED
    BY <1>3, <1>4

\* With one file at most the latest spec is the one a load finds.
LEMMA LoadedIsLatest ==
    ASSUME NEW files \in [Tiers -> [Tools -> FileContents]], NEW t \in Tools,
           Cardinality(Files(files, t)) <= 1
    PROVE  /\ \A tier \in Tiers : files[tier][t] # None => files[tier][t] = Latest(files, t)
           /\ IF Latest(files, t) = None THEN LoadedSpec(files, t) = None
              ELSE \E tier \in Tiers :
                      LoadedSpec(files, t) = [spec |-> Latest(files, t), trustTier |-> tier]
  <1>1. \A a, b \in Files(files, t) : a = b
    BY OneOrNone DEF Files
  <1>2. \A tier \in Tiers : files[tier][t] # None => files[tier][t] = Latest(files, t)
    BY <1>1, TiersAre DEF Files, Latest, Tiers
  <1>3. CASE Latest(files, t) = None
    <2>1. Files(files, t) = {}
      BY <1>2, <1>3 DEF Files
    <2> QED
      BY <1>2, <1>3, <2>1 DEF LoadedSpec
  <1>4. CASE Latest(files, t) # None
    <2>1. Files(files, t) # {}
      BY <1>4, TiersAre DEF Files, Latest
    <2> DEFINE tier == CHOOSE tier \in Files(files, t) : TRUE
    <2>2. tier \in Files(files, t)
      BY <2>1
    <2>3. LoadedSpec(files, t) = [spec |-> files[tier][t], trustTier |-> tier]
      BY <2>1 DEF LoadedSpec
    <2> HIDE DEF tier
    <2>4. tier \in Tiers /\ files[tier][t] = Latest(files, t)
      BY <2>2, <1>2 DEF Files
    <2> QED
      BY <1>2, <1>4, <2>3, <2>4
  <1> QED
    BY <1>3, <1>4

\* The seed is written only where there is nothing else.
LEMMA SeededInv ==
    ASSUME Inv, DiskInv
    PROVE  /\ Seeded["trusted"][tool[SeededSpec]] # None
           /\ SeedFile # None => Seeded = disk
           /\ SeedFile = None => \A tier \in Tiers, t \in Tools :
                 Seeded[tier][t] = IF tier = "trusted" /\ t = tool[SeededSpec]
                                   THEN SeededSpec ELSE None
           /\ SeedFile = Torn <=> Seeded["trusted"][tool[SeededSpec]] = Torn
           /\ \A t, u \in Tools :
                 (t # u /\ Latest(Seeded, t) \in Specs /\ Latest(Seeded, u) \in Specs) =>
                     NamesApart(Latest(Seeded, t), Latest(Seeded, u))
  <1>1. CASE SeedFile # None
    <2>1. Seeded = disk
      BY <1>1 DEF Seeded, SeedFile
    <2> QED
      BY <1>1, <2>1 DEF DiskInv, SeedFile
  <1>2. CASE SeedFile = None
    <2>1. Seeded = [disk EXCEPT !["trusted"][tool[SeededSpec]] = SeededSpec]
      BY <1>2 DEF Seeded, SeedFile
    <2>2. \A tier \in Tiers, t \in Tools :
             Seeded[tier][t] = IF tier = "trusted" /\ t = tool[SeededSpec]
                               THEN SeededSpec ELSE disk[tier][t]
      BY <2>1, TiersAre DEF Inv, TypeOK
    <2>3. \A tier \in Tiers, t \in Tools :
             Seeded[tier][t] = IF tier = "trusted" /\ t = tool[SeededSpec]
                               THEN SeededSpec ELSE None
      BY <2>2, <1>2 DEF DiskInv, SeedFile
    <2>4. \A t \in Tools : t # tool[SeededSpec] => Latest(Seeded, t) = None
      BY <2>3, TiersAre DEF Latest
    <2> QED
      BY <1>2, <2>3, <2>4, TiersAre DEF SeedFile
  <1> QED
    BY <1>1, <1>2

LEMMA StartKeepsDisk == ASSUME Inv, DiskInv, Start PROVE DiskInv'
  <1>1. /\ disk' = Seeded /\ daemon' = "up" /\ Loads(Seeded)
        /\ specsByTool' = [t \in Tools |-> LoadedSpec(Seeded, t)]
    BY DEF Start
  <1>2. Seeded \in [Tiers -> [Tools -> FileContents]]
    BY SeededIs DEF Inv
  <1>3. \A tier \in Tiers, t \in Tools : Seeded[tier][t] # Torn
    BY <1>1 DEF Loads
  <1>4. SeedFile' \notin {None, Torn}
    BY <1>1, <1>3, SeededInv, TiersAre DEF SeedFile
  <1>5. \A t \in Tools : IF Latest(Seeded, t) = None THEN specsByTool'[t] = None
                          ELSE specsByTool'[t] # None /\ specsByTool'[t].spec = Latest(Seeded, t)
    <2>1. SUFFICES ASSUME NEW t \in Tools
                   PROVE  IF Latest(Seeded, t) = None THEN LoadedSpec(Seeded, t) = None
                          ELSE LoadedSpec(Seeded, t) # None /\ LoadedSpec(Seeded, t).spec = Latest(Seeded, t)
      BY <1>1
    <2>2. Cardinality(Files(Seeded, t)) <= 1
      BY <1>1 DEF Loads
    <2>3. CASE Latest(Seeded, t) = None
      BY <1>2, <2>2, <2>3, LoadedIsLatest
    <2>4. CASE Latest(Seeded, t) # None
      <3>1. PICK tier \in Tiers :
               LoadedSpec(Seeded, t) = [spec |-> Latest(Seeded, t), trustTier |-> tier]
        BY <1>2, <2>2, <2>4, LoadedIsLatest
      <3>2. Latest(Seeded, t) \in Specs
        BY <1>2, <1>3, <2>4, TiersAre DEF Latest, FileContents
      <3>3. LoadedSpec(Seeded, t) \in RegisteredSpecs
        BY <3>1, <3>2 DEF RegisteredSpecs
      <3> QED
        BY <2>4, <3>1, <3>3, NoneAssumption
    <2> QED
      BY <2>3, <2>4
  <1>6. DiskInv' 
    BY <1>1, <1>3, <1>4, <1>5, SeededInv DEF DiskInv
  <1> QED
    BY <1>6

LEMMA StartFailsKeepsDisk == ASSUME Inv, DiskInv, StartFails PROVE DiskInv'
  <1>1. disk' = Seeded /\ UNCHANGED <<daemon, specsByTool>> /\ daemon = "down"
    BY DEF StartFails, indexVars
  <1>2. CASE SeedFile # None
    BY <1>1, <1>2, SeededInv DEF DiskInv, SeedFile
  <1>3. CASE SeedFile = None
    BY <1>1, <1>3, SeededInv, TiersAre DEF DiskInv, SeedFile
  <1> QED
    BY <1>2, <1>3

LEMMA SeedIsCutKeepsDisk == ASSUME Inv, DiskInv, SeedIsCut PROVE DiskInv'
  <1>1. /\ disk' = [disk EXCEPT !["trusted"][tool[SeededSpec]] = Torn]
        /\ UNCHANGED <<daemon, specsByTool>> /\ daemon = "down" /\ SeedFile = None
    BY DEF SeedIsCut, Seeded, SeedFile, indexVars
  <1>2. \A tier \in Tiers, t \in Tools :
           disk'[tier][t] = IF tier = "trusted" /\ t = tool[SeededSpec] THEN Torn ELSE None
    <2>1. \A tier \in Tiers, t \in Tools :
             disk'[tier][t] = IF tier = "trusted" /\ t = tool[SeededSpec] THEN Torn ELSE disk[tier][t]
      BY <1>1, TiersAre DEF Inv, TypeOK
    <2> QED
      BY <2>1, <1>1 DEF DiskInv, SeedFile
  <1>3. \A t \in Tools : Latest(disk', t) \in {None, Torn}
    BY <1>2, TiersAre DEF Latest
  <1>4. SeedFile' = Torn
    BY <1>2, TiersAre DEF SeedFile
  <1>5. \A t \in Tools : Latest(disk', t) \notin Specs
    BY <1>3, TiersAre
  <1>6. daemon' # "up" /\ daemon' = "down"
    BY <1>1
  <1>7. \A tier \in Tiers, t \in Tools :
           disk'[tier][t] # None => tier = "trusted" /\ t = tool[SeededSpec]
    BY <1>2
  <1>8. \A tier \in Tiers, t \in Tools :
           disk'[tier][t] = Torn => tier = "trusted" /\ t = tool[SeededSpec]
    BY <1>7, TiersAre
  <1> QED
    BY <1>5, <1>6, <1>7, <1>8 DEF DiskInv

\* The daemon is gone, and its files are as they were.
LEMMA DownKeepsDisk == ASSUME Inv, DiskInv, UNCHANGED disk, daemon' = "down" PROVE DiskInv'
  BY DEF DiskInv, SeedFile

LEMMA PromoteKeepsDisk ==
    ASSUME Inv, DiskInv, NEW t \in Tools, NEW from \in Tiers, NEW to \in Tiers, Promote(t, from, to)
    PROVE  DiskInv'
  <1>1. /\ <<from, to>> \in {<<"untrusted", "user-reviewed">>, <<"untrusted", "trusted">>,
                             <<"user-reviewed", "trusted">>}
        /\ disk[from][t] # None
        /\ \A tier \in Tiers : disk[tier][t] # None => tier \in {from, to}
        /\ disk' = [disk EXCEPT ![to][t] = disk[from][t], ![from][t] = None]
        /\ UNCHANGED <<daemon, specsByTool>>
    BY DEF Promote, Files, indexVars
  <1>2. from # to /\ from # "trusted"
    BY <1>1
  <1>3. \A tier \in Tiers, u \in Tools :
           disk'[tier][u] = IF u # t THEN disk[tier][u]
                            ELSE IF tier = to THEN disk[from][t]
                            ELSE IF tier = from THEN None
                            ELSE disk[tier][u]
    BY <1>1, <1>2 DEF Inv, TypeOK
  <1>4. \A u \in Tools : u # t => Latest(disk', u) = Latest(disk, u)
    BY <1>3, TiersAre DEF Latest
  <1>5. Latest(disk', t) = Latest(disk, t)
    <2>1. /\ disk'[to][t] = disk[from][t] /\ disk'[from][t] = None
          /\ \A tier \in Tiers \ {from, to} : disk'[tier][t] = None /\ disk[tier][t] = None
      BY <1>1, <1>2, <1>3
    <2>2. CASE from = "untrusted" /\ to = "user-reviewed"
      <3>1. /\ disk'["untrusted"][t] = None /\ disk["untrusted"][t] # None
            /\ disk'["user-reviewed"][t] = disk["untrusted"][t]
        BY <1>1, <2>1, <2>2
      <3> QED
        BY <3>1 DEF Latest
    <2>3. CASE from = "untrusted" /\ to = "trusted"
      <3>1. /\ disk'["untrusted"][t] = None /\ disk["untrusted"][t] # None
            /\ disk'["user-reviewed"][t] = None
            /\ disk'["trusted"][t] = disk["untrusted"][t]
        BY <1>1, <2>1, <2>3, TiersAre
      <3> QED
        BY <3>1 DEF Latest
    <2>4. CASE from = "user-reviewed" /\ to = "trusted"
      <3>1. /\ disk'["untrusted"][t] = None /\ disk["untrusted"][t] = None
            /\ disk'["user-reviewed"][t] = None /\ disk["user-reviewed"][t] # None
            /\ disk'["trusted"][t] = disk["user-reviewed"][t]
        BY <1>1, <2>1, <2>4, TiersAre
      <3> QED
        BY <3>1 DEF Latest
    <2> QED
      BY <2>2, <2>3, <2>4, <1>1
  <1>6. disk[from][t] \notin {None, Torn}
    BY <1>1, <1>2 DEF DiskInv
  <1>7. SeedFile \notin {None, Torn}
    BY <1>2, <1>6, TiersAre DEF DiskInv
  <1>8. SeedFile' \notin {None, Torn}
    BY <1>2, <1>3, <1>6, <1>7, TiersAre DEF SeedFile
  <1>9. \A tier \in Tiers, u \in Tools :
           disk'[tier][u] = Torn => tier = "trusted" /\ u = tool[SeededSpec]
    BY <1>3, <1>6, TiersAre DEF DiskInv
  <1> QED
    BY <1>1, <1>4, <1>5, <1>8, <1>9 DEF DiskInv

\* A registration that is admitted is of a spec that loads with the others.
LEMMA WrittenKeepsDisk ==
    ASSUME Inv, DiskInv, daemon = "up", NEW sp \in Specs, Admitted(sp), disk' = Written(sp),
           daemon' = "up" => /\ \A t \in Tools : t # tool[sp] => specsByTool'[t] = specsByTool[t]
                             /\ specsByTool'[tool[sp]] # None
                             /\ specsByTool'[tool[sp]].spec = sp
    PROVE  DiskInv'
  <1>1. tool[sp] \in Tools /\ sp # None /\ sp # Torn
    BY SpecsAre
  <1>2. SeedFile \notin {None, Torn}
    BY DEF DiskInv
  <1>3. \A tier \in Tiers, t \in Tools :
           disk'[tier][t] = IF tier = "untrusted" /\ t = tool[sp] THEN sp ELSE disk[tier][t]
    BY <1>1, TiersAre DEF Written, Inv, TypeOK
  <1>4. \A t \in Tools : Latest(disk', t) = IF t = tool[sp] THEN sp ELSE Latest(disk, t)
    BY <1>1, <1>3, TiersAre DEF Latest
  <1>5. SeedFile' \notin {None, Torn}
    BY <1>2, <1>3, TiersAre DEF SeedFile
  <1>6. \A tier \in Tiers, t \in Tools :
           disk'[tier][t] = Torn => tier = "trusted" /\ t = tool[SeededSpec]
    BY <1>1, <1>3 DEF DiskInv
  <1>7. ASSUME NEW t \in Tools, t # tool[sp], Latest(disk, t) \in Specs
        PROVE  NamesApart(sp, Latest(disk, t)) /\ NamesApart(Latest(disk, t), sp)
    <2>1. specsByTool[t] # None /\ specsByTool[t].spec = Latest(disk, t)
      BY <1>7, TiersAre DEF DiskInv
    <2>2. \A n \in ProviderNames : HasNamed(specsByTool[t], n) => Provided(sp, n) = {}
      BY <1>7, OthersAreApart DEF Inv
    <2>3. ASSUME NEW op \in operations[sp], NEW other \in operations[Latest(disk, t)],
                 providerName[op] = providerName[other]
          PROVE  FALSE
      <3>1. /\ providerName[other] \in ProviderNames
            /\ other \in Provided(Latest(disk, t), providerName[other])
            /\ op \in Provided(sp, providerName[other])
        BY <2>3, <1>7, SpecsAre
      <3>2. HasNamed(specsByTool[t], providerName[other])
        BY <2>1, <3>1 DEF HasNamed
      <3> QED
        BY <3>1, <3>2, <2>2
    <2> QED
      BY <2>3 DEF NamesApart
  <1>8. \A t, u \in Tools :
           (t # u /\ Latest(disk', t) \in Specs /\ Latest(disk', u) \in Specs) =>
               NamesApart(Latest(disk', t), Latest(disk', u))
    BY <1>4, <1>7 DEF DiskInv
  <1>9. ASSUME daemon' = "up", NEW t \in Tools
        PROVE  IF Latest(disk', t) = None THEN specsByTool'[t] = None
               ELSE specsByTool'[t] # None /\ specsByTool'[t].spec = Latest(disk', t)
    BY <1>1, <1>4, <1>9 DEF DiskInv
  <1> QED
    BY <1>5, <1>6, <1>8, <1>9 DEF DiskInv

LEMMA RegisterKeepsDisk ==
    ASSUME Inv, DiskInv, NEW sp \in Specs, Register(sp) \/ CrashInRegister(sp)
    PROVE  DiskInv'
  <1>1. CASE Register(sp)
    <2>1. /\ Admitted(sp) /\ disk' = Written(sp) /\ daemon = "up"
          /\ Commit(sp, "untrusted")
      BY <1>1 DEF Register
    <2>2. specsByTool' = [specsByTool EXCEPT ![tool[sp]] = [spec |-> sp, trustTier |-> "untrusted"]]
      BY <2>1 DEF Commit
    <2>3. tool[sp] \in Tools /\ [spec |-> sp, trustTier |-> "untrusted"] # None
      BY SpecsAre, TiersAre, NoneAssumption DEF RegisteredSpecs
    <2>4. /\ \A t \in Tools : t # tool[sp] => specsByTool'[t] = specsByTool[t]
          /\ specsByTool'[tool[sp]] # None
          /\ specsByTool'[tool[sp]].spec = sp
      BY <2>2, <2>3 DEF Inv, TypeOK
    <2> QED
      BY <2>1, <2>4, WrittenKeepsDisk
  <1>2. CASE CrashInRegister(sp)
    <2>1. /\ Admitted(sp) /\ daemon = "up" /\ daemon' = "down"
          /\ disk' \in {disk, Written(sp)}
      BY <1>2 DEF CrashInRegister, GoesDown, WhatACrashLeaves
    <2>2. CASE disk' = disk
      BY <2>1, <2>2, DownKeepsDisk
    <2>3. CASE disk' = Written(sp)
      BY <2>1, <2>3, WrittenKeepsDisk
    <2> QED
      BY <2>1, <2>2, <2>3
  <1> QED
    BY <1>1, <1>2

LEMMA OtherStepsKeepDisk ==
    ASSUME DiskInv, UNCHANGED <<disk, daemon, specsByTool>>
    PROVE  DiskInv'
  BY DEF DiskInv, SeedFile, Latest

LEMMA InitDisk == Init => DiskInv
  <1> SUFFICES ASSUME Init PROVE DiskInv
    OBVIOUS
  <1>1. \A tier \in Tiers, t \in Tools : disk[tier][t] = None
    BY DEF Init
  <1>2. \A t \in Tools : Latest(disk, t) = None
    BY <1>1, TiersAre DEF Latest
  <1> QED
    BY <1>1, <1>2, TiersAre DEF DiskInv, SeedFile, Init

LEMMA NextKeepsDisk == Inv /\ DiskInv /\ [Next]_vars => DiskInv'
  <1> SUFFICES ASSUME Inv, DiskInv, [Next]_vars PROVE DiskInv'
    OBVIOUS
  <1>1. CASE Start
    BY <1>1, StartKeepsDisk
  <1>2. CASE StartFails
    BY <1>2, StartFailsKeepsDisk
  <1>3. CASE SeedIsCut
    BY <1>3, SeedIsCutKeepsDisk
  <1>4. CASE Stop
    BY <1>4, DownKeepsDisk DEF Stop, GoesDown
  <1>5. CASE \E sp \in Specs : Register(sp) \/ CrashInRegister(sp)
    BY <1>5, RegisterKeepsDisk
  <1>6. CASE \E t \in Tools, from, to \in Tiers : Promote(t, from, to)
    BY <1>6, PromoteKeepsDisk
  <1>7. CASE \E c \in Calls : CallStep(c)
    <2>1. UNCHANGED <<disk, daemon, specsByTool>>
      BY <1>7 DEF CallStep, Dispatch, Refused, executeOperation, UnknownOperation, Request,
                  Answered, End, indexVars
    <2> QED
      BY <2>1, OtherStepsKeepDisk
  <1>8. CASE UNCHANGED vars
    BY <1>8, OtherStepsKeepDisk DEF vars, indexVars
  <1> QED
    BY <1>1, <1>2, <1>3, <1>4, <1>5, <1>6, <1>7, <1>8 DEF Next, CallStep

LEMMA DiskImpliesRestart == Inv /\ DiskInv => RestartSucceeds
  <1> SUFFICES ASSUME Inv, DiskInv, AtMostOneFile, SeedFile # Torn
               PROVE  /\ Loads(Seeded)
                      /\ daemon = "up" => \A t \in Tools :
                            LET loaded == LoadedSpec(Seeded, t)
                            IN IF loaded = None THEN specsByTool[t] = None
                               ELSE specsByTool[t] # None /\ specsByTool[t].spec = loaded.spec
    BY DEF RestartSucceeds, SeedWhole, SeedFile
  <1>1. Seeded \in [Tiers -> [Tools -> FileContents]]
    BY SeededIs DEF Inv
  <1>2. \A tier \in Tiers, t \in Tools : Seeded[tier][t] # Torn
    <2>1. CASE SeedFile = None
      BY <2>1, SeededInv, TiersAre
    <2>2. CASE SeedFile # None
      <3>1. Seeded = disk
        BY <2>2, SeededInv
      <3> QED
        BY <3>1 DEF DiskInv, SeedFile
    <2> QED
      BY <2>1, <2>2
  <1>3. ASSUME NEW t \in Tools PROVE Cardinality(Files(Seeded, t)) <= 1
    <2>1. CASE SeedFile = None
      <3>1. \A a, b \in Files(Seeded, t) : a = b
        BY <2>1, SeededInv, TiersAre DEF Files
      <3> QED
        BY <3>1, OneOrNone DEF Files
    <2>2. CASE SeedFile # None
      <3>1. Seeded = disk
        BY <2>2, SeededInv
      <3> QED
        BY <3>1 DEF AtMostOneFile
    <2> QED
      BY <2>1, <2>2
  <1>4. \A tier \in Tiers, t \in Tools : Seeded[tier][t] # None =>
           Seeded[tier][t] = Latest(Seeded, t) /\ Seeded[tier][t] \in Specs
    BY <1>1, <1>2, <1>3, LoadedIsLatest DEF FileContents
  <1>5. ASSUME NEW one \in Tiers, NEW two \in Tiers, NEW t \in Tools, NEW u \in Tools,
               t # u, Seeded[one][t] # None, Seeded[two][u] # None
        PROVE  NamesApart(Seeded[one][t], Seeded[two][u])
    BY <1>4, <1>5, SeededInv
  <1>6. Loads(Seeded)
    BY <1>2, <1>3, <1>5 DEF Loads, NamesApart
  <1>7. ASSUME daemon = "up", NEW t \in Tools
        PROVE  IF LoadedSpec(Seeded, t) = None THEN specsByTool[t] = None
               ELSE specsByTool[t] # None /\ specsByTool[t].spec = LoadedSpec(Seeded, t).spec
    <2>1. SeedFile # None
      BY <1>7, TiersAre DEF DiskInv
    <2>2. Seeded = disk
      BY <2>1, SeededInv
    <2>3. CASE Latest(disk, t) = None
      BY <1>1, <1>3, <1>7, <2>2, <2>3, LoadedIsLatest DEF DiskInv
    <2>4. CASE Latest(disk, t) # None
      <3>1. PICK tier \in Tiers :
               LoadedSpec(Seeded, t) = [spec |-> Latest(disk, t), trustTier |-> tier]
        BY <1>1, <1>3, <2>2, <2>4, LoadedIsLatest
      <3>2. LoadedSpec(Seeded, t).spec = Latest(disk, t)
        BY <3>1
      <3>3. specsByTool[t] # None /\ specsByTool[t].spec = Latest(disk, t)
        BY <1>7, <2>4 DEF DiskInv
      <3>4. LoadedSpec(Seeded, t) # None
        <4>1. Latest(disk, t) \in Specs
          BY <1>7, <3>3 DEF Inv, TypeOK, RegisteredSpecs
        <4>2. LoadedSpec(Seeded, t) \in RegisteredSpecs
          BY <3>1, <4>1 DEF RegisteredSpecs
        <4> QED
          BY <4>2, NoneAssumption
      <3> QED
        BY <3>2, <3>3, <3>4
    <2> QED
      BY <2>3, <2>4
  <1> QED
    BY <1>6, <1>7

\* After any registrations, promotions, stops and crashes, a crash in a
\* registration included, the next start comes to its end and finds what the
\* daemon ran with, as long as no tool has two files and the seed is whole.
THEOREM StartsAgain == Spec => []RestartSucceeds
  <1>1. Spec => [](Inv /\ DiskInv)
    <2>1. Init => Inv /\ DiskInv
      BY InitInv, InitDisk
    <2>2. (Inv /\ DiskInv) /\ [Next]_vars => (Inv /\ DiskInv)'
      BY NextKeeps, NextKeepsDisk
    <2> QED
      BY <2>1, <2>2, PTL DEF Spec
  <1> QED
    BY <1>1, DiskImpliesRestart, PTL
=============================================================================
