--------------------------- MODULE CommonJSProofs ---------------------------
(* The cache of require, for every set of modules and every program.        *)
EXTENDS CommonJS, SequenceTheorems, TLAPS

\* A script that has run has left its module in the cache.
RunsCounted == \A m \in Module : runs[m] <= 1 /\ (m \notin cached => runs[m] = 0)

LoadedIsOwn == \A m \in loaded : exports[m] = "own"

\* Down the stack the ranks rise: who is higher was required by who is lower.
RanksFall ==
    \A rank \in [Module -> 0 .. MaxRank] :
        Ranks(rank) =>
            \A i, j \in 1 .. Len(stack) : i < j => rank[stack[j]] < rank[stack[i]]

Inv == TypeOK /\ RunsCounted /\ LoadedIsOwn /\ RanksFall /\ AcyclicGetsOwn

\* What an action does to the stack, seen as a function: Append adds one
\* element above, Pop takes the last away.
LEMMA StackFacts ==
    ASSUME TypeOK
    PROVE  /\ \A m \in Module :
                 /\ Append(stack, m) \in Seq(Module)
                 /\ Len(Append(stack, m)) = Len(stack) + 1
                 /\ \A i \in 1 .. Len(stack) : Append(stack, m)[i] = stack[i]
                 /\ Append(stack, m)[Len(stack) + 1] = m
           /\ stack # <<>> =>
                 /\ Len(stack) \in Nat \ {0} /\ Top \in Module
                 /\ Pop \in Seq(Module) /\ Len(Pop) = Len(stack) - 1
                 /\ \A i \in 1 .. Len(stack) - 1 : Pop[i] = stack[i]
<1>1. stack \in Seq(Module)
    BY DEF TypeOK
<1>2. ASSUME NEW m \in Module
      PROVE  /\ Append(stack, m) \in Seq(Module)
             /\ Len(Append(stack, m)) = Len(stack) + 1
             /\ \A i \in 1 .. Len(stack) : Append(stack, m)[i] = stack[i]
             /\ Append(stack, m)[Len(stack) + 1] = m
    BY <1>1
<1>3. ASSUME stack # <<>>
      PROVE  Len(stack) \in Nat \ {0} /\ Top \in Module
    BY <1>1, <1>3 DEF Top
<1>4. ASSUME stack # <<>>
      PROVE  /\ Pop \in Seq(Module) /\ Len(Pop) = Len(stack) - 1
             /\ \A i \in 1 .. Len(stack) - 1 : Pop[i] = stack[i]
  <2>1. Len(stack) \in Nat \ {0}
      BY <1>3, <1>4
  <2> DEFINE k == Len(stack) - 1
  <2>2. /\ Pop \in Seq(Module)
        /\ Len(Pop) = IF 1 <= k THEN k - 1 + 1 ELSE 0
        /\ \A i \in 1 .. k - 1 + 1 : Pop[i] = stack[1 + i - 1]
      BY <1>1, <2>1, SubSeqProperties DEF Pop
  <2>3. k \in Nat
      BY <2>1
  <2>4. (IF 1 <= k THEN k - 1 + 1 ELSE 0) = k
    <3> HIDE DEF k
    <3> QED BY <2>3
  <2>5. ASSUME NEW i \in 1 .. k PROVE Pop[i] = stack[i]
    <3>1. i \in 1 .. k - 1 + 1 /\ 1 + i - 1 = i
        BY <2>3
    <3> QED BY <2>2, <3>1
  <2>6. Len(Pop) = k
    <3> HIDE DEF k
    <3> QED BY <2>2, <2>4
  <2> QED BY <2>2, <2>5, <2>6
<1> QED BY <1>2, <1>3, <1>4

\* The initial state satisfies the invariant.
LEMMA InitInv == Init => Inv
<1> SUFFICES ASSUME Init PROVE Inv
    OBVIOUS
<1>1. TypeOK
  <2>1. stack \in Seq(Module) /\ Len(stack) = 0
      BY DEF Init
  <2>2. Loading = {} /\ \A i, j \in 1 .. Len(stack) : i # j => stack[i] # stack[j]
      BY <2>1 DEF Loading
  <2>3. runs \in [Module -> Nat] /\ got \in [Module -> SUBSET {"empty", "own"}]
      BY DEF Init
  <2> QED BY <2>1, <2>2, <2>3 DEF Init, TypeOK
<1>2. RunsCounted /\ LoadedIsOwn /\ RanksFall /\ AcyclicGetsOwn
    BY DEF Init, RunsCounted, LoadedIsOwn, RanksFall, AcyclicGetsOwn
<1> QED BY <1>1, <1>2 DEF Inv

\* load keeps the invariant: the new module is in no other place, and its rank
\* is below that of every module on the stack.
LEMMA LoadInv == ASSUME Inv, NEW m \in Module, Load(m) PROVE Inv'
<1> USE DEF Load, Starts, MayRequire, Runs
<1> DEFINE n == Len(stack)
<1>0. TypeOK /\ RunsCounted /\ LoadedIsOwn /\ RanksFall /\ AcyclicGetsOwn
    BY DEF Inv
<1>1. /\ stack' \in Seq(Module) /\ Len(stack') = n + 1 /\ n \in Nat
      /\ \A i \in 1 .. n : stack'[i] = stack[i]
      /\ stack'[n + 1] = m
    BY <1>0, StackFacts DEF TypeOK
<1>2. Loading' = Loading \cup {m}
    BY <1>1 DEF Loading
<1>3. m \notin Loading
    BY <1>0 DEF TypeOK
<1>4. TypeOK'
  <2>1. \A i, j \in 1 .. Len(stack') : i # j => stack'[i] # stack'[j]
      BY <1>0, <1>1, <1>3 DEF TypeOK, Loading
  <2>2. cached' = loaded' \cup failed' \cup Loading'
      BY <1>0, <1>2 DEF TypeOK
  <2>3. loaded' \cap failed' = {} /\ Loading' \cap (loaded' \cup failed') = {}
      BY <1>0, <1>2 DEF TypeOK
  <2>4. runs' \in [Module -> Nat]
      BY <1>0 DEF TypeOK
  <2> QED BY <1>0, <1>1, <2>1, <2>2, <2>3, <2>4 DEF TypeOK
<1>5. RunsCounted'
    BY <1>0 DEF RunsCounted, TypeOK
<1>6. LoadedIsOwn'
    BY <1>0 DEF LoadedIsOwn
<1>7. RanksFall'
  <2> SUFFICES ASSUME NEW rank \in [Module -> 0 .. MaxRank], Ranks(rank)',
                      NEW i \in 1 .. Len(stack'), NEW j \in 1 .. Len(stack'), i < j
               PROVE  rank[stack'[j]] < rank[stack'[i]]
      BY DEF RanksFall
  <2>1. Ranks(rank) /\ \A k, l \in 1 .. n : k < l => rank[stack[l]] < rank[stack[k]]
      BY <1>0 DEF Ranks, RanksFall
  <2>2. CASE j <= n
      BY <1>1, <2>1, <2>2
  <2>3. CASE j = n + 1
    <3>1. stack # <<>> /\ <<Top, m>> \in requires /\ Top = stack[n]
        BY <1>0, <1>1, <2>3 DEF Top, TypeOK
    <3>2. rank[m] < rank[stack[n]]
        BY <2>1, <3>1 DEF Ranks
    <3>3. CASE i = n
        BY <1>1, <2>3, <3>2, <3>3
    <3>4. CASE i < n
      <4>1. rank[stack[n]] < rank[stack[i]]
          BY <1>1, <2>1, <3>4
      <4>2. stack[n] \in Module /\ stack[i] \in Module
        <5>1. stack \in Seq(Module) /\ n \in 1 .. n /\ i \in 1 .. n
            BY <1>0, <1>1, <3>4, SMTT(30) DEF TypeOK
        <5> QED BY <5>1
      <4>3. rank[m] \in Int /\ rank[stack[n]] \in Int /\ rank[stack[i]] \in Int
          BY <4>2, RankAssumption
      <4> QED BY <1>1, <2>3, <3>2, <3>4, <4>1, <4>3
    <3>5. i = n \/ i < n
        BY <1>1, <2>3
    <3> QED BY <3>3, <3>4, <3>5
  <2>4. j <= n \/ j = n + 1
      BY <1>1
  <2> QED BY <2>2, <2>3, <2>4
<1>8. AcyclicGetsOwn'
    BY <1>0 DEF AcyclicGetsOwn, Acyclic, Ranks
<1> QED BY <1>4, <1>5, <1>6, <1>7, <1>8 DEF Inv

\* What an action that pops the stack leaves of it.
LEMMA PopFacts ==
    ASSUME Inv, stack # <<>>, stack' = Pop
    PROVE  /\ stack' \in Seq(Module)
           /\ \A i, j \in 1 .. Len(stack') : i # j => stack'[i] # stack'[j]
           /\ Loading' = Loading \ {Top}
           /\ Top \in Loading /\ Top \in Module
           /\ requires' = requires => RanksFall'
<1> DEFINE n == Len(stack)
<1>0. TypeOK /\ RanksFall
    BY DEF Inv
<1>1. /\ stack' \in Seq(Module) /\ Len(stack') = n - 1 /\ n \in Nat \ {0}
      /\ \A i \in 1 .. n - 1 : stack'[i] = stack[i]
    BY <1>0, StackFacts
<1>2. \A i, j \in 1 .. n : i # j => stack[i] # stack[j]
    BY <1>0 DEF TypeOK
<1>3. Loading' = Loading \ {Top}
    BY <1>1, <1>2 DEF Loading, Top
<1>4. Top \in Loading /\ Top \in Module
    BY <1>0, <1>1, StackFacts DEF Loading, Top
<1>5. ASSUME requires' = requires PROVE RanksFall'
  <2> SUFFICES ASSUME NEW rank \in [Module -> 0 .. MaxRank], Ranks(rank)',
                      NEW i \in 1 .. Len(stack'), NEW j \in 1 .. Len(stack'), i < j
               PROVE  rank[stack'[j]] < rank[stack'[i]]
      BY DEF RanksFall
  <2>1. \A k, l \in 1 .. n : k < l => rank[stack[l]] < rank[stack[k]]
      BY <1>0, <1>5 DEF Ranks, RanksFall
  <2>2. /\ i \in 1 .. n - 1 /\ j \in 1 .. n - 1 /\ i \in 1 .. n /\ j \in 1 .. n
        /\ stack'[i] = stack[i] /\ stack'[j] = stack[j]
      BY <1>1
  <2> QED BY <2>1, <2>2
<1> QED BY <1>1, <1>2, <1>3, <1>4, <1>5

\* A script that returns keeps the invariant.
LEMMA ScriptEndsInv == ASSUME Inv, ScriptEnds PROVE Inv'
<1> USE DEF ScriptEnds, Ends, Runs
<1>0. TypeOK /\ RunsCounted /\ LoadedIsOwn /\ RanksFall /\ AcyclicGetsOwn
    BY DEF Inv
<1>1. /\ stack' \in Seq(Module)
      /\ \A i, j \in 1 .. Len(stack') : i # j => stack'[i] # stack'[j]
      /\ Loading' = Loading \ {Top}
      /\ Top \in Loading /\ Top \in Module
      /\ RanksFall'
    BY PopFacts
<1>2. TypeOK'
  <2>1. exports' \in [Module -> {"empty", "own"}] /\ got' \in [Module -> SUBSET {"empty", "own"}]
      BY <1>0, <1>1 DEF TypeOK
  <2>2. /\ cached' = loaded' \cup failed' \cup Loading'
        /\ loaded' \cap failed' = {} /\ Loading' \cap (loaded' \cup failed') = {}
      BY <1>0, <1>1 DEF TypeOK
  <2> QED BY <1>0, <1>1, <2>1, <2>2 DEF TypeOK
<1>3. RunsCounted' /\ LoadedIsOwn'
    BY <1>0, <1>1 DEF RunsCounted, LoadedIsOwn, TypeOK
<1>4. AcyclicGetsOwn'
    BY <1>0, <1>1 DEF AcyclicGetsOwn, Acyclic, Ranks, TypeOK
<1> QED BY <1>1, <1>2, <1>3, <1>4 DEF Inv

\* So does one that throws: it only matters to those that have not failed.
LEMMA ScriptThrowsInv == ASSUME Inv, ScriptThrows PROVE Inv'
<1> USE DEF ScriptThrows
<1>0. TypeOK /\ RunsCounted /\ LoadedIsOwn /\ RanksFall
    BY DEF Inv
<1>1. /\ stack' \in Seq(Module)
      /\ \A i, j \in 1 .. Len(stack') : i # j => stack'[i] # stack'[j]
      /\ Loading' = Loading \ {Top}
      /\ Top \in Loading
      /\ RanksFall'
    BY PopFacts
<1>2. TypeOK'
  <2>1. /\ cached' = loaded' \cup failed' \cup Loading'
        /\ loaded' \cap failed' = {} /\ Loading' \cap (loaded' \cup failed') = {}
      BY <1>0, <1>1 DEF TypeOK
  <2> QED BY <1>0, <1>1, <2>1 DEF TypeOK
<1>3. RunsCounted' /\ LoadedIsOwn'
    BY <1>0 DEF RunsCounted, LoadedIsOwn
<1>4. AcyclicGetsOwn'
    BY DEF AcyclicGetsOwn
<1> QED BY <1>1, <1>2, <1>3, <1>4 DEF Inv

\* A module found in the cache is not on the stack if the program has no
\* cycle, so it is loaded, or has failed.
LEMMA RequireCachedInv == ASSUME Inv, NEW m \in Module, RequireCached(m) PROVE Inv'
<1> USE DEF RequireCached, MayRequire, Runs
<1>0. TypeOK /\ RunsCounted /\ LoadedIsOwn /\ RanksFall /\ AcyclicGetsOwn
    BY DEF Inv
<1>1. TypeOK'
  <2>1. got' \in [Module -> SUBSET {"empty", "own"}]
      BY <1>0 DEF TypeOK
  <2> QED BY <1>0, <2>1 DEF TypeOK, Loading
<1>2. RunsCounted' /\ LoadedIsOwn'
    BY <1>0 DEF RunsCounted, LoadedIsOwn
<1>3. RanksFall'
    BY <1>0 DEF RanksFall, Ranks
<1>4. AcyclicGetsOwn'
  <2> SUFFICES ASSUME Acyclic', failed' = {} PROVE \A k \in Module : got'[k] \subseteq {"own"}
      BY DEF AcyclicGetsOwn
  <2>1. PICK rank \in [Module -> 0 .. MaxRank] : Ranks(rank)
      BY DEF Acyclic, Ranks
  <2>2. m \notin Loading
    <3> SUFFICES ASSUME m \in Loading PROVE FALSE
        OBVIOUS
    <3>1. PICK i \in 1 .. Len(stack) : stack[i] = m
        BY DEF Loading
    <3>2. stack # <<>> /\ Len(stack) \in Nat \ {0} /\ Top \in Module
        BY <1>0, <3>1, StackFacts DEF TypeOK
    <3>3. rank[m] < rank[Top]
        BY <2>1, <3>2 DEF Ranks
    <3>4. i = Len(stack) \/ rank[Top] < rank[m]
        BY <1>0, <2>1, <3>1, <3>2 DEF RanksFall, Top
    <3>5. rank[m] \in Int /\ rank[Top] \in Int
        BY <3>2, RankAssumption
    <3> QED BY <3>1, <3>3, <3>4, <3>5 DEF Top
  <2>3. exports[m] = "own"
      BY <1>0, <2>2 DEF TypeOK, LoadedIsOwn
  <2>4. \A k \in Module : got[k] \subseteq {"own"}
      BY <1>0 DEF AcyclicGetsOwn, Acyclic, Ranks
  <2> QED BY <1>0, <2>3, <2>4 DEF TypeOK
<1> QED BY <1>1, <1>2, <1>3, <1>4 DEF Inv

\* Every step keeps the invariant.
LEMMA NextInv == Inv /\ [Next]_vars => Inv'
<1> SUFFICES ASSUME Inv, [Next]_vars PROVE Inv'
    OBVIOUS
<1>1. ASSUME NEW m \in Module, RequireCached(m) PROVE Inv'
    BY <1>1, RequireCachedInv
<1>2. ASSUME NEW m \in Module, Load(m) PROVE Inv'
    BY <1>2, LoadInv
<1>3. CASE ScriptEnds
    BY <1>3, ScriptEndsInv
<1>4. CASE ScriptThrows
    BY <1>4, ScriptThrowsInv
<1>5. CASE Panics \/ Catch \/ Rest \/ UNCHANGED vars
  <2>1. /\ UNCHANGED <<requires, cached, loaded, exports, stack, failed, runs, got>>
        /\ throwing' \in BOOLEAN /\ aborted' \in BOOLEAN
      BY <1>5 DEF Panics, Catch, Rest, vars, Inv, TypeOK
  <2>2. TypeOK'
      BY <2>1 DEF Inv, TypeOK, Loading
  <2>3. RunsCounted' /\ LoadedIsOwn'
      BY <2>1 DEF Inv, RunsCounted, LoadedIsOwn
  <2>4. RanksFall'
      BY <2>1 DEF Inv, RanksFall, Ranks
  <2>5. AcyclicGetsOwn'
      BY <2>1 DEF Inv, AcyclicGetsOwn, Acyclic, Ranks
  <2> QED BY <2>2, <2>3, <2>4, <2>5 DEF Inv
<1> QED BY <1>1, <1>2, <1>3, <1>4, <1>5 DEF Next

\* The invariant holds in every reachable state.
THEOREM Invariance == Spec => []Inv
<1> QED BY InitInv, NextInv, PTL DEF Spec

\* The cache, the stack and the failures account for every module at all times.
THEOREM TypesHold == Spec => []TypeOK
<1>1. Inv => TypeOK
    BY DEF Inv
<1> QED BY <1>1, Invariance, PTL

\* No script runs twice, whatever the program requires and catches.
THEOREM RunsOnce == Spec => []EvaluatedOnce
<1>1. Inv => EvaluatedOnce
    BY DEF Inv, RunsCounted, EvaluatedOnce
<1> QED BY <1>1, Invariance, PTL

\* Without cycles and failures, everybody gets the module's own exports.
THEOREM OwnExports == Spec => []AcyclicGetsOwn
<1>1. Inv => AcyclicGetsOwn
    BY DEF Inv
<1> QED BY <1>1, Invariance, PTL
=============================================================================
