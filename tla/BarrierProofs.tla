---------------------------- MODULE BarrierProofs ---------------------------
(* The barrier for any finite number of threads: the count is that of the    *)
(* present generation, and with as many threads as the barrier is for they   *)
(* go round in step.                                                         *)
EXTENDS Barrier, CountsAndRings

Present == {t \in Waiting : gen[t] = generation}

Inv == TypeOK /\ GenerationOfTarget

LEMMA InitInv ==
  ASSUME Targets \subseteq Int, MaxRounds \in Nat, Init
  PROVE  Inv
<1>1. Waiting = {} /\ {t \in Waiting : gen[t] = generation} = {}
  BY DEF Init, Waiting
<1>2. QED BY <1>1, FS_EmptySet DEF Init, Inv, TypeOK, GenerationOfTarget, Waiting

(* What is known of the variables before a step. *)
LEMMA Known ==
  ASSUME Inv, IsFiniteSet(Threads)
  PROVE  /\ count = Cardinality(Present) /\ count \in Nat /\ Present \in SUBSET Threads
         /\ pc \in [Threads -> {"outside", "waiting"}] /\ gen \in [Threads -> 0 .. MaxRounds]
         /\ passed \in [Threads -> Nat] /\ generation \in 0 .. MaxRounds
         /\ cond \subseteq Waiting /\ \A t \in Waiting : gen[t] <= generation
         /\ \A t \in cond : gen[t] = generation
         /\ target \in Targets
  BY DEF Inv, TypeOK, GenerationOfTarget, Present, Waiting

LEMMA JoinKeepsInv ==
  ASSUME IsFiniteSet(Threads), Targets \subseteq Int, MaxRounds \in Nat, Inv,
         NEW t \in Threads, pc[t] = "outside", generation < MaxRounds,
         ~(count + 1 >= target), Join(t), UNCHANGED target
  PROVE  Inv'
<1>0. /\ count = Cardinality(Present) /\ count \in Nat /\ Present \in SUBSET Threads
      /\ pc \in [Threads -> {"outside", "waiting"}] /\ gen \in [Threads -> 0 .. MaxRounds]
      /\ generation \in 0 .. MaxRounds /\ target \in Targets /\ target \in Int
      /\ cond \subseteq Waiting /\ \A u \in Waiting : gen[u] <= generation
      /\ \A u \in cond : gen[u] = generation
  BY Known
<1>1. /\ pc' \in [Threads -> {"outside", "waiting"}] /\ gen' \in [Threads -> 0 .. MaxRounds]
      /\ pc'[t] = "waiting" /\ gen'[t] = generation
      /\ \A u \in Threads \ {t} : pc'[u] = pc[u] /\ gen'[u] = gen[u]
      /\ count' = count + 1 /\ cond' = cond \cup {t} /\ UNCHANGED <<generation, passed>>
  BY <1>0 DEF Join
<1>2. TypeOK'
  BY <1>0, <1>1 DEF Inv, TypeOK, Waiting
<1>3. /\ Present' \in SUBSET Threads /\ t \in Present' /\ t \notin Present
      /\ \A u \in Threads \ {t} : u \in Present' <=> u \in Present
  BY <1>0, <1>1 DEF Present, Waiting
<1>4. count' = Cardinality(Present)'
  BY <1>0, <1>1, <1>3, CountChange DEF One
<1>5. \A u \in Waiting' : gen'[u] <= generation'
  BY <1>0, <1>1 DEF Waiting
<1>6. \A u \in cond' : gen'[u] = generation'
  BY <1>0, <1>1 DEF Waiting
<1>7. QED BY <1>2, <1>4, <1>5, <1>6 DEF Inv, GenerationOfTarget, Present

LEMMA PassTyped ==
  ASSUME Inv, IsFiniteSet(Threads), MaxRounds \in Nat, NEW t \in Threads, Pass(t)
  PROVE  /\ pc' \in [Threads -> {"outside", "waiting"}] /\ gen' \in [Threads -> 0 .. MaxRounds]
         /\ passed' \in [Threads -> Nat]
         /\ pc'[t] = "outside" /\ passed'[t] = passed[t] + 1
         /\ \A u \in Threads \ {t} :
              pc'[u] = pc[u] /\ gen'[u] = gen[u] /\ passed'[u] = passed[u]
  BY Known DEF Pass

LEMMA OpenKeepsInv ==
  ASSUME IsFiniteSet(Threads), MaxRounds \in Nat, Inv, NEW t \in Threads,
         pc[t] = "outside", generation < MaxRounds, Open(t), UNCHANGED target
  PROVE  Inv'
<1>0. /\ generation \in 0 .. MaxRounds /\ target \in Targets
      /\ gen \in [Threads -> 0 .. MaxRounds]
      /\ \A u \in Waiting : gen[u] <= generation
  BY Known
<1>1. /\ pc' \in [Threads -> {"outside", "waiting"}] /\ gen' \in [Threads -> 0 .. MaxRounds]
      /\ passed' \in [Threads -> Nat] /\ pc'[t] = "outside"
      /\ \A u \in Threads \ {t} : pc'[u] = pc[u] /\ gen'[u] = gen[u]
  BY PassTyped DEF Open
<1>2. count' = 0 /\ generation' = generation + 1 /\ cond' = {}
  BY DEF Open
<1>3. TypeOK'
  BY <1>0, <1>1, <1>2 DEF TypeOK
<1>4. \A u \in Waiting' : u \in Waiting /\ gen'[u] <= generation
  BY <1>0, <1>1 DEF Waiting
<1>5. Present' = {} /\ \A u \in Waiting' : gen'[u] <= generation'
  BY <1>0, <1>1, <1>2, <1>4 DEF Present, Waiting
<1>6. count' = Cardinality(Present)'
  BY <1>2, <1>5, FS_EmptySet
<1>7. QED BY <1>2, <1>3, <1>5, <1>6 DEF Inv, GenerationOfTarget, Present

LEMMA RecheckKeepsInv ==
  ASSUME IsFiniteSet(Threads), MaxRounds \in Nat, Inv, NEW t \in Threads, Recheck(t)
  PROVE  Inv'
<1>0. /\ count = Cardinality(Present) /\ count \in Nat /\ Present \in SUBSET Threads
      /\ pc \in [Threads -> {"outside", "waiting"}] /\ gen \in [Threads -> 0 .. MaxRounds]
      /\ generation \in 0 .. MaxRounds
      /\ cond \subseteq Waiting /\ \A u \in Waiting : gen[u] <= generation
      /\ \A u \in cond : gen[u] = generation
  BY Known
<1>1. pc[t] = "waiting" /\ t \notin cond /\ UNCHANGED <<count, target, generation>>
  BY DEF Recheck
<1>2. CASE generation = gen[t]
  <2>1. cond' = cond \cup {t} /\ UNCHANGED <<pc, gen, passed>>
    BY <1>2 DEF Recheck
  <2>2. QED BY <1>0, <1>1, <1>2, <2>1 DEF Inv, TypeOK, GenerationOfTarget, Waiting
<1>3. CASE generation # gen[t]
  <2>1. Pass(t) /\ UNCHANGED cond
    BY <1>3 DEF Recheck
  <2>2. /\ pc' \in [Threads -> {"outside", "waiting"}] /\ gen' \in [Threads -> 0 .. MaxRounds]
        /\ passed' \in [Threads -> Nat] /\ pc'[t] = "outside"
        /\ \A u \in Threads \ {t} : pc'[u] = pc[u] /\ gen'[u] = gen[u]
    BY <2>1, PassTyped
  <2>3. \A u \in Threads : u \in Waiting' <=> u \in Waiting /\ u # t
    BY <1>0, <2>2 DEF Waiting
  <2>4. Present' = Present
    BY <1>0, <1>1, <1>3, <2>2, <2>3 DEF Present, Waiting
  <2>5. cond' \subseteq Waiting' /\ \A u \in cond' : gen'[u] = generation'
    BY <1>0, <1>1, <2>1, <2>2, <2>3 DEF Waiting
  <2>6. \A u \in Waiting' : gen'[u] <= generation'
    BY <1>0, <1>1, <2>2, <2>3 DEF Waiting
  <2>7. TypeOK'
    BY <1>0, <1>1, <2>1, <2>2, <2>5 DEF Inv, TypeOK, Waiting
  <2>8. count' = Cardinality(Present)'
    BY <1>0, <1>1, <2>4
  <2>9. QED BY <2>5, <2>6, <2>7, <2>8 DEF Inv, GenerationOfTarget, Present
<1>4. QED BY <1>2, <1>3

LEMMA NextKeepsInv ==
  ASSUME IsFiniteSet(Threads), Targets \subseteq Int, MaxRounds \in Nat, Inv, [Next]_vars
  PROVE  Inv'
<1>1. CASE UNCHANGED vars
  BY <1>1 DEF vars, Inv, TypeOK, GenerationOfTarget, Waiting
<1>2. ASSUME NEW t \in Threads, Arrive(t)
      PROVE  Inv'
  BY <1>2, JoinKeepsInv, OpenKeepsInv DEF Arrive
<1>3. ASSUME NEW t \in Threads, Recheck(t)
      PROVE  Inv'
  BY <1>3, RecheckKeepsInv
<1>4. ASSUME NEW t \in Threads, SpuriousWakeup(t)
      PROVE  Inv'
  BY <1>4 DEF SpuriousWakeup, Inv, TypeOK, GenerationOfTarget, Waiting
<1>5. QED BY <1>1, <1>2, <1>3, <1>4 DEF Next

(* Who waits in the present generation is counted, and who waits in an       *)
(* earlier one is awake (concurrency.c:148-159), for any target.             *)
THEOREM GenerationsApart ==
  ASSUME IsFiniteSet(Threads), Targets \subseteq Int, MaxRounds \in Nat
  PROVE  Spec => [](TypeOK /\ GenerationOfTarget)
<1>1. Inv => TypeOK /\ GenerationOfTarget
  BY DEF Inv
<1>2. Init => Inv
  BY InitInv
<1>3. Inv /\ [Next]_vars => Inv'
  BY NextKeepsInv
<1>4. QED BY <1>1, <1>2, <1>3, PTL DEF Spec
-----------------------------------------------------------------------------
(* With as many threads as the barrier is for, a thread outside has passed   *)
(* every generation that is over, and one that waits is in the present or in *)
(* the last one.                                                             *)
InStep ==
  Cardinality(Threads) = target =>
    \A t \in Threads :
       /\ pc[t] = "outside" => passed[t] = generation
       /\ pc[t] = "waiting" => /\ passed[t] = gen[t]
                               /\ gen[t] = generation \/ gen[t] = generation - 1

LEMMA NextKeepsInStep ==
  ASSUME IsFiniteSet(Threads), Targets \subseteq Int, MaxRounds \in Nat,
         Inv, InStep, [Next]_vars
  PROVE  InStep'
<1> SUFFICES ASSUME Cardinality(Threads) = target'
             PROVE  InStep'
  BY DEF InStep
<1>0. /\ count = Cardinality(Present) /\ count \in Nat /\ Present \in SUBSET Threads
      /\ pc \in [Threads -> {"outside", "waiting"}] /\ gen \in [Threads -> 0 .. MaxRounds]
      /\ passed \in [Threads -> Nat] /\ generation \in 0 .. MaxRounds
  BY Known
<1>1. target' = target
  BY DEF Next, vars, Arrive, Recheck, SpuriousWakeup
<1>2. \A t \in Threads :
         /\ pc[t] = "outside" => passed[t] = generation
         /\ pc[t] = "waiting" => /\ passed[t] = gen[t]
                                 /\ gen[t] = generation \/ gen[t] = generation - 1
  BY <1>1 DEF InStep
<1>3. CASE UNCHANGED vars
  BY <1>2, <1>3 DEF vars, InStep
<1>4. ASSUME NEW t \in Threads, SpuriousWakeup(t)
      PROVE  InStep'
  BY <1>2, <1>4 DEF SpuriousWakeup, InStep
<1>5. ASSUME NEW t \in Threads, Arrive(t)
      PROVE  InStep'
  <2>1. CASE count + 1 >= target
    <3>1. Open(t) /\ pc[t] = "outside"
      BY <1>5, <2>1 DEF Arrive
    <3>2. /\ pc'[t] = "outside" /\ passed'[t] = passed[t] + 1 /\ generation' = generation + 1
          /\ \A u \in Threads \ {t} :
               pc'[u] = pc[u] /\ gen'[u] = gen[u] /\ passed'[u] = passed[u]
      BY <3>1, PassTyped DEF Open
    <3>3. Present = Threads \ {t}
      <4>1. Present \subseteq Threads \ {t}
        BY <1>0, <3>1 DEF Present, Waiting
      <4>2. IsFiniteSet(Threads \ {t}) /\ Cardinality(Threads \ {t}) = Cardinality(Threads) - 1
        BY FS_RemoveElement
      <4>3. Cardinality(Threads) \in Nat
        BY FS_CardinalityType
      <4>4. Cardinality(Present) >= Cardinality(Threads \ {t})
        BY <1>0, <1>1, <2>1, <4>2, <4>3
      <4>5. Cardinality(Present) <= Cardinality(Threads \ {t})
            /\ (Cardinality(Present) = Cardinality(Threads \ {t}) => Present = Threads \ {t})
        BY <4>1, <4>2, FS_Subset
      <4>6. Cardinality(Threads \ {t}) \in Nat
        BY <4>2, FS_CardinalityType
      <4>7. QED BY <1>0, <4>4, <4>5, <4>6
    <3>4. \A u \in Threads \ {t} : pc[u] = "waiting" /\ gen[u] = generation
      BY <3>3 DEF Present, Waiting
    <3>5. QED BY <1>0, <1>2, <3>1, <3>2, <3>4 DEF InStep
  <2>2. CASE ~(count + 1 >= target)
    <3>1. Join(t) /\ pc[t] = "outside"
      BY <1>5, <2>2 DEF Arrive
    <3>2. /\ pc'[t] = "waiting" /\ gen'[t] = generation /\ UNCHANGED <<generation, passed>>
          /\ \A u \in Threads \ {t} : pc'[u] = pc[u] /\ gen'[u] = gen[u]
      BY <1>0, <3>1 DEF Join
    <3>3. QED BY <1>0, <1>2, <3>1, <3>2 DEF InStep
  <2>3. QED BY <2>1, <2>2
<1>6. ASSUME NEW t \in Threads, Recheck(t)
      PROVE  InStep'
  <2>1. CASE generation = gen[t]
    BY <1>2, <1>6, <2>1 DEF Recheck, InStep
  <2>2. CASE generation # gen[t]
    <3>1. Pass(t) /\ pc[t] = "waiting" /\ UNCHANGED generation
      BY <1>6, <2>2 DEF Recheck
    <3>2. /\ pc'[t] = "outside" /\ passed'[t] = passed[t] + 1
          /\ \A u \in Threads \ {t} :
               pc'[u] = pc[u] /\ gen'[u] = gen[u] /\ passed'[u] = passed[u]
      BY <3>1, PassTyped
    <3>3. QED BY <1>0, <1>2, <2>2, <3>1, <3>2 DEF InStep
  <2>3. QED BY <2>1, <2>2
<1>7. QED BY <1>3, <1>4, <1>5, <1>6 DEF Next

LEMMA InStepNotEarly ==
  ASSUME IsFiniteSet(Threads), Inv, InStep
  PROVE  NobodyEarly
<1> SUFFICES ASSUME Cardinality(Threads) = target, NEW t \in Threads, NEW u \in Threads
             PROVE  passed[t] <= Arrived(u)
  BY DEF NobodyEarly
<1>1. /\ pc \in [Threads -> {"outside", "waiting"}] /\ gen \in [Threads -> 0 .. MaxRounds]
      /\ passed \in [Threads -> Nat] /\ generation \in 0 .. MaxRounds
  BY Known
<1>2. passed[t] <= generation
  BY <1>1 DEF InStep
<1>3. generation <= Arrived(u)
  BY <1>1 DEF InStep, Arrived, Waiting
<1>4. Arrived(u) \in Nat
  BY <1>1 DEF Arrived
<1>5. QED BY <1>1, <1>2, <1>3, <1>4

(* Nobody comes back from the r-th wait before everybody called it for the   *)
(* r-th time, when there are as many threads as the barrier is for           *)
(* (concurrency.c:148-159).                                                  *)
THEOREM NobodyPassesEarly ==
  ASSUME IsFiniteSet(Threads), Targets \subseteq Int, MaxRounds \in Nat
  PROVE  Spec => []NobodyEarly
<1>1. Inv /\ InStep => NobodyEarly
  BY InStepNotEarly
<1>2. Init => Inv /\ InStep
  BY InitInv DEF Init, InStep
<1>3. Inv /\ InStep /\ [Next]_vars => Inv' /\ InStep'
  BY NextKeepsInv, NextKeepsInStep
<1>4. QED BY <1>1, <1>2, <1>3, PTL DEF Spec
=============================================================================
