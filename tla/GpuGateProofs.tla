--------------------------- MODULE GpuGateProofs ---------------------------
(***************************************************************************)
(* The gate's safety for any finite set of requests and any producers.     *)
(* `holders = Cardinality(Guards)` is not inductive by itself: a batch of  *)
(* grants adds as many guards as it counts only because no request is      *)
(* queued twice and no queued request has a guard, and the batch keeps to  *)
(* one producer only because nobody waits behind a free gate.              *)
(***************************************************************************)
EXTENDS GpuGate, FiniteSetTheorems, SequenceTheorems, TLAPS

(* The queue holds each waiting request once, and only waiting requests.   *)
QueueOK ==
    /\ \A i, j \in 1..Len(waiters) : waiters[i] = waiters[j] => i = j
    /\ \A r \in Requests :
         guard[r] = "queued" <=> \E i \in 1..Len(waiters) : waiters[i] = r

(* The inductive invariant.                                                *)
GateInv ==
    /\ TypeOK
    /\ HoldersCountGuards
    /\ QueueOK
    /\ holders > 1 => holder \in Shareable
    /\ NoWaiterStranded

(* The guards in existence are finitely many.                              *)
LEMMA GuardsFinite == IsFiniteSet(Guards) /\ Cardinality(Guards) \in Nat
<1>1. Guards \in SUBSET Requests
  BY DEF Guards
<1>2. QED
  BY <1>1, GateAssumption, FS_Subset, FS_CardinalityType

(* The counter after a fast-path `acquire`.                                *)
LEMMA CountAdd ==
    ASSUME NEW r, r \notin Guards, Guards' = Guards \union {r}
    PROVE  Cardinality(Guards') = Cardinality(Guards) + 1
BY GuardsFinite, FS_AddElement

(* The counter after `release` of one guard.                               *)
LEMMA CountRemove ==
    ASSUME NEW r, r \in Guards, Guards' = Guards \ {r}
    PROVE  Cardinality(Guards') = Cardinality(Guards) - 1
BY GuardsFinite, FS_RemoveElement

(* The first k entries of a queue without repetitions are k requests.      *)
LEMMA PrefixCount ==
    ASSUME NEW q \in Seq(Requests), NEW k \in 0..Len(q),
           \A i, j \in 1..Len(q) : q[i] = q[j] => i = j
    PROVE  Cardinality({q[i] : i \in 1..k}) = k
<1> DEFINE S == {q[i] : i \in 1..k}
           f == [i \in 1..k |-> q[i]]
<1>1. f \in Bijection(1..k, S)
  BY DEF Bijection, Injection, Surjection, IsInjective
<1>2. ExistsBijection(1..k, S)
  BY <1>1 DEF ExistsBijection
<1>3. IsFiniteSet(1..k) /\ Cardinality(1..k) = k
  BY FS_Interval
<1>4. QED
  BY <1>2, <1>3, FS_Bijection

(* A new gate is free, with no guard and nobody in the queue.              *)
LEMMA InitInv == Init => GateInv
<1> SUFFICES ASSUME Init PROVE GateInv
  OBVIOUS
<1> USE DEF Init
<1>1. TypeOK
  BY GateAssumption DEF TypeOK, Places
<1>2. Guards = {}
  BY DEF Guards
<1>3. QED
  BY <1>1, <1>2, FS_EmptySet DEF GateInv, HoldersCountGuards, QueueOK, NoWaiterStranded

(* `acquire` adds one guard and counts it, or joins the queue behind a     *)
(* gate that is held.                                                      *)
LEMMA AcquireInv ==
    ASSUME GateInv, NEW r \in Requests, NEW p \in Producers, Acquire(r, p)
    PROVE  GateInv'
<1> USE GateAssumption DEF GateInv, TypeOK, Places
<1> r \notin Guards
  BY DEF Acquire, Guards
<1>1. CASE Straight(p)
  <2> /\ holder' = p /\ holders' = holders + 1 /\ waiters' = waiters
      /\ guard' = [guard EXCEPT ![r] = "held"]
      /\ producer' = [producer EXCEPT ![r] = p]
      /\ listening' = listening /\ releaser' = releaser
    BY <1>1 DEF Acquire, Straight
  <2>1. TypeOK'
    OBVIOUS
  <2>2. Guards' = Guards \union {r}
    BY DEF Guards
  <2>3. holders' = Cardinality(Guards')
    BY <2>2, CountAdd DEF HoldersCountGuards
  <2>4. \A s \in Guards' : producer'[s] = holder'
    BY <2>2, <1>1 DEF HoldersCountGuards, Guards, Straight, admits
  <2>5. HoldersCountGuards'
    BY <2>3, <2>4 DEF HoldersCountGuards
  <2>6. QueueOK'
    BY DEF QueueOK, Acquire, Straight
  <2>7. holders' > 1 => holder' \in Shareable
    BY <1>1 DEF Straight, admits, HoldersCountGuards
  <2>8. QED
    BY <1>1, <2>1, <2>5, <2>6, <2>7 DEF NoWaiterStranded, Straight
<1>2. CASE ~Straight(p)
  <2> /\ waiters' = Append(waiters, r) /\ holder' = holder /\ holders' = holders
      /\ guard' = [guard EXCEPT ![r] = "queued"]
      /\ producer' = [producer EXCEPT ![r] = p]
      /\ listening' = [listening EXCEPT ![r] = TRUE] /\ releaser' = releaser
      /\ guard[r] = "none"
    BY <1>2 DEF Acquire, Straight
  <2>1. TypeOK'
    BY AppendProperties
  <2>2. Guards' = Guards
    BY DEF Guards
  <2>3. HoldersCountGuards'
    BY <2>2 DEF HoldersCountGuards
  <2>4. /\ Len(waiters') = Len(waiters) + 1
        /\ waiters'[Len(waiters) + 1] = r
        /\ \A i \in 1..Len(waiters) : waiters'[i] = waiters[i]
        /\ Len(waiters) \in Nat
    BY AppendProperties
  <2>5. \A i \in 1..Len(waiters) : waiters[i] # r
    BY DEF QueueOK
  <2>6. QueueOK'
    <3>1. ASSUME NEW i \in 1..Len(waiters'), NEW j \in 1..Len(waiters'), waiters'[i] = waiters'[j]
          PROVE  i = j
      BY <2>4, <2>5, <3>1 DEF QueueOK
    <3>2. ASSUME NEW s \in Requests
          PROVE  guard'[s] = "queued" <=> \E i \in 1..Len(waiters') : waiters'[i] = s
      <4>1. CASE s = r
        BY <4>1, <2>4
      <4>2. CASE s # r
        <5>1. guard'[s] = guard[s]
          BY <4>2
        <5>2. (\E i \in 1..Len(waiters') : waiters'[i] = s) <=> (\E i \in 1..Len(waiters) : waiters[i] = s)
          BY <4>2, <2>4
        <5>3. QED
          BY <5>1, <5>2 DEF QueueOK
      <4>3. QED
        BY <4>1, <4>2
    <3>3. QED
      BY <3>1, <3>2 DEF QueueOK
  <2>7. holder # NoProducer
    BY <1>2 DEF NoWaiterStranded, Straight, admits
  <2>8. QED
    BY <2>1, <2>3, <2>6, <2>7 DEF NoWaiterStranded
<1>3. QED
  BY <1>1, <1>2

(* `Receive`, `Cancel`, `DropGuard` and `Send` move guards about: none     *)
(* appears and none goes.                                                  *)
LEMMA MoveInv ==
    ASSUME GateInv, NEW r \in Requests,
           Receive(r) \/ Cancel(r) \/ DropGuard(r) \/ Send(r)
    PROVE  GateInv'
<1> USE GateAssumption DEF GateInv, TypeOK, Places
<1>1. TypeOK'
  <2>1. CASE Receive(r)
    BY <2>1 DEF Receive
  <2>2. CASE Cancel(r)
    BY <2>2 DEF Cancel
  <2>3. CASE DropGuard(r)
    BY <2>3 DEF DropGuard
  <2>4. CASE Send(r)
    BY <2>4 DEF Send, Unsent
  <2>5. QED
    BY <2>1, <2>2, <2>3, <2>4
<1>2. UNCHANGED <<holder, holders, waiters, producer>>
  BY DEF Receive, Cancel, DropGuard, Send, Unsent
<1>3. \A s \in Requests :
        /\ guard'[s] = "queued" <=> guard[s] = "queued"
        /\ guard'[s] = "none" <=> guard[s] = "none"
  BY DEF Receive, Cancel, DropGuard, Send, Unsent
<1>4. Guards' = Guards
  BY <1>1, <1>3 DEF Guards
<1>5. QueueOK'
  BY <1>2, <1>3 DEF QueueOK
<1>6. QED
  BY <1>1, <1>2, <1>4, <1>5 DEF HoldersCountGuards, NoWaiterStranded

(* `release` drops one guard and hands the gate to the waiters it pops:    *)
(* as many guards are made as are counted, for waiters that had none.      *)
LEMMA ReleaseInv ==
    ASSUME GateInv, NEW r \in Requests, Release(r)
    PROVE  GateInv'
<1> USE GateAssumption DEF GateInv, TypeOK, Places
<1> guard[r] = "dropped" /\ r \in Guards /\ Cardinality(Guards) \in Nat
  BY GuardsFinite DEF Release, Guards
<1>1. holders > 0
  BY GuardsFinite, FS_EmptySet DEF HoldersCountGuards
<1>2. Balanced(r)
  BY <1>1 DEF Balanced, HoldersCountGuards
<1>3. CASE holders = 1
  <2>1. PICK k \in 0..Len(waiters) : collect_admissions(r, k)
    BY <1>2, <1>3 DEF Release
  <2> DEFINE popped == {waiters[i] : i \in 1..k}
  <2>2. /\ Len(waiters) \in Nat
        /\ \A i \in 1..Len(waiters) : waiters[i] \in Requests /\ guard[waiters[i]] = "queued"
        /\ waiters = <<>> => k = 0
        /\ waiters # <<>> => Len(waiters) > 0 /\ k \in 1..Len(waiters)
    BY <2>1, EmptySeq DEF QueueOK, Count, collect_admissions, Admitted
  <2>3. popped \subseteq Requests
    BY <2>2
  <2>4. /\ guard' = [s \in Requests |-> IF s \in popped THEN "granting"
                                       ELSE IF s = r THEN "none" ELSE guard[s]]
        /\ releaser' = [s \in Requests |-> IF s \in popped THEN releaser[r] ELSE releaser[s]]
        /\ waiters' = SubSeq(waiters, k + 1, Len(waiters))
        /\ holder' = IF k = 0 THEN NoProducer ELSE producer[waiters[1]]
        /\ holders' = k
        /\ producer' = producer /\ listening' = listening
    BY <2>1 DEF Count, collect_admissions, Release
  <2> HIDE DEF popped
  <2>5. /\ waiters' \in Seq(Requests)
        /\ Len(waiters') = Len(waiters) - k
        /\ \A i \in 1..Len(waiters') : waiters'[i] = waiters[k + i]
    <3>1. \A i \in (k + 1)..Len(waiters) : waiters[i] \in Requests
      BY <2>2
    <3> DEFINE rest == SubSeq(waiters, k + 1, Len(waiters))
    <3>2. /\ rest \in Seq(Requests)
          /\ Len(rest) = IF k + 1 <= Len(waiters) THEN Len(waiters) - (k + 1) + 1 ELSE 0
          /\ \A i \in 1..(Len(waiters) - (k + 1) + 1) : rest[i] = waiters[(k + 1) + i - 1]
      BY <2>2, <3>1, SubSeqProperties, k + 1 \in Int, Len(waiters) \in Int
    <3>3. Len(rest) = Len(waiters) - k
      BY <2>2, <3>2
    <3>4. \A i \in 1..Len(rest) : rest[i] = waiters[k + i]
      <4> HIDE DEF rest
      <4> TAKE i \in 1..Len(rest)
      <4>1. i \in 1..(Len(waiters) - (k + 1) + 1) /\ (k + 1) + i - 1 = k + i
        BY <2>2, <3>3
      <4>2. QED
        BY <3>2, <4>1
    <3>5. QED
      BY <2>4, <3>2, <3>3, <3>4
  <2>6. TypeOK'
    <3>1. holder' \in Producers \union {NoProducer}
      BY <2>2, <2>4
    <3>2. guard' \in [Requests -> Places] /\ releaser' \in [Requests -> Requests]
      BY <2>4
    <3>3. QED
      BY <2>4, <2>5, <3>1, <3>2
  <2>7. Guards = {r}
    <3>1. \E x : Guards = {x}
      BY <1>3, GuardsFinite, FS_Singleton DEF HoldersCountGuards
    <3>2. QED
      BY <3>1
  <2>8. Guards' = popped
    <3>1. \A s \in Requests : s # r => guard[s] \in {"none", "queued"}
      BY <2>7 DEF Guards
    <3>2. \A s \in Requests : s \in Guards' <=> s \in popped
      BY <2>4, <3>1 DEF Guards
    <3>3. Guards' \subseteq Requests
      BY DEF Guards
    <3>4. QED
      BY <2>3, <3>2, <3>3
  <2>9. HoldersCountGuards'
    <3>1. holders' = Cardinality(Guards')
      BY <2>4, <2>8, PrefixCount DEF popped, QueueOK
    <3>2. \A s \in Guards' : producer'[s] = holder'
      <4>1. k > 0 => \A i \in 1..k : producer[waiters[i]] = producer[waiters[1]]
        BY <2>1, <2>2 DEF Count, collect_admissions, Admitted, Together
      <4>2. QED
        BY <4>1, <2>4, <2>8 DEF popped
    <3>3. holders' = 0 <=> holder' = NoProducer
      BY <2>2, <2>4
    <3>4. QED
      BY <3>1, <3>2, <3>3 DEF HoldersCountGuards
  <2>10. QueueOK'
    <3>1. ASSUME NEW i \in 1..Len(waiters'), NEW j \in 1..Len(waiters'), waiters'[i] = waiters'[j]
          PROVE  i = j
      <4>1. k + i \in 1..Len(waiters) /\ k + j \in 1..Len(waiters) /\ waiters[k + i] = waiters[k + j]
        BY <2>2, <2>5, <3>1
      <4>2. QED
        BY <4>1 DEF QueueOK
    <3>2. ASSUME NEW s \in Requests, guard'[s] = "queued"
          PROVE  \E i \in 1..Len(waiters') : waiters'[i] = s
      <4>1. guard[s] = "queued" /\ s \notin popped
        BY <2>4, <3>2
      <4>2. PICK i \in 1..Len(waiters) : waiters[i] = s
        BY <4>1 DEF QueueOK
      <4>3. i \notin 1..k
        BY <4>1, <4>2 DEF popped
      <4>4. i - k \in 1..Len(waiters') /\ waiters'[i - k] = s
        BY <4>2, <4>3, <2>2, <2>5
      <4>5. QED
        BY <4>4
    <3>3. ASSUME NEW i \in 1..Len(waiters')
          PROVE  guard'[waiters'[i]] = "queued"
      <4>1. k + i \in 1..Len(waiters) /\ waiters'[i] = waiters[k + i]
        BY <2>2, <2>5
      <4>2. waiters[k + i] \notin popped
        <5>1. SUFFICES ASSUME NEW j \in 1..k, waiters[k + i] = waiters[j] PROVE FALSE
          BY DEF popped
        <5>2. j \in 1..Len(waiters) /\ j # k + i
          BY <2>2
        <5>3. QED
          BY <4>1, <5>1, <5>2 DEF QueueOK
      <4>3. waiters[k + i] \in Requests /\ guard[waiters[k + i]] = "queued"
        BY <4>1, <2>2
      <4>4. waiters[k + i] # r
        BY <4>3
      <4>5. QED
        BY <4>1, <4>2, <4>3, <4>4, <2>4
    <3>4. QED
      BY <3>1, <3>2, <3>3 DEF QueueOK
  <2>11. holders' > 1 => holder' \in Shareable
    BY <2>1, <2>2, <2>4 DEF Count, collect_admissions, Admitted
  <2>12. NoWaiterStranded'
    <3>1. CASE k = 0
      BY <3>1, <2>2, <2>4, SubSeqEmpty DEF NoWaiterStranded
    <3>2. CASE k # 0
      BY <3>2, <2>2, <2>4 DEF NoWaiterStranded
    <3>3. QED
      BY <3>1, <3>2
  <2>13. QED
    BY <2>6, <2>9, <2>10, <2>11, <2>12
<1>4. CASE holders # 1
  <2>1. /\ holders' = holders - 1
        /\ guard' = [guard EXCEPT ![r] = "none"]
        /\ UNCHANGED <<holder, waiters, releaser, producer, listening>>
    BY <1>2, <1>4 DEF Release
  <2>2. TypeOK'
    BY <1>1, <2>1
  <2>3. Guards' = Guards \ {r}
    BY <2>1 DEF Guards
  <2>4. holders' = Cardinality(Guards')
    BY <2>1, <2>3, CountRemove DEF HoldersCountGuards
  <2>5. HoldersCountGuards'
    BY <1>1, <1>4, <2>1, <2>3, <2>4 DEF HoldersCountGuards
  <2>6. QueueOK'
    BY <2>1 DEF QueueOK
  <2>7. QED
    BY <1>1, <2>1, <2>2, <2>5, <2>6 DEF NoWaiterStranded
<1>5. QED
  BY <1>3, <1>4

(* Every step of the gate preserves the invariant.                         *)
LEMMA NextInv == GateInv /\ [Next]_vars => GateInv'
<1> SUFFICES ASSUME GateInv, [Next]_vars PROVE GateInv'
  OBVIOUS
<1>1. CASE UNCHANGED vars
  BY <1>1 DEF vars, GateInv, TypeOK, HoldersCountGuards, Guards, QueueOK, NoWaiterStranded
<1>2. ASSUME NEW r \in Requests, NEW p \in Producers, Acquire(r, p) PROVE GateInv'
  BY <1>2, AcquireInv
<1>3. ASSUME NEW r \in Requests, Receive(r) \/ Cancel(r) \/ DropGuard(r) \/ Send(r) PROVE GateInv'
  BY <1>3, MoveInv
<1>4. ASSUME NEW r \in Requests, Release(r) PROVE GateInv'
  BY <1>4, ReleaseInv
<1>5. QED
  BY <1>1, <1>2, <1>3, <1>4 DEF Next

(* The invariant holds of every behaviour of the gate.                     *)
THEOREM GateInvariant == Spec => []GateInv
BY InitInv, NextInv, PTL DEF Spec

(* The gate's variables keep their types, `holders` never goes below 0.    *)
THEOREM TypeCorrect == Spec => []TypeOK
<1>1. GateInv => TypeOK
  BY DEF GateInv
<1>2. QED
  BY <1>1, GateInvariant, PTL

(* No sequence of grants, refused grants, cancellations and drops makes    *)
(* `holders` differ from the number of guards in existence.                *)
THEOREM CountsGuards == Spec => []HoldersCountGuards
<1>1. GateInv => HoldersCountGuards
  BY DEF GateInv
<1>2. QED
  BY <1>1, GateInvariant, PTL

(* Mutual exclusion, except among generations of one model.                *)
THEOREM MutualExclusion == Spec => []Exclusive
<1>1. GateInv => Exclusive
  <2> SUFFICES ASSUME GateInv, NEW r \in Requests, NEW s \in Requests,
                      guard[r] = "held", guard[s] = "held", r # s
               PROVE  producer[r] = producer[s] /\ producer[r] \in Shareable
    BY DEF Exclusive
  <2>1. r \in Guards /\ s \in Guards
    BY DEF Guards
  <2>2. Guards # {} /\ ~ \E x : Guards = {x}
    BY <2>1
  <2>3. holders # 0 /\ holders # 1
    BY <2>2, GuardsFinite, FS_EmptySet, FS_Singleton DEF GateInv, HoldersCountGuards
  <2>4. QED
    BY <2>1, <2>3 DEF GateInv, HoldersCountGuards, TypeOK
<1>2. QED
  BY <1>1, GateInvariant, PTL

(* The debug_assert in `release` cannot fail.                              *)
THEOREM ReleaseBalanced == Spec => []NeverUnbalanced
<1>1. GateInv => NeverUnbalanced
  <2> SUFFICES ASSUME GateInv, NEW r \in Requests, guard[r] = "dropped"
               PROVE  Balanced(r)
    BY DEF NeverUnbalanced
  <2>1. r \in Guards
    BY DEF Guards
  <2>2. holders # 0
    BY <2>1, GuardsFinite, FS_EmptySet DEF GateInv, HoldersCountGuards
  <2>3. QED
    BY <2>1, <2>2 DEF GateInv, HoldersCountGuards, TypeOK, Balanced
<1>2. QED
  BY <1>1, GateInvariant, PTL

(* Nobody waits behind a free gate.                                        *)
THEOREM NobodyStranded == Spec => []NoWaiterStranded
<1>1. GateInv => NoWaiterStranded
  BY DEF GateInv
<1>2. QED
  BY <1>1, GateInvariant, PTL

=============================================================================
