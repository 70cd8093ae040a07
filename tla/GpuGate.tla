------------------------------- MODULE GpuGate -------------------------------
(***************************************************************************)
(* runtime/src/governor/gate.rs.  Every critical section of the gate's     *)
(* mutex is one action; a grant is sent to its waiter outside the mutex,   *)
(* so a waiter can give up between being popped and being sent to.         *)
(*                                                                         *)
(* A request is one call of `acquire`, and its guard is in one place:      *)
(*   "none"      there is no guard and the request is not queued           *)
(*   "queued"    the request is in `waiters`                               *)
(*   "granting"  popped: a releaser is about to send the guard             *)
(*   "granted"   the guard sits in the request's oneshot channel           *)
(*   "held"      `acquire` returned it                                     *)
(*   "dropped"   a releaser has yet to release it: the guard dropped by    *)
(*               its owner, or one whose waiter was found gone             *)
(* The order of the sends of one batch is left open: a batch of more than  *)
(* one is made of equal producers, so nothing depends on it.               *)
(***************************************************************************)
EXTENDS Naturals, Sequences, FiniteSets

CONSTANTS Requests, Producers, Shareable, NoProducer

ASSUME GateAssumption ==
    /\ IsFiniteSet(Requests)
    /\ Shareable \subseteq Producers
    /\ NoProducer \notin Producers

VARIABLES holder,     \* GateState.holder
          holders,    \* GateState.holders
          waiters,    \* GateState.waiters, requests in arrival order
          producer,   \* what each request asked for
          guard,      \* where each request's guard is
          listening,  \* whether the request's oneshot receiver is alive
          releaser    \* whose drop is running `release` for this guard

vars == <<holder, holders, waiters, producer, guard, listening, releaser>>

Places == {"none", "queued", "granting", "granted", "held", "dropped"}

Init ==
    /\ holder = NoProducer
    /\ holders = 0
    /\ waiters = <<>>
    /\ producer \in [Requests -> Producers]
    /\ guard = [r \in Requests |-> "none"]
    /\ listening = [r \in Requests |-> FALSE]
    /\ releaser = [r \in Requests |-> r]

(* The fast path's condition is admits(holder, p) past an empty queue.     *)
(* Mistakes: every producer shares with itself; a caller overtakes the     *)
(* queue.                                                                  *)
AdmitsEqual(h, p) == h = NoProducer \/ h = p

admits(h, p) == h = NoProducer \/ (h = p /\ p \in Shareable)

Overtaking(p) == admits(holder, p)

Straight(p) == waiters = <<>> /\ admits(holder, p)

Acquire(r, p) ==
    /\ guard[r] = "none"
    /\ producer' = [producer EXCEPT ![r] = p]
    /\ \/ /\ Straight(p)
          /\ holder' = p
          /\ holders' = holders + 1
          /\ guard' = [guard EXCEPT ![r] = "held"]
          /\ UNCHANGED <<waiters, listening>>
       \/ /\ ~Straight(p)
          /\ waiters' = Append(waiters, r)
          /\ guard' = [guard EXCEPT ![r] = "queued"]
          /\ listening' = [listening EXCEPT ![r] = TRUE]
          /\ UNCHANGED <<holder, holders>>
    /\ UNCHANGED releaser

(* The guard comes out of the channel: the awaited `acquire` resolves.     *)
Receive(r) ==
    /\ guard[r] = "granted"
    /\ guard' = [guard EXCEPT ![r] = "held"]
    /\ listening' = [listening EXCEPT ![r] = FALSE]
    /\ UNCHANGED <<holder, holders, waiters, producer, releaser>>

(* The `acquire` future is dropped.  A guard already in the channel is     *)
(* dropped with it; otherwise the waiter stays queued, to fail its grant.  *)
Cancel(r) ==
    /\ listening[r]
    /\ listening' = [listening EXCEPT ![r] = FALSE]
    /\ IF guard[r] = "granted"
         THEN /\ guard' = [guard EXCEPT ![r] = "dropped"]
              /\ releaser' = [releaser EXCEPT ![r] = r]
         ELSE UNCHANGED <<guard, releaser>>
    /\ UNCHANGED <<holder, holders, waiters, producer>>

DropGuard(r) ==
    /\ guard[r] = "held"
    /\ guard' = [guard EXCEPT ![r] = "dropped"]
    /\ releaser' = [releaser EXCEPT ![r] = r]
    /\ UNCHANGED <<holder, holders, waiters, producer, listening>>

(* How many waiters collect_admissions pops from queue q of a free gate:   *)
(* the front, and those behind it that share its producer.                 *)
Together(q, k) == \A i \in 1..k : producer[q[i]] = producer[q[1]]

(* A mistake: the gate is freed and nobody is woken.                       *)
AdmittedNobody(q, k) == k = 0

Admitted(q, k) ==
    IF q = <<>> THEN k = 0
    ELSE /\ k \in 1..Len(q)
         /\ k > 1 => producer[q[1]] \in Shareable
         /\ Together(q, k)
         /\ k < Len(q) =>
              ~(producer[q[1]] \in Shareable /\ Together(q, k + 1))

(* The count of holders after k admissions.  Mistakes: a batch counts as   *)
(* one, and the released holder is taken off the new count.                *)
CountOne(k) == IF k = 0 THEN 0 ELSE 1

CountOff(k) == k - 1

Count(k) == k

collect_admissions(r, k) ==
    /\ Admitted(waiters, k)
    /\ waiters' = SubSeq(waiters, k + 1, Len(waiters))
    /\ holder' = IF k = 0 THEN NoProducer ELSE producer[waiters[1]]
    /\ holders' = Count(k)
    /\ LET popped == {waiters[i] : i \in 1..k}
       IN /\ guard' = [s \in Requests |-> IF s \in popped THEN "granting"
                                          ELSE IF s = r THEN "none"
                                          ELSE guard[s]]
          /\ releaser' = [s \in Requests |-> IF s \in popped THEN releaser[r]
                                             ELSE releaser[s]]

Sending(b) == \E s \in Requests : guard[s] = "granting" /\ releaser[s] = b

(* The `match` that `release` opens with, and its debug_assert.            *)
Balanced(r) == holder = producer[r] /\ holders > 0

(* One turn of the loop in `release`: a guard comes off `pending` once the *)
(* grants of the turn before have been sent.                               *)
Release(r) ==
    /\ guard[r] = "dropped"
    /\ ~Sending(releaser[r])
    /\ IF Balanced(r) /\ holders = 1
         THEN \E k \in 0..Len(waiters) : collect_admissions(r, k)
         ELSE /\ holders' = IF Balanced(r) THEN holders - 1 ELSE holders
              /\ guard' = [guard EXCEPT ![r] = "none"]
              /\ UNCHANGED <<holder, waiters, releaser>>
    /\ UNCHANGED <<producer, listening>>

(* Where a guard goes that finds its waiter gone; a mistake: nowhere.      *)
Lost(r) == "none"

Unsent(r) == "dropped"

(* A mistake: waiters who are gone are not sent to at all.                 *)
SendSkips(r) ==
    /\ guard[r] = "granting" /\ listening[r]
    /\ guard' = [guard EXCEPT ![r] = "granted"]
    /\ UNCHANGED <<holder, holders, waiters, producer, listening, releaser>>

Send(r) ==
    /\ guard[r] = "granting"
    /\ guard' = [guard EXCEPT ![r] = IF listening[r] THEN "granted" ELSE Unsent(r)]
    /\ UNCHANGED <<holder, holders, waiters, producer, listening, releaser>>

Next == \E r \in Requests :
    \/ \E p \in Producers : Acquire(r, p)
    \/ Receive(r) \/ Cancel(r) \/ DropGuard(r) \/ Release(r) \/ Send(r)

Spec == Init /\ [][Next]_vars

(* A drop runs its release loop to the end, a resolved future is polled,   *)
(* and whoever holds the gate finishes; nobody has to ask or to give up.   *)
Fairness == \A r \in Requests :
    WF_vars(Receive(r)) /\ WF_vars(DropGuard(r)) /\ WF_vars(Release(r)) /\ WF_vars(Send(r))

FairSpec == Spec /\ Fairness
-----------------------------------------------------------------------------
(* The gate's fields, the guards and the callers' futures keep their types.*)
TypeOK ==
    /\ holder \in Producers \union {NoProducer}
    /\ holders \in Nat
    /\ waiters \in Seq(Requests)
    /\ producer \in [Requests -> Producers]
    /\ guard \in [Requests -> Places]
    /\ listening \in [Requests -> BOOLEAN]
    /\ releaser \in [Requests -> Requests]

(* The requests whose guard exists somewhere.                              *)
Guards == {r \in Requests : guard[r] \in {"granting", "granted", "held", "dropped"}}

(* `holders` is exactly the number of guards in existence, wherever they   *)
(* are, and all of them are for `holder`: no path through a failed grant   *)
(* leaks the gate or frees it twice.                                       *)
HoldersCountGuards ==
    /\ holders = Cardinality(Guards)
    /\ holders = 0 <=> holder = NoProducer
    /\ \A r \in Guards : producer[r] = holder

(* Two callers hold the gate at once only as generations of one model      *)
(* (gate.rs:1-5).                                                          *)
Exclusive == \A r, s \in Requests :
    guard[r] = "held" /\ guard[s] = "held" /\ r # s =>
        producer[r] = producer[s] /\ producer[r] \in Shareable

(* The debug_assert of `release`: no guard is released unbalanced.         *)
NeverUnbalanced == \A r \in Requests : guard[r] = "dropped" => Balanced(r)

(* A free gate has nobody waiting for it: with the whole of `release` as   *)
(* the only place that wakes a waiter, a waiter left behind a free gate    *)
(* would wait for good.                                                    *)
NoWaiterStranded == holder = NoProducer => waiters = <<>>

(* A waiting request ends up with the gate unless it gives up.             *)
WaiterServed == \A r \in Requests :
    (guard[r] = "queued" /\ listening[r]) ~> (guard[r] = "held" \/ ~listening[r])

(* "Dropping the future before it resolves cancels the wait and never      *)
(* leaves the gate held" (gate.rs:39-41): whatever the wait of a caller    *)
(* who gave up had become, it comes to nothing.                            *)
CancelledNeverHolds == \A r \in Requests :
    (guard[r] \in {"queued", "granting", "dropped"} /\ ~listening[r]) ~> (guard[r] = "none")

(* The gate implements FairGate: a caller owns the gate from the moment it *)
(* is popped until it drops the guard or gives up, and dead waiters in the *)
(* queue are nobody.                                                       *)
Owning(r) == guard[r] = "held" \/ (guard[r] \in {"granting", "granted"} /\ listening[r])

Abstract == INSTANCE FairGate WITH
    queue <- SelectSeq(waiters, LAMBDA r : listening[r]),
    owners <- {r \in Requests : Owning(r)},
    wants <- producer

ImplementsFairGate == Abstract!Spec

=============================================================================
