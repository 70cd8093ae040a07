------------------------------ MODULE FairGate ------------------------------
(***************************************************************************)
(* What the GPU gate promises its callers, with none of its machinery: a   *)
(* queue of callers who are still waiting and the set of callers who own   *)
(* the gate.  A caller who gave up is in neither.  The gate goes to the    *)
(* head of the queue; the callers right behind it come in with it when     *)
(* they ask for the same shareable producer.                               *)
(***************************************************************************)
EXTENDS Naturals, Sequences

CONSTANTS Requests,    \* the calls of `acquire` that can be in flight
          Producers,   \* the GpuProducer values they ask for
          Shareable    \* the producers `shares` answers true for

VARIABLES queue,       \* callers waiting, first come first
          owners,      \* callers the gate has been given to
          wants        \* what each caller asked for

vars == <<queue, owners, wants>>

Compatible(p, o) == \A r \in o : wants[r] = p /\ p \in Shareable

Init ==
    /\ queue = <<>>
    /\ owners = {}
    /\ wants \in [Requests -> Producers]

Outside(r) == r \notin owners /\ \A i \in DOMAIN queue : queue[i] # r

(* A caller is let straight in past an empty queue.                        *)
Enter(r, p) ==
    /\ Outside(r)
    /\ queue = <<>> /\ Compatible(p, owners)
    /\ wants' = [wants EXCEPT ![r] = p]
    /\ owners' = owners \union {r}
    /\ UNCHANGED queue

(* A caller lines up.  The gate may look free to it: an owner may not be   *)
(* quite gone, and callers ahead of it may have given up.                  *)
LineUp(r, p) ==
    /\ Outside(r)
    /\ wants' = [wants EXCEPT ![r] = p]
    /\ queue' = Append(queue, r)
    /\ UNCHANGED owners

(* The first k callers are let in together.                                *)
Grant(k) ==
    /\ k \in 1..Len(queue)
    /\ owners = {}
    /\ \A i \in 1..k : wants[queue[i]] = wants[queue[1]]
    /\ k > 1 => wants[queue[1]] \in Shareable
    /\ owners' = {queue[i] : i \in 1..k}
    /\ queue' = SubSeq(queue, k + 1, Len(queue))
    /\ UNCHANGED wants

(* An owner is done, or stops caring about the gate it was just given.     *)
Leave(r) ==
    /\ r \in owners
    /\ owners' = owners \ {r}
    /\ UNCHANGED <<queue, wants>>

(* A waiting caller gives up.                                              *)
GiveUp(r) ==
    /\ \E i \in DOMAIN queue : queue[i] = r
    /\ queue' = SelectSeq(queue, LAMBDA s : s # r)
    /\ UNCHANGED <<owners, wants>>

Next ==
    \/ \E r \in Requests : \/ \E p \in Producers : Enter(r, p) \/ LineUp(r, p)
                           \/ Leave(r)
                           \/ GiveUp(r)
    \/ \E k \in 1..Len(queue) : Grant(k)

Spec == Init /\ [][Next]_vars

=============================================================================
