------------------------------ MODULE Governor ------------------------------
(***************************************************************************)
(* The memory governor and its users: runtime/src/governor/{memory, lease, *)
(* residency}.rs, runtime/src/governed.rs and the job admission of         *)
(* runtime/src/facade/admission.rs.                                        *)
(*                                                                         *)
(* Tasks are requests for a model: a sidecar-served one goes through       *)
(* warm_load_acquire, any other through governed_one_shot.  Timers are the *)
(* spawned idle-unload tasks.  Each std mutex is taken and let go inside   *)
(* one action; an await is a pc of its own.  The GPU gate is FairGate.     *)
(*                                                                         *)
(* `residents` is kept in `loaded_at` order, so the ticks themselves are   *)
(* not needed.                                                             *)
(***************************************************************************)
EXTENDS Integers, Sequences, FiniteSets, SequencesExt

CONSTANTS Models, Tasks, Timers,
          ModelOf,          \* the model each task asks for
          Sidecars,         \* the models a sidecar serves
          Footprint,        \* record.footprint_mib(), or Unknown
          HeavyThreshold,   \* heavy_threshold_mb
          Budget,           \* ram_budget_mb, the ceiling when unset
          JobTasks,         \* tasks the job scheduler admits first
          Cancellable,      \* tasks whose caller may go away
          CancelPoints,     \* the awaits at which it may
          Faults,           \* "start": a sidecar may fail to start; "crash": may die
          WindowsElapse,    \* whether warm windows run out at all
          Policies,         \* the eviction policies `apply` may set
          Unknown, None

Procs == Tasks \union Timers

Generation(m) == <<"Generation", m>>
Load(m) == <<"Load", m>>
Unload(m) == <<"Unload", m>>
Job(m) == <<"Job", m>>
GpuProducers == {<<k, m>> : k \in {"Generation", "Load", "Unload", "Job"}, m \in Models}

ASSUME GovernorAssumption ==
    /\ Tasks \intersect Timers = {}
    /\ None \notin Procs /\ None \notin Models
    /\ ModelOf \in [Tasks -> Models]
    /\ Footprint \in [Models -> Int \union {Unknown}]
    /\ HeavyThreshold \in Int /\ Budget \in Int
    /\ Policies \subseteq {"StrictSingle", "Budgeted"}
    /\ Faults \subseteq {"start", "crash"} /\ WindowsElapse \in BOOLEAN

VARIABLES
    residents,    \* GovernorState.residents, oldest load first
    eviction,     \* GovernorState.eviction_policy
    unloader,     \* residency unloaders: "none", "noop" or "shutdown"
    idle,         \* residency idle_tasks: the timer whose handle is kept
    unloadLock,   \* residency unload_locks: who holds it
    suspended,    \* residency suspended
    leases,       \* ModelLease counts
    admission,    \* who holds the admission mutex
    sidecar,      \* each model's process: "down", "up" or "stopping"
    queue, owners, wants,   \* the GPU gate
    pc,           \* where each task and timer is
    conflict,     \* the model a proc is evicting
    taken,        \* the unloader a proc holds in its RestoreUnloader
    aborted,      \* timers that will be cancelled at their next await
    byJob         \* tasks still in the job scheduler's admission

gateVars == <<queue, owners, wants>>
residency == <<unloader, idle, unloadLock, suspended>>
vars == <<residents, eviction, unloader, idle, unloadLock, suspended, leases, admission,
          sidecar, queue, owners, wants, pc, conflict, taken, aborted, byJob>>

Gate == INSTANCE FairGate WITH Requests <- Procs, Producers <- GpuProducers,
                               Shareable <- {Generation(m) : m \in Models}

Init ==
    /\ residents = <<>>
    /\ eviction \in Policies
    /\ unloader = [m \in Models |-> "none"]
    /\ idle = [m \in Models |-> None]
    /\ unloadLock = [m \in Models |-> None]
    /\ suspended = FALSE
    /\ leases = [m \in Models |-> 0]
    /\ admission = None
    /\ sidecar = [m \in Models |-> "down"]
    /\ queue = <<>> /\ owners = {} /\ wants = [p \in Procs |-> None]
    /\ pc = [p \in Procs |-> IF p \in Tasks THEN "idle" ELSE "free"]
    /\ conflict = [p \in Procs |-> None]
    /\ taken = [p \in Procs |-> "none"]
    /\ aborted = [t \in Timers |-> FALSE]
    /\ byJob = [t \in Tasks |-> FALSE]

(* A caller lines up only behind somebody: the moments in which the real   *)
(* gate is still handing over are left to GpuGate.                         *)
acquire(p, prod) ==
    IF queue = <<>> /\ Gate!Compatible(prod, owners)
    THEN Gate!Enter(p, prod) ELSE Gate!LineUp(p, prod)


Granted(p) == p \in owners

is_resident(m) == Contains(residents, m)
is_running(m) == sidecar[m] # "down"
Goto(p, l) == pc' = [pc EXCEPT ![p] = l]
-----------------------------------------------------------------------------
(* Timer handles.  A sleeping timer dies when its handle is aborted; one   *)
(* that is already running dies at its first await.                        *)

PcWithout(m) == [p \in Procs |-> IF p = idle[m] /\ pc[p] = "sleeping" THEN "free" ELSE pc[p]]

AbortTimer(m) ==
    /\ idle' = [idle EXCEPT ![m] = None]
    /\ aborted' = [t \in Timers |-> aborted[t] \/ (t = idle[m] /\ pc[t] = "fired")]

cancel_idle_unload(p, m, l) ==
    /\ AbortTimer(m)
    /\ pc' = [PcWithout(m) EXCEPT ![p] = l]

register(p, m, u, l) ==
    /\ unloader' = [unloader EXCEPT ![m] = u]
    /\ cancel_idle_unload(p, m, l)

deregister(p, m, l) == register(p, m, "none", l)

(* Whether there is an idle unload to arm; then the same, as a mistake     *)
(* would have it, with the suspension not looked at.                       *)
MayArmAfterQuit(m) == unloader[m] # "none"

MayArm(m) == ~suspended /\ unloader[m] # "none"

schedule_idle_unload(p, m) ==
    \/ /\ ~MayArm(m)
       /\ Goto(p, "idle")
       /\ UNCHANGED <<idle, aborted, conflict>>
    \/ /\ MayArm(m)
       /\ \E t \in Timers :
            /\ PcWithout(m)[t] = "free"
            /\ pc' = [PcWithout(m) EXCEPT ![p] = "idle", ![t] = "sleeping"]
            /\ idle' = [idle EXCEPT ![m] = t]
            /\ aborted' = [u \in Timers |-> IF u = t THEN FALSE
                                            ELSE aborted[u] \/ (u = idle[m] /\ pc[u] = "fired")]
            /\ conflict' = [conflict EXCEPT ![t] = m]

TimerFires(t) ==
    /\ pc[t] = "sleeping" /\ WindowsElapse
    /\ Goto(t, "fired")
    /\ UNCHANGED <<residents, eviction, residency, leases, admission, sidecar, gateVars,
                   conflict, taken, aborted, byJob>>

suspend_all ==
    /\ ~suspended
    /\ suspended' = TRUE
    /\ idle' = [m \in Models |-> None]
    /\ LET armed == {idle[m] : m \in Models}
       IN /\ pc' = [p \in Procs |-> IF p \in armed /\ pc[p] = "sleeping" THEN "free" ELSE pc[p]]
          /\ aborted' = [t \in Timers |-> aborted[t] \/ (t \in armed /\ pc[t] = "fired")]
    /\ UNCHANGED <<residents, eviction, unloader, unloadLock, leases, admission, sidecar,
                   gateVars, conflict, taken, byJob>>

(* A settings change saw a pending timer and goes on to re-arm it, by      *)
(* which time the timer may be gone.                                       *)
set_warm_window(p) ==
    /\ pc[p] = "idle" /\ idle[ModelOf[p]] # None
    /\ Goto(p, "schedule")
    /\ UNCHANGED <<residents, eviction, residency, leases, admission, sidecar, gateVars,
                   conflict, taken, aborted, byJob>>

(* MemoryGovernor::apply; the keep-warm part is set_warm_window.           *)
apply ==
    /\ eviction' \in Policies \ {eviction}
    /\ UNCHANGED <<residents, residency, leases, admission, sidecar, gateVars, pc, conflict,
                   taken, aborted, byJob>>
-----------------------------------------------------------------------------
(* begin_generation and end_generation.                                    *)

Begin(p) ==
    LET m == ModelOf[p] IN
    /\ pc[p] \in {"idle", "begin"}
    /\ pc[p] = "idle" => p \notin JobTasks
    /\ leases' = [leases EXCEPT ![m] = @ + 1]
    /\ Goto(p, "leased")
    /\ UNCHANGED <<residents, eviction, residency, admission, sidecar, gateVars, conflict,
                   taken, aborted, byJob>>

BeginCancelsTimer(p) ==
    /\ pc[p] = "leased"
    /\ cancel_idle_unload(p, ModelOf[p], IF ModelOf[p] \in Sidecars THEN "check" ELSE "admit")
    /\ UNCHANGED <<residents, eviction, unloader, unloadLock, suspended, leases, admission,
                   sidecar, gateVars, conflict, taken, byJob>>

EndRelease(p) ==
    /\ pc[p] = "end"
    /\ leases' = [leases EXCEPT ![ModelOf[p]] = IF @ > 0 THEN @ - 1 ELSE 0]
    /\ Goto(p, "ended")
    /\ UNCHANGED <<residents, eviction, residency, admission, sidecar, gateVars, conflict,
                   taken, aborted, byJob>>

EndChecks(p) ==
    LET m == ModelOf[p] IN
    /\ pc[p] = "ended"
    /\ Goto(p, IF leases[m] = 0 /\ is_resident(m) THEN "schedule" ELSE "idle")
    /\ UNCHANGED <<residents, eviction, residency, leases, admission, sidecar, gateVars,
                   conflict, taken, aborted, byJob>>

EndSchedules(p) ==
    /\ pc[p] = "schedule"
    /\ schedule_idle_unload(p, ModelOf[p])
    /\ UNCHANGED <<residents, eviction, unloader, unloadLock, suspended, leases, admission,
                   sidecar, gateVars, taken, byJob>>
-----------------------------------------------------------------------------
(* admit, settle_conflicts and reserve.                                    *)

recorded(m) == IF Footprint[m] = Unknown THEN HeavyThreshold ELSE Footprint[m]
is_heavy(m) == Footprint[m] # Unknown /\ Footprint[m] >= HeavyThreshold

Others(m) == SelectSeq(residents, LAMBDA c : c # m)
Occupied(m) == FoldSeq(LAMBDA c, sum : recorded(c) + sum, 0, Others(m))

eviction_conflict(m) ==
    IF eviction = "StrictSingle"
    THEN {c \in ToSet(Others(m)) : recorded(c) >= HeavyThreshold}
    ELSE IF Occupied(m) + recorded(m) <= Budget \/ Others(m) = <<>> THEN {}
    ELSE {Head(Others(m))}

JobAdmission(p) ==
    /\ pc[p] = "idle" /\ p \in JobTasks
    /\ byJob' = [byJob EXCEPT ![p] = TRUE]
    /\ Goto(p, "admit")
    /\ UNCHANGED <<residents, eviction, residency, leases, admission, sidecar, gateVars,
                   conflict, taken, aborted>>

(* The admitted job's runner can give up before it begins a generation.    *)
JobStops(p) ==
    /\ pc[p] = "begin" /\ p \in Cancellable
    /\ Goto(p, "idle")
    /\ UNCHANGED <<residents, eviction, residency, leases, admission, sidecar, gateVars,
                   conflict, taken, aborted, byJob>>

Admit(p) ==
    /\ pc[p] = "admit"
    /\ Goto(p, IF ~is_heavy(ModelOf[p]) /\ eviction = "StrictSingle" THEN "reserve" ELSE "admitting")
    /\ UNCHANGED <<residents, eviction, residency, leases, admission, sidecar, gateVars,
                   conflict, taken, aborted, byJob>>

LockAdmission(p) ==
    /\ pc[p] = "admitting" /\ admission = None
    /\ admission' = p
    /\ Goto(p, "settle")
    /\ UNCHANGED <<residents, eviction, residency, leases, sidecar, gateVars, conflict, taken,
                   aborted, byJob>>

Settle(p) ==
    LET conflicts == eviction_conflict(ModelOf[p]) IN
    /\ pc[p] = "settle"
    /\ \/ /\ conflicts = {}
          /\ Goto(p, "reserve")
          /\ UNCHANGED conflict
       \/ \E c \in conflicts :
            /\ conflict' = [conflict EXCEPT ![p] = c]
            /\ Goto(p, IF leases[c] > 0 THEN "drain" ELSE "unload")
    /\ UNCHANGED <<residents, eviction, residency, leases, admission, sidecar, gateVars, taken,
                   aborted, byJob>>

drain(p) ==
    /\ pc[p] = "drain" /\ leases[conflict[p]] = 0
    /\ Goto(p, "unload")
    /\ UNCHANGED <<residents, eviction, residency, leases, admission, sidecar, gateVars,
                   conflict, taken, aborted, byJob>>

(* The end of one turn of settle_conflicts: break if it got nowhere.       *)
Settled(p) ==
    LET c == conflict[p] IN
    /\ pc[p] = "unloaded"
    /\ Goto(p, IF is_resident(c) /\ leases[c] = 0 THEN "reserve" ELSE "settle")
    /\ conflict' = [conflict EXCEPT ![p] = None]
    /\ UNCHANGED <<residents, eviction, residency, leases, admission, sidecar, gateVars, taken,
                   aborted, byJob>>

Admitted(p) == IF byJob[p] THEN "begin"
               ELSE IF ModelOf[p] \in Sidecars THEN "reserved" ELSE "producer"

LeaveAdmission(p) ==
    /\ admission' = IF admission = p THEN None ELSE admission
    /\ byJob' = [byJob EXCEPT ![p] = FALSE]

(* Whether there is nothing to reserve; a mistake: the resident set is not *)
(* looked at.                                                              *)
NeverReserved(p) == FALSE

Reserved(p) == is_resident(ModelOf[p])

reserve(p) ==
    /\ pc[p] = "reserve"
    /\ IF Reserved(p)
       THEN /\ LeaveAdmission(p)
            /\ Goto(p, Admitted(p))
            /\ UNCHANGED residents
       ELSE /\ residents' = Append(residents, ModelOf[p])
            /\ Goto(p, "register")
            /\ UNCHANGED <<admission, byJob>>
    /\ UNCHANGED <<eviction, residency, leases, sidecar, gateVars, conflict, taken, aborted>>

ReserveRegisters(p) ==
    /\ pc[p] = "register"
    /\ register(p, ModelOf[p], "noop", Admitted(p))
    /\ LeaveAdmission(p)
    /\ UNCHANGED <<residents, eviction, unloadLock, suspended, leases, sidecar, gateVars,
                   conflict, taken>>
-----------------------------------------------------------------------------
(* unload_now and the governed unloader, for an idle timer ("fired") or on *)
(* behalf of a task's admission ("unload").                                *)

Unloading == {"enter", "gatewait", "doomed", "refused", "restore", "raw", "stopping", "unmark", "deregister"}
Return(p) == IF p \in Timers THEN "free" ELSE "unloaded"


UnloadNow(p) ==
    /\ pc[p] \in {"fired", "unload"}
    /\ cancel_idle_unload(p, conflict[p], "locking")
    /\ UNCHANGED <<residents, eviction, unloader, unloadLock, suspended, leases, admission,
                   sidecar, gateVars, conflict, taken, byJob>>

(* The model's unload permit is free; a mistake: there is no permit.       *)
NoPermit(m) == TRUE

PermitFree(m) == unloadLock[m] = None

TakeUnloader(p) ==
    LET m == conflict[p] IN
    /\ pc[p] = "locking" /\ PermitFree(m)
    /\ IF unloader[m] = "none"
       THEN Goto(p, Return(p)) /\ UNCHANGED <<unloader, unloadLock, taken>>
       ELSE /\ unloadLock' = [unloadLock EXCEPT ![m] = p]
            /\ unloader' = [unloader EXCEPT ![m] = "none"]
            /\ taken' = [taken EXCEPT ![p] = unloader[m]]
            /\ Goto(p, "enter")
    /\ UNCHANGED <<residents, eviction, idle, suspended, leases, admission, sidecar, gateVars,
                   conflict, aborted, byJob>>

(* An aborted timer that has to wait for the gate never sees it.           *)
EnterUnload(p) ==
    /\ pc[p] = "enter"
    /\ acquire(p, Unload(conflict[p]))
    /\ Goto(p, IF p \in Timers /\ aborted[p] /\ p \notin owners' THEN "doomed" ELSE "gatewait")
    /\ UNCHANGED <<residents, eviction, residency, leases, admission, sidecar, conflict, taken,
                   aborted, byJob>>

CheckLease(p) ==
    /\ pc[p] = "gatewait" /\ Granted(p)
    /\ Goto(p, IF leases[conflict[p]] > 0 THEN "refused" ELSE "raw")
    /\ UNCHANGED <<residents, eviction, residency, leases, admission, sidecar, gateVars,
                   conflict, taken, aborted, byJob>>

Refuse(p) ==
    /\ pc[p] = "refused"
    /\ Gate!Leave(p)
    /\ Goto(p, "restore")
    /\ UNCHANGED <<residents, eviction, residency, leases, admission, sidecar, conflict, taken,
                   aborted, byJob>>


Restored(p) ==
    LET m == conflict[p]
    IN IF taken[p] # "none" /\ unloader[m] = "none"
       THEN [unloader EXCEPT ![m] = taken[p]] ELSE unloader

PutBack(p) ==
    /\ unloader' = Restored(p)
    /\ unloadLock' = [n \in Models |-> IF unloadLock[n] = p THEN None ELSE unloadLock[n]]
    /\ taken' = [taken EXCEPT ![p] = "none"]

Restore(p) ==
    /\ pc[p] = "restore"
    /\ PutBack(p)
    /\ Goto(p, Return(p))
    /\ UNCHANGED <<residents, eviction, idle, suspended, leases, admission, sidecar, gateVars,
                   conflict, aborted, byJob>>

RawUnload(p) ==
    LET m == conflict[p] IN
    /\ pc[p] = "raw"
    /\ IF taken[p] = "noop" \/ ~is_running(m)
       THEN Goto(p, "unmark") /\ UNCHANGED sidecar
       ELSE /\ sidecar' = [sidecar EXCEPT ![m] = "stopping"]
            /\ Goto(p, "stopping")
    /\ UNCHANGED <<residents, eviction, residency, leases, admission, gateVars, conflict, taken,
                   aborted, byJob>>


(* The process has exited, or three seconds have passed and it is killed.  *)
ShutdownEnds(p) ==
    /\ pc[p] = "stopping"
    /\ p \in Timers => ~aborted[p]
    /\ sidecar' = [sidecar EXCEPT ![conflict[p]] = "down"]
    /\ Goto(p, "unmark")
    /\ UNCHANGED <<residents, eviction, residency, leases, admission, gateVars, conflict, taken,
                   aborted, byJob>>

Unmark(p) ==
    /\ pc[p] = "unmark"
    /\ residents' = Others(conflict[p])
    /\ Goto(p, "deregister")
    /\ UNCHANGED <<eviction, residency, leases, admission, sidecar, gateVars, conflict, taken,
                   aborted, byJob>>

UnmarkDeregisters(p) ==
    /\ pc[p] = "deregister"
    /\ deregister(p, conflict[p], Return(p))
    /\ unloadLock' = [unloadLock EXCEPT ![conflict[p]] = None]
    /\ taken' = [taken EXCEPT ![p] = "none"]
    /\ Gate!Leave(p)
    /\ UNCHANGED <<residents, eviction, suspended, leases, admission, sidecar, conflict, byJob>>
-----------------------------------------------------------------------------
(* warm_load_acquire and governed_one_shot.                                *)

producer(p) == IF p \in JobTasks THEN Job(ModelOf[p]) ELSE Generation(ModelOf[p])

Check(p) ==
    /\ pc[p] = "check"
    /\ Goto(p, IF is_running(ModelOf[p]) THEN "producer" ELSE "admit")
    /\ UNCHANGED <<residents, eviction, residency, leases, admission, sidecar, gateVars,
                   conflict, taken, aborted, byJob>>

AcquireLoad(p) ==
    /\ pc[p] = "reserved"
    /\ acquire(p, Load(ModelOf[p]))
    /\ Goto(p, "loadwait")
    /\ UNCHANGED <<residents, eviction, residency, leases, admission, sidecar, conflict, taken,
                   aborted, byJob>>

(* ensure_running finds the process alive, or starts it and waits for its  *)
(* `ready`; until then the process already counts as running.              *)
StartSidecar(p) ==
    LET m == ModelOf[p] IN
    /\ pc[p] = "loadwait" /\ Granted(p)
    /\ IF is_running(m)
       THEN Goto(p, "mark") /\ UNCHANGED sidecar
       ELSE sidecar' = [sidecar EXCEPT ![m] = "up"] /\ Goto(p, "loading")
    /\ UNCHANGED <<residents, eviction, residency, leases, admission, gateVars, conflict, taken,
                   aborted, byJob>>

SidecarReady(p) ==
    /\ pc[p] = "loading" /\ is_running(ModelOf[p])
    /\ Goto(p, "mark")
    /\ UNCHANGED <<residents, eviction, residency, leases, admission, sidecar, gateVars,
                   conflict, taken, aborted, byJob>>

LoadFails(p) ==
    /\ pc[p] = "loading" /\ ("start" \in Faults \/ ~is_running(ModelOf[p]))
    /\ sidecar' = [sidecar EXCEPT ![ModelOf[p]] = "down"]
    /\ Gate!Leave(p)
    /\ Goto(p, "unreserve")
    /\ UNCHANGED <<residents, eviction, residency, leases, admission, conflict, taken, aborted,
                   byJob>>

mark_loaded(p) ==
    /\ pc[p] = "mark"
    /\ residents' = Append(Others(ModelOf[p]), ModelOf[p])
    /\ Goto(p, "marked")
    /\ UNCHANGED <<eviction, residency, leases, admission, sidecar, gateVars, conflict, taken,
                   aborted, byJob>>

MarkRegisters(p) ==
    /\ pc[p] = "marked"
    /\ register(p, ModelOf[p], "shutdown", "producer")
    /\ Gate!Leave(p)
    /\ UNCHANGED <<residents, eviction, unloadLock, suspended, leases, admission, sidecar,
                   conflict, taken, byJob>>

AcquireProducer(p) ==
    /\ pc[p] = "producer"
    /\ acquire(p, producer(p))
    /\ Goto(p, "wait")
    /\ UNCHANGED <<residents, eviction, residency, leases, admission, sidecar, conflict, taken,
                   aborted, byJob>>

(* Whether the body can use what was loaded.  Two mistakes: it is not      *)
(* looked at again under the gate, or the wrong way round.                 *)
Unchecked(p) == TRUE


StillLoaded(p) == ModelOf[p] \in Sidecars => is_running(ModelOf[p])

(* With the gate held, a sidecar that went away sends the task round.      *)
StartBody(p) ==
    /\ pc[p] = "wait" /\ Granted(p)
    /\ IF StillLoaded(p)
       THEN Goto(p, "run") /\ UNCHANGED gateVars
       ELSE Goto(p, "check") /\ Gate!Leave(p)
    /\ UNCHANGED <<residents, eviction, residency, leases, admission, sidecar, conflict, taken,
                   aborted, byJob>>

FinishBody(p) ==
    /\ pc[p] = "run"
    /\ Gate!Leave(p)
    /\ Goto(p, "end")
    /\ UNCHANGED <<residents, eviction, residency, leases, admission, sidecar, conflict, taken,
                   aborted, byJob>>

(* The armed ReservationGuard: mark_unloaded, with no gate held.           *)
DropReservation(p) ==
    /\ pc[p] = "unreserve"
    /\ residents' = Others(ModelOf[p])
    /\ Goto(p, "unregister")
    /\ UNCHANGED <<eviction, residency, leases, admission, sidecar, gateVars, conflict, taken,
                   aborted, byJob>>

DropReservationDeregisters(p) ==
    /\ pc[p] = "unregister"
    /\ deregister(p, ModelOf[p], "end")
    /\ UNCHANGED <<residents, eviction, unloadLock, suspended, leases, admission, sidecar,
                   gateVars, conflict, taken, byJob>>
-----------------------------------------------------------------------------
(* A future dropped at an await: its guards go in reverse order.  The gate *)
(* wait or hold, the RestoreUnloader, the unload permit and the admission  *)
(* mutex go in one step; the reservation and the lease follow.             *)

Awaits == {"admitting", "drain", "locking", "gatewait", "stopping", "loadwait", "loading",
           "wait", "run"}

LeaveGate(p) ==
    IF p \in owners THEN Gate!Leave(p)
    ELSE IF Contains(queue, p) THEN Gate!GiveUp(p)
    ELSE UNCHANGED gateVars

Abandon(p, l) ==
    /\ LeaveGate(p)
    /\ PutBack(p)
    /\ admission' = IF admission = p THEN None ELSE admission
    /\ Goto(p, l)
    /\ UNCHANGED <<residents, eviction, idle, suspended, leases, sidecar, conflict, aborted>>

(* What is left to drop.  A mistake: the lease is not a guard.             *)
KeepsLease(p) == "idle"

AfterDrop(p) ==
    IF byJob[p] THEN "idle"
    ELSE IF pc[p] \in {"loadwait", "loading"} THEN "unreserve" ELSE "end"

CancelTask(p) ==
    /\ p \in Cancellable /\ pc[p] \in Awaits \intersect CancelPoints
    /\ Abandon(p, AfterDrop(p))
    /\ byJob' = [byJob EXCEPT ![p] = FALSE]

(* An aborted timer gets no further than an await that has to wait; the    *)
(* polling loop of `shutdown` always has to.                               *)
MustWait(t) ==
    \/ pc[t] = "locking" /\ unloadLock[conflict[t]] # None
    \/ pc[t] \in {"doomed", "stopping"}

AbortedTimerDies(t) ==
    /\ aborted[t] /\ MustWait(t)
    /\ Abandon(t, "free")
    /\ UNCHANGED byJob

(* A process told to stop exits; any process may die.                      *)
SidecarExits(m) ==
    /\ sidecar[m] = "stopping" \/ (sidecar[m] = "up" /\ "crash" \in Faults)
    /\ sidecar' = [sidecar EXCEPT ![m] = "down"]
    /\ UNCHANGED <<residents, eviction, residency, leases, admission, gateVars, pc, conflict,
                   taken, aborted, byJob>>

GateGrants ==
    /\ \E k \in 1..Len(queue) : Gate!Grant(k)
    /\ UNCHANGED <<residents, eviction, residency, leases, admission, sidecar, pc, conflict,
                   taken, aborted, byJob>>

UnloadStep(p) ==
    \/ UnloadNow(p) \/ TakeUnloader(p) \/ EnterUnload(p) \/ CheckLease(p) \/ Refuse(p)
    \/ Restore(p) \/ RawUnload(p) \/ ShutdownEnds(p) \/ Unmark(p) \/ UnmarkDeregisters(p)

TaskStep(p) ==
    \/ BeginCancelsTimer(p) \/ EndRelease(p) \/ EndChecks(p) \/ EndSchedules(p)
    \/ Admit(p) \/ LockAdmission(p) \/ Settle(p) \/ drain(p) \/ Settled(p)
    \/ reserve(p) \/ ReserveRegisters(p) \/ UnloadStep(p)
    \/ Check(p) \/ AcquireLoad(p) \/ StartSidecar(p) \/ SidecarReady(p) \/ LoadFails(p)
    \/ mark_loaded(p) \/ MarkRegisters(p) \/ AcquireProducer(p) \/ StartBody(p) \/ FinishBody(p)
    \/ DropReservation(p) \/ DropReservationDeregisters(p)

TimerStep(t) == UnloadStep(t) \/ AbortedTimerDies(t)

Next ==
    \/ \E p \in Tasks : Begin(p) \/ JobAdmission(p) \/ JobStops(p) \/ TaskStep(p)
                        \/ CancelTask(p) \/ set_warm_window(p)
    \/ \E t \in Timers : TimerFires(t) \/ TimerStep(t)
    \/ \E m \in Models : SidecarExits(m)
    \/ GateGrants \/ suspend_all \/ apply

Spec == Init /\ [][Next]_vars

(* The runtime keeps polling: every task moves on when it can, timers that *)
(* were armed fire, stopping processes exit, and the admission mutex and   *)
(* the gate are fair, and an admitted job runs.  Nobody has to start a     *)
(* request or to cancel one.                                               *)
Fairness ==
    /\ \A p \in Tasks :
          /\ WF_vars(TaskStep(p)) /\ SF_vars(LockAdmission(p))
          /\ WF_vars(pc[p] = "begin" /\ Begin(p))
    /\ \A t \in Timers : WF_vars(TimerFires(t)) /\ WF_vars(TimerStep(t))
    /\ \A m \in Models : WF_vars(sidecar[m] = "stopping" /\ SidecarExits(m))
    /\ WF_vars(GateGrants)

FairSpec == Spec /\ Fairness
-----------------------------------------------------------------------------
Labels == {"idle", "begin", "leased", "check", "admit", "admitting", "settle", "drain", "unload",
           "unloaded", "reserve", "register", "reserved", "loadwait", "loading", "mark", "marked",
           "producer", "wait", "run", "unreserve", "unregister", "end", "ended", "schedule",
           "free", "sleeping", "fired", "locking"} \union Unloading

(* The governor's maps keep their types, and no model is resident twice.   *)
TypeOK ==
    /\ residents \in Seq(Models) /\ IsInjective(residents)
    /\ eviction \in Policies
    /\ unloader \in [Models -> {"none", "noop", "shutdown"}]
    /\ idle \in [Models -> Timers \union {None}]
    /\ unloadLock \in [Models -> Procs \union {None}]
    /\ suspended \in BOOLEAN
    /\ leases \in [Models -> Nat]
    /\ admission \in Tasks \union {None}
    /\ sidecar \in [Models -> {"down", "up", "stopping"}]
    /\ queue \in Seq(Procs) /\ owners \subseteq Procs
    /\ wants \in [Procs -> GpuProducers \union {None}]
    /\ pc \in [Procs -> Labels]
    /\ conflict \in [Procs -> Models \union {None}]
    /\ taken \in [Procs -> {"none", "noop", "shutdown"}]
    /\ aborted \in [Timers -> BOOLEAN]
    /\ byJob \in [Tasks -> BOOLEAN]

Leasing(p) == ~byJob[p] /\ pc[p] \notin {"idle", "begin", "ended", "schedule"}

(* The lease count of a model is the number of requests between their      *)
(* begin_generation and the release in their end_generation, whichever way *)
(* each one ends: an extra lease would keep the model from ever being      *)
(* evicted, a missing one would let it go in mid-generation.               *)
LeasesBalanced == \A m \in Models :
    leases[m] = Cardinality({p \in Tasks : ModelOf[p] = m /\ Leasing(p)})

(* "Unloads are serialized per model" (residency.rs:2), idle timers and    *)
(* evictions together.                                                     *)
UnloadsSerialized == \A p, q \in Procs :
    p # q /\ pc[p] \in Unloading /\ pc[q] \in Unloading => conflict[p] # conflict[q]


(* After suspend_all no timer is armed, whatever was about to arm one.     *)
QuitArmsNothing == suspended => \A m \in Models : idle[m] = None


Busy(m) == \E p \in Procs :
    \/ p \in Tasks /\ ModelOf[p] = m /\ pc[p] # "idle"
    \/ conflict[p] = m /\ pc[p] \in Unloading \union {"fired", "unload", "locking"}


(* A body runs on an accounted model.                                      *)
BodyIsResident == \A p \in Tasks : pc[p] = "run" => is_resident(ModelOf[p])

Marked(m) == unloader[m] = "shutdown" \/ \E p \in Procs : conflict[p] = m /\ taken[p] = "shutdown"


(* Every request comes to an end.                                          *)
RequestsEnd == \A p \in Tasks : (pc[p] # "idle") ~> (pc[p] = "idle")


=============================================================================
