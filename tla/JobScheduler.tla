---------------------------- MODULE JobScheduler ----------------------------
(***************************************************************************)
(* runtime/src/jobs/scheduler.rs over the history of                       *)
(* kernel/src/jobs/history.rs: jobs run one at a time in submission order. *)
(* Each critical section of the state mutex, and of the history mutex, is  *)
(* one action.                                                             *)
(*                                                                         *)
(* A job is a number, its rank by `(submitted_at, id)`; the clock is read  *)
(* before the mutex is taken, so jobs may be queued in any order of rank.  *)
(* The admission authority and the runner are the scheduler's environment. *)
(* Status and preview events, which change nothing else, are left out.     *)
(***************************************************************************)
EXTENDS Integers, Sequences, FiniteSets, SequencesExt

CONSTANTS Jobs,          \* a set of numbers
          Cancellers,    \* concurrent callers of `cancel`
          Subscribers,   \* callers of `events`, one call each
          Limit,         \* the history's retention limit
          Steps,         \* progress is 0..Steps out of Steps
          MaxEvents,     \* bound: events of one runner and its admission
          None

ASSUME SchedulerAssumption ==
    /\ Jobs \subseteq Nat /\ None \notin Jobs
    /\ Limit \in Nat \ {0} /\ Steps \in Nat /\ MaxEvents \in Nat
    /\ Jobs \intersect Cancellers = {}

VARIABLES
    state,        \* each job's JobState, "new" before submit, "gone" once evicted
    queue,        \* State.queue
    runners,      \* jobs with an entry in State.runners
    subscribers,  \* State.subscribers
    executing,    \* State.executing
    requested,    \* State.cancel_requested
    notified,     \* jobs whose cancel Notify holds a permit
    progress,     \* each job's progress, in steps
    history,      \* the recorded jobs
    result,       \* the terminal state each recorded job was recorded with
    pc,           \* where each job's execution and each canceller is
    target,       \* the job a canceller is at work on
    arg,          \* the terminal state to conclude with
    step,         \* the step a runner has just reported
    events,       \* how many events the runner has sent so far
    watches,      \* the job each subscriber asked for
    looking,      \* subscribers between the state and the history mutex
    seen          \* the events each subscriber has been sent

vars == <<state, queue, runners, subscribers, executing, requested, notified, progress,
          history, result, pc, target, step, arg, events, watches, looking, seen>>

Procs == Jobs \union Cancellers
Terminal == {"done", "failed", "cancelled"}
Live == {"queued", "preparing", "running"}
InMemory(j) == state[j] \in Live \union Terminal
Target(p) == IF p \in Jobs THEN p ELSE target[p]

Init ==
    /\ state = [j \in Jobs |-> "new"]
    /\ queue = <<>> /\ executing = None
    /\ runners = {} /\ requested = {} /\ notified = {} /\ history = {}
    /\ subscribers = [j \in Jobs |-> {}]
    /\ progress = [j \in Jobs |-> 0]
    /\ result = [j \in Jobs |-> "none"]
    /\ pc = [p \in Procs |-> "idle"]
    /\ target = [c \in Cancellers |-> None]
    /\ arg = [p \in Procs |-> "none"]
    /\ step = [j \in Jobs |-> 0]
    /\ events = [j \in Jobs |-> 0]
    /\ watches = [s \in Subscribers |-> None]
    /\ looking = {}
    /\ seen = [s \in Subscribers |-> <<>>]
-----------------------------------------------------------------------------
start_next_if_idle(q, running, place) ==
    IF running # None \/ q = <<>>
    THEN queue' = q /\ executing' = running /\ pc' = place
    ELSE /\ queue' = Tail(q)
         /\ executing' = Head(q)
         /\ pc' = [place EXCEPT ![Head(q)] = "spawned"]

(* Who executes once j is concluded.  Mistakes: the slot is freed whoever  *)
(* was in it, or never.                                                    *)
Emptied(j) == None

Occupied(j) == executing

Vacated(j) == IF executing = j THEN None ELSE executing

(* With the job go its progress, its Notify and its count of events.       *)
evict_and_advance(j, place) ==
    /\ progress' = [progress EXCEPT ![j] = 0]
    /\ notified' = notified \ {j}
    /\ events' = [events EXCEPT ![j] = 0]
    /\ subscribers' = [subscribers EXCEPT ![j] = {}]
    /\ state' = [state EXCEPT ![j] = "gone"]
    /\ runners' = runners \ {j}
    /\ requested' = requested \ {j}
    /\ start_next_if_idle(queue, Vacated(j), place)

emit_into(j, e) ==
    seen' = [s \in Subscribers |-> IF s \in subscribers[j] THEN Append(seen[s], e) ELSE seen[s]]

Goto(p, l) == pc' = [pc EXCEPT ![p] = l]

submit(j) ==
    /\ state[j] = "new"
    /\ state' = [state EXCEPT ![j] = "queued"]
    /\ runners' = runners \union {j}
    /\ start_next_if_idle(Append(queue, j), executing, pc)
    /\ UNCHANGED <<subscribers, requested, notified, progress, history, result, target, step, arg,
                   events, watches, looking, seen>>

(* `events`: a snapshot, and a place among the subscribers of a live job.  *)
replay(j) ==
    IF state[j] = "running" /\ progress[j] > 0
    THEN <<<<"running", 0>>, <<"progress", progress[j]>>>>
    ELSE <<<<state[j], 0>>>>

Subscribe(s, j) ==
    /\ watches[s] = None /\ state[j] # "new"
    /\ watches' = [watches EXCEPT ![s] = j]
    /\ IF InMemory(j)
       THEN /\ seen' = [seen EXCEPT ![s] = replay(j)]
            /\ subscribers' = IF state[j] \in Terminal THEN subscribers
                              ELSE [subscribers EXCEPT ![j] = @ \union {s}]
            /\ UNCHANGED looking
       ELSE looking' = looking \union {s} /\ UNCHANGED <<seen, subscribers>>
    /\ UNCHANGED <<state, queue, runners, executing, requested, notified, progress, history,
                   result, pc, target, step, arg, events>>

LookUp(s) ==
    /\ s \in looking
    /\ looking' = looking \ {s}
    /\ seen' = IF watches[s] \in history
               THEN [seen EXCEPT ![s] = <<<<result[watches[s]], 0>>>>] ELSE seen
    /\ UNCHANGED <<state, queue, runners, subscribers, executing, requested, notified, progress,
                   history, result, pc, target, step, arg, events, watches>>
-----------------------------------------------------------------------------
(* cancel.                                                                 *)

(* A mistake: the cancelled job stays queued.                              *)
StillQueued(j) == queue

Dequeued(j) == SelectSeq(queue, LAMBDA k : k # j)

cancel(c, j) ==
    /\ pc[c] = "idle" /\ state[j] \in Live
    /\ target' = [target EXCEPT ![c] = j]
    /\ IF executing = j
       THEN requested' = requested \union {j} /\ Goto(c, "notify") /\ UNCHANGED <<queue, arg>>
       ELSE /\ queue' = Dequeued(j)
            /\ Goto(c, "conclude")
            /\ arg' = [arg EXCEPT ![c] = "cancelled"]
            /\ UNCHANGED requested
    /\ UNCHANGED <<state, runners, subscribers, executing, notified, progress, history, result,
                   events, step, watches, looking, seen>>

NotifyOne(c) ==
    /\ pc[c] = "notify"
    /\ notified' = notified \union ({executing} \intersect {target[c]})
    /\ Goto(c, "idle")
    /\ target' = [target EXCEPT ![c] = None]
    /\ UNCHANGED <<state, queue, runners, subscribers, executing, requested, progress, history,
                   result, arg, events, step, watches, looking, seen>>
-----------------------------------------------------------------------------
(* conclude, for the job's own execution or for a canceller.               *)

Finished(p) == [pc EXCEPT ![p] = IF p \in Jobs THEN "finished" ELSE "idle"]

Stamp(p) ==
    LET j == Target(p) IN
    /\ pc[p] = "conclude"
    /\ IF state[j] \in Live
       THEN /\ state' = [state EXCEPT ![j] = arg[p]]
            /\ progress' = [progress EXCEPT ![j] = IF arg[p] = "done" THEN Steps ELSE @]
            /\ Goto(p, "record")
            /\ UNCHANGED <<queue, runners, subscribers, executing, requested, notified, events>>
       ELSE evict_and_advance(j, Finished(p))
    /\ UNCHANGED <<history, result, target, step, arg, watches, looking, seen>>

(* JobHistoryStore::record: newest first, cut to the limit.  Mistakes: no  *)
(* limit, and oldest first.                                                *)
untrimmed(h) == h


trimmed(h) == {j \in h : Cardinality({k \in h : k > j}) < Limit}

Record(p) ==
    LET j == Target(p) IN
    /\ pc[p] = "record"
    /\ history' = trimmed(history \union {j})
    /\ result' = [result EXCEPT ![j] = arg[p]]
    /\ Goto(p, "emit")
    /\ UNCHANGED <<state, queue, runners, subscribers, executing, requested, notified, progress,
                   target, step, arg, events, watches, looking, seen>>

Announce(p) ==
    LET j == Target(p) IN
    /\ pc[p] = "emit"
    /\ emit_into(j, <<arg[p], 0>>)
    /\ evict_and_advance(j, Finished(p))
    /\ arg' = [arg EXCEPT ![p] = "none"]
    /\ target' = [c \in Cancellers |-> IF c = p THEN None ELSE target[c]]
    /\ UNCHANGED <<history, result, step, watches, looking>>
-----------------------------------------------------------------------------
(* drive.                                                                  *)

Conclude(j, end) == Goto(j, "conclude") /\ arg' = [arg EXCEPT ![j] = end]

Begin(j) ==
    /\ pc[j] = "spawned"
    /\ runners' = runners \ {j}
    /\ IF InMemory(j) /\ j \in runners
       THEN Goto(j, "admitting") /\ UNCHANGED arg ELSE Conclude(j, "failed")
    /\ UNCHANGED <<state, queue, subscribers, executing, requested, notified, progress, history,
                   result, target, events, step, watches, looking, seen>>

mark_waiting(j) ==
    /\ pc[j] = "admitting" /\ events[j] < MaxEvents /\ state[j] = "queued"
    /\ events' = [events EXCEPT ![j] = @ + 1]
    /\ emit_into(j, <<"queued", 0>>)
    /\ UNCHANGED <<state, queue, runners, subscribers, executing, requested, notified, progress,
                   history, result, pc, target, step, arg, watches, looking>>

(* The wait for admission, or for the next event, loses to a cancel; the   *)
(* admission, the runner or the sink fails or panics (ExecuteGuard).       *)
Stopped(j) ==
    /\ pc[j] \in {"admitting", "await"} /\ j \in notified
    /\ notified' = notified \ {j}
    /\ Conclude(j, "cancelled")
    /\ UNCHANGED <<state, queue, runners, subscribers, executing, requested, progress, history,
                   result, target, events, step, watches, looking, seen>>

Fails(j) ==
    /\ pc[j] \in {"admitting", "await", "persist"}
    /\ \E end \in {"failed", "cancelled"} :
         /\ pc[j] = "persist" => end = "failed"
         /\ Conclude(j, end)
    /\ UNCHANGED <<state, queue, runners, subscribers, executing, requested, notified, progress,
                   history, result, target, events, step, watches, looking, seen>>

Admitted(j) ==
    /\ pc[j] = "admitting"
    /\ Goto(j, "admitted")
    /\ UNCHANGED <<state, queue, runners, subscribers, executing, requested, notified, progress,
                   history, result, target, step, arg, events, watches, looking, seen>>

(* is_cancel_requested, before the job prepares and before each event.     *)
CheckCancel(j) ==
    /\ pc[j] \in {"admitted", "loop"}
    /\ IF j \in requested THEN Conclude(j, "cancelled")
       ELSE Goto(j, IF pc[j] = "loop" THEN "await" ELSE "prepare") /\ UNCHANGED arg
    /\ UNCHANGED <<state, queue, runners, subscribers, executing, requested, notified, progress,
                   history, result, target, events, step, watches, looking, seen>>

Prepare(j) ==
    /\ pc[j] = "prepare"
    /\ state' = [state EXCEPT ![j] = "preparing"]
    /\ Goto(j, "prepared")
    /\ UNCHANGED <<queue, runners, subscribers, executing, requested, notified, progress,
                   history, result, target, step, arg, events, watches, looking, seen>>

Prepared(j) ==
    /\ pc[j] = "prepared"
    /\ emit_into(j, <<"preparing", 0>>)
    /\ Goto(j, "loop")
    /\ UNCHANGED <<state, queue, runners, subscribers, executing, requested, notified, progress,
                   history, result, target, step, arg, events, watches, looking>>

StreamEnds(j) ==
    /\ pc[j] = "await"
    /\ Conclude(j, IF j \in requested THEN "cancelled" ELSE "done")
    /\ UNCHANGED <<state, queue, runners, subscribers, executing, requested, notified, progress,
                   history, result, target, events, step, watches, looking, seen>>

mark_running(j) ==
    IF state[j] \in Live \ {"running"}
    THEN state' = [state EXCEPT ![j] = "running"] /\ emit_into(j, <<"running", 0>>)
    ELSE UNCHANGED <<state, seen>>

(* Started, and the first half of a Progress event.                        *)
RunnerRuns(j) ==
    /\ pc[j] = "await" /\ events[j] < MaxEvents
    /\ events' = [events EXCEPT ![j] = @ + 1]
    /\ mark_running(j)
    /\ \/ Goto(j, "loop") /\ UNCHANGED step
       \/ \E n \in 0..Steps : Goto(j, "advance") /\ step' = [step EXCEPT ![j] = n]
    /\ UNCHANGED <<queue, runners, subscribers, executing, requested, notified, progress,
                   history, result, target, arg, watches, looking>>


Forward(j) == step[j] >= progress[j]

Advance(j) ==
    /\ pc[j] = "advance"
    /\ IF Forward(j)
       THEN progress' = [progress EXCEPT ![j] = step[j]] /\ emit_into(j, <<"progress", step[j]>>)
       ELSE UNCHANGED <<progress, seen>>
    /\ Goto(j, "loop")
    /\ step' = [step EXCEPT ![j] = 0]
    /\ UNCHANGED <<state, queue, runners, subscribers, executing, requested, notified, history,
                   result, target, arg, events, watches, looking>>

(* A result goes to the artifact sink.                                     *)
persist(j) ==
    /\ \/ pc[j] = "await" /\ events[j] < MaxEvents /\ Goto(j, "persist")
          /\ events' = [events EXCEPT ![j] = @ + 1]
       \/ pc[j] = "persist" /\ Goto(j, "loop") /\ UNCHANGED events
    /\ UNCHANGED <<state, queue, runners, subscribers, executing, requested, notified, progress,
                   history, result, target, step, arg, watches, looking, seen>>
-----------------------------------------------------------------------------
ConcludeStep(p) == Stamp(p) \/ Record(p) \/ Announce(p)

Execution(j) ==
    \/ Begin(j) \/ mark_waiting(j) \/ Stopped(j) \/ Fails(j) \/ Admitted(j) \/ CheckCancel(j)
    \/ Prepare(j) \/ Prepared(j) \/ StreamEnds(j) \/ RunnerRuns(j) \/ Advance(j) \/ persist(j)
    \/ ConcludeStep(j)

Next ==
    \/ \E j \in Jobs : submit(j) \/ Execution(j)
    \/ \E c \in Cancellers : NotifyOne(c) \/ ConcludeStep(c) \/ \E j \in Jobs : cancel(c, j)
    \/ \E s \in Subscribers : LookUp(s) \/ \E j \in Jobs : Subscribe(s, j)

Spec == Init /\ [][Next]_vars

(* Spawned executions and calls under way run on, admission answers and    *)
(* runners end; nobody has to submit, cancel or subscribe.                 *)
Fairness ==
    /\ \A j \in Jobs : WF_vars(Execution(j))
    /\ \A c \in Cancellers : WF_vars(NotifyOne(c) \/ ConcludeStep(c))
    /\ \A s \in Subscribers : WF_vars(LookUp(s))

FairSpec == Spec /\ Fairness
-----------------------------------------------------------------------------
(* The scheduler's maps keep their types, and the history its limit.       *)
TypeOK ==
    /\ state \in [Jobs -> Live \union Terminal \union {"new", "gone"}]
    /\ queue \in Seq(Jobs)
    /\ runners \subseteq Jobs /\ requested \subseteq Jobs /\ notified \subseteq Jobs
    /\ subscribers \in [Jobs -> SUBSET Subscribers]
    /\ executing \in Jobs \union {None}
    /\ progress \in [Jobs -> 0..Steps]
    /\ history \subseteq Jobs /\ Cardinality(history) <= Limit
    /\ result \in [Jobs -> Terminal \union {"none"}]
    /\ arg \in [Procs -> Terminal \union {"none"}] /\ step \in [Jobs -> 0..Steps]
    /\ target \in [Cancellers -> Jobs \union {None}]
    /\ events \in [Jobs -> 0..MaxEvents]
    /\ watches \in [Subscribers -> Jobs \union {None}]
    /\ looking \subseteq Subscribers

(* "Runs jobs one at a time" (scheduler.rs:43), and the queue is never     *)
(* wedged (scheduler.rs:201-203): whatever ends a job, by whichever of its *)
(* ways, the slot is its own until then and goes to the next one at once.  *)
OneAtATime ==
    /\ queue # <<>> => executing # None
    /\ \A j \in Jobs : pc[j] \notin {"idle", "finished"} <=> executing = j

(* A job cancelled while it is queued is never executed, and no job is     *)
(* both concluded by a canceller and by its own execution.                 *)
CancelledStaysOut == \A c \in Cancellers :
    pc[c] \in {"conclude", "record", "emit"} => executing # target[c]


IsTerminal(e) == e[1] \in Terminal
Over(s) == watches[s] # None /\ s \notin subscribers[watches[s]] \union looking


(* Every job that was submitted concludes, in whatever order its worker,   *)
(* a cancel and its progress come.                                         *)
JobsConclude == \A j \in Jobs : (state[j] = "queued") ~> (state[j] = "gone")

(* Every subscription ends: a subscriber that came before the end, with it *)
(* or after it is not left waiting for an event that was already sent.     *)
StreamsEnd == \A s \in Subscribers : (watches[s] # None) ~> Over(s)

=============================================================================
