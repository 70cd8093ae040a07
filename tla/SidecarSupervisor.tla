-------------------------- MODULE SidecarSupervisor --------------------------
(***************************************************************************)
(* runtime/src/sidecar/supervisor.rs, for one sidecar id.  Every critical  *)
(* section of the state mutex is one action.                               *)
(*                                                                         *)
(* A session is one `request` or `job_request`: a spawned task, which goes *)
(* on when its consumer has dropped the stream.  Its consumer holds the    *)
(* governor's generation gate, the loader (`ensure_running`) its load gate *)
(* and the stopper (`shutdown`) its unload gate, so the three keep clear   *)
(* of each other; sessions left behind by their consumers keep clear of    *)
(* nobody.                                                                 *)
(*                                                                         *)
(* The process is the environment: it says `ready`, answers each operation *)
(* with one more event and `done`, a `cancel` with `cancelled`, and may    *)
(* hang or die.  A frame is <<generation, session, event>>.                *)
(***************************************************************************)
EXTENDS Integers, Sequences, FiniteSets, SequencesExt

CONSTANTS Sessions,
          MaxGeneration,   \* bound: how many processes are started
          Cooperative,     \* spec.cooperative_cancel, true for jobs
          Mishaps,         \* what may go wrong by itself, some of AllMishaps
          Budgets,         \* bounds: how many requests, shutdowns and mishaps there are
          Loader, None

AllMishaps == {"death", "garble", "count", "loadDropped", "stopDropped", "quit"}

ASSUME SupervisorAssumption ==
    /\ Loader \notin Sessions /\ None \notin Sessions \union {Loader}
    /\ MaxGeneration \in Nat /\ Cooperative \in BOOLEAN /\ Mishaps \subseteq AllMishaps
    /\ Budgets \subseteq [requests : Nat, stops : Nat, mishaps : Nat]

Readers == Sessions \union {Loader}
Generations == 1..MaxGeneration

VARIABLES
    generation,   \* the entry in State.sidecars: its generation, 0 for no entry
    spawned,      \* the last generation started
    buffered, waiter, eof, busy, owner, opSent, pending,   \* that entry's fields
    cancelDog,    \* State.cancel_watchdogs: a session or None
    frameDog,     \* State.frame_watchdogs
    ops,          \* operations written to each process and not yet read
    serving,      \* what each process is doing: dead, booting, idle or at work for a session
    out,          \* frames in each process's stdout
    read,         \* processes whose reader task has ended
    pc,           \* where each session, the loader and the stopper are
    got,          \* what the oneshot of a reader's next_frame holds
    ran,          \* the generation a session sent its operation to
    closed,       \* sessions whose consumer has dropped the stream
    watcher,      \* the consumer-drop watcher of each session
    kills,        \* calls of `kill` decided on in an earlier critical section
    stopper,      \* where `shutdown` is
    budget        \* what may still happen

entry == <<generation, buffered, waiter, eof, busy, owner, opSent, pending>>
process == <<ops, serving, out>>
dogs == <<cancelDog, frameDog>>
vars == <<generation, spawned, buffered, waiter, eof, busy, owner, opSent, pending, cancelDog,
          frameDog, ops, serving, out, read, pc, got, ran, closed, watcher, kills, stopper, budget>>

Waiting == <<0, None, "wait">>      \* a oneshot not yet answered
Nothing == <<0, None, "none">>      \* next_frame's None

Init ==
    /\ generation = 0 /\ spawned = 0
    /\ buffered = <<>> /\ waiter = None /\ eof = FALSE
    /\ busy = FALSE /\ owner = None /\ opSent = FALSE /\ pending = {}
    /\ cancelDog = None /\ frameDog = None
    /\ ops = [g \in Generations |-> <<>>] /\ out = [g \in Generations |-> <<>>]
    /\ serving = [g \in Generations |-> "dead"]
    /\ read = {}
    /\ pc = [p \in Readers |-> "idle"]
    /\ got = [p \in Readers |-> Waiting]
    /\ ran = [s \in Sessions |-> 0]
    /\ closed = {} /\ kills = {}
    /\ watcher = [s \in Sessions |-> "none"]
    /\ stopper = "idle" /\ budget \in Budgets

alive == {g \in Generations : serving[g] # "dead"}
Die(g) == serving' = [h \in Generations |-> IF h = g THEN "dead" ELSE serving[h]]

Spend(what) == budget[what] > 0 /\ budget' = [budget EXCEPT ![what] = @ - 1]
Mishap(m) == m \in Mishaps /\ Spend("mishaps")

is_running == generation \in alive
Goto(p, l) == pc' = [pc EXCEPT ![p] = l]
Streaming(s) == pc[s] \notin {"idle", "ended"} /\ s \notin closed
-----------------------------------------------------------------------------
(* `kill`, with p going to l: the entry goes, with its watchdogs; whoever  *)
(* waits on it is woken.  Sessions woken from `pending` try again.         *)

Answer(w, f) == IF w = None THEN got ELSE [got EXCEPT ![w] = f]

(* A mistake: the list is dropped unread.                                  *)
WokenNobody(p, l) == [q \in Readers |-> IF q = p THEN l ELSE pc[q]]

Woken(p, l) == [q \in Readers |-> IF q = p THEN l
                                  ELSE IF q \in pending THEN "acquire" ELSE pc[q]]

Forget ==
    /\ generation' = 0 /\ buffered' = <<>> /\ waiter' = None /\ eof' = FALSE
    /\ busy' = FALSE /\ owner' = None /\ opSent' = FALSE /\ pending' = {}
    /\ got' = Answer(waiter, Nothing)

kill(p, l) ==
    /\ Forget
    /\ cancelDog' = None /\ frameDog' = None
    /\ Die(generation)
    /\ pc' = Woken(p, l)
    /\ UNCHANGED <<ops, out>>

next_frame(p) ==
    /\ IF generation # 0 /\ buffered # <<>>
       THEN /\ buffered' = Tail(buffered)
            /\ got' = [got EXCEPT ![p] = Head(buffered)]
            /\ UNCHANGED waiter
       ELSE IF generation = 0 \/ eof
       THEN got' = [got EXCEPT ![p] = Nothing] /\ UNCHANGED <<buffered, waiter>>
       ELSE /\ waiter' = p
            /\ got' = [Answer(waiter, Nothing) EXCEPT ![p] = Waiting]
            /\ UNCHANGED buffered
    /\ UNCHANGED <<generation, eof, busy, owner, opSent, pending>>
-----------------------------------------------------------------------------
(* ensure_running and await_ready.                                         *)

Load ==
    /\ pc[Loader] = "idle" /\ stopper = "idle" /\ \A s \in Sessions : ~Streaming(s)
    /\ ~is_running /\ spawned < MaxGeneration
    /\ IF generation # 0 THEN kill(Loader, "spawn")
       ELSE Goto(Loader, "spawn") /\ UNCHANGED <<entry, process, dogs, got>>
    /\ UNCHANGED <<spawned, read, ran, closed, watcher, kills, stopper, budget>>

Spawn ==
    /\ pc[Loader] = "spawn"
    /\ spawned' = spawned + 1
    /\ generation' = spawned + 1
    /\ buffered' = <<>> /\ waiter' = None /\ eof' = FALSE
    /\ busy' = FALSE /\ owner' = None /\ opSent' = FALSE /\ pending' = {}
    /\ serving' = [serving EXCEPT ![spawned + 1] = "boot"]
    /\ Goto(Loader, "ready")
    /\ UNCHANGED <<ops, out, dogs, read, got, ran, closed, watcher, kills, stopper, budget>>

AwaitReady ==
    /\ pc[Loader] = "ready"
    /\ next_frame(Loader)
    /\ Goto(Loader, "awaiting")
    /\ UNCHANGED <<spawned, process, dogs, read, ran, closed, watcher, kills, stopper, budget>>

Ready ==
    /\ pc[Loader] = "awaiting" /\ got[Loader] # Waiting
    /\ IF got[Loader][3] = "ready"
       THEN Goto(Loader, "idle") /\ UNCHANGED <<entry, process, dogs, got>>
       ELSE kill(Loader, "idle")
    /\ UNCHANGED <<spawned, read, ran, closed, watcher, kills, stopper, budget>>

(* The ready timeout: expire_waiter, then the kill.                        *)
ReadyExpires ==
    /\ pc[Loader] = "awaiting" /\ got[Loader] = Waiting
    /\ got' = [Answer(waiter, Nothing) EXCEPT ![Loader] = Nothing]
    /\ waiter' = None
    /\ UNCHANGED <<pc, generation, buffered, eof, busy, owner, opSent, pending, spawned, process,
                   dogs, read, ran, closed, watcher, kills, stopper, budget>>

(* The call is dropped while it waits; nothing tells the entry, whose      *)
(* waiter is left with nobody behind it.                                   *)
LoadDropped ==
    /\ Mishap("loadDropped") /\ pc[Loader] = "awaiting"
    /\ Goto(Loader, "idle")
    /\ UNCHANGED <<entry, spawned, process, dogs, read, got, ran, closed, watcher, kills, stopper>>
-----------------------------------------------------------------------------
(* run_stream and run_job.                                                 *)

Request(s) ==
    /\ Spend("requests")
    /\ pc[s] = "idle" /\ is_running /\ pc[Loader] = "idle" /\ stopper = "idle"
    /\ Goto(s, "acquire")
    /\ watcher' = [watcher EXCEPT ![s] = "watching"]
    /\ UNCHANGED <<entry, spawned, process, dogs, read, got, ran, closed, kills, stopper>>

AlwaysThere == TRUE

Taken == generation # 0 /\ busy
Present == generation # 0

acquire_exclusive(s) ==
    /\ pc[s] = "acquire"
    /\ IF Taken
       THEN pending' = pending \union {s} /\ Goto(s, "queued") /\ UNCHANGED <<busy, owner, opSent>>
       ELSE /\ Goto(s, "owned")
            /\ UNCHANGED pending
            /\ IF ~Present THEN UNCHANGED <<busy, owner, opSent>>
               ELSE busy' = TRUE /\ owner' = s /\ opSent' = FALSE
    /\ UNCHANGED <<generation, buffered, waiter, eof, spawned, process, dogs, read, got, ran,
                   closed, watcher, kills, stopper, budget>>

send(g, op) == ops' = [ops EXCEPT ![g] = Append(@, op)]

IsClosed(s) ==
    /\ pc[s] = "owned"
    /\ Goto(s, IF s \in closed THEN "finish" ELSE "send")
    /\ UNCHANGED <<entry, spawned, process, dogs, read, got, ran, closed, watcher, kills, stopper,
                   budget>>

SendOp(s) ==
    /\ pc[s] = "send"
    /\ IF is_running
       THEN /\ send(generation, <<"run", s>>)
            /\ ran' = [ran EXCEPT ![s] = generation]
            /\ Goto(s, "mark")
       ELSE Goto(s, "finish") /\ UNCHANGED <<ops, ran>>
    /\ UNCHANGED <<entry, spawned, serving, out, dogs, read, got, closed, watcher, kills, stopper,
                   budget>>

(* A mistake: the guard does not know its own session again.               *)
Unknown(s) == FALSE

SessionOf(s) == generation # 0 /\ owner = s

mark_job_op_sent(s) ==
    /\ pc[s] = "mark"
    /\ opSent' = (opSent \/ SessionOf(s))
    /\ Goto(s, "arm")
    /\ UNCHANGED <<generation, buffered, waiter, eof, busy, owner, pending, spawned, process,
                   dogs, read, got, ran, closed, watcher, kills, stopper, budget>>

arm_frame_watchdog(s) ==
    /\ pc[s] = "arm"
    /\ frameDog' = s
    /\ Goto(s, "pump")
    /\ UNCHANGED <<entry, spawned, process, cancelDog, read, got, ran, closed, watcher, kills,
                   stopper, budget>>

(* pump and pump_job: what a frame leads to is the step that follows it.  *)
Heard(s, events) == pc[s] = "receive" /\ got[s][3] \in events

NextFrame(s) ==
    /\ pc[s] = "pump" \/ Heard(s, {"ready", "text"})
    /\ next_frame(s)
    /\ Goto(s, "receive")
    /\ UNCHANGED <<spawned, process, dogs, read, ran, closed, watcher, kills, stopper, budget>>

(* Events that do not add up: out_of_step.                                 *)
OutOfStep(s) ==
    /\ Mishap("count") /\ Heard(s, {"text"})
    /\ kill(s, "finish")
    /\ UNCHANGED <<spawned, read, ran, closed, watcher, kills, stopper>>

frame_loop_exit_error(s) ==
    /\ Heard(s, {"none"})
    /\ Goto(s, IF generation = 0 \/ eof THEN "finish" ELSE "exitkill")
    /\ UNCHANGED <<entry, spawned, process, dogs, read, got, ran, closed, watcher, kills,
                   stopper, budget>>

ExitKill(s) ==
    /\ pc[s] = "exitkill"
    /\ kill(s, "finish")
    /\ UNCHANGED <<spawned, read, ran, closed, watcher, kills, stopper, budget>>

(* ExclusiveGuard::drop.                                                   *)
DropExclusive(s) ==
    /\ pc[s] = "finish" \/ Heard(s, {"done", "cancelled"})
    /\ got' = [got EXCEPT ![s] = Waiting]
    /\ IF SessionOf(s)
       THEN /\ frameDog' = None
            /\ owner' = None /\ opSent' = FALSE /\ busy' = FALSE /\ pending' = {}
            /\ pc' = Woken(s, "settle")
       ELSE Goto(s, "settle") /\ UNCHANGED <<frameDog, owner, opSent, busy, pending>>
    /\ UNCHANGED <<generation, buffered, waiter, eof, spawned, process, cancelDog, read, ran,
                   closed, watcher, kills, stopper, budget>>

(* watcher.abort() and settle_stream: a watcher in its synchronous part    *)
(* is past aborting.                                                       *)
settle_stream(s) ==
    /\ pc[s] = "settle"
    /\ watcher' = [watcher EXCEPT ![s] = IF @ = "watching" THEN "none" ELSE @]
    /\ cancelDog' = IF cancelDog = s THEN None ELSE cancelDog
    /\ Goto(s, "ended")
    /\ closed' = closed \ {s} /\ ran' = [ran EXCEPT ![s] = 0]
    /\ UNCHANGED <<entry, spawned, process, frameDog, read, got, kills, stopper, budget>>
-----------------------------------------------------------------------------
(* The consumer drops its stream, which its watcher notices.               *)

ConsumerDrops(s) ==
    /\ Streaming(s)
    /\ closed' = closed \union {s}
    /\ UNCHANGED <<entry, spawned, process, dogs, read, pc, got, ran, watcher, kills, stopper,
                   budget>>

Owns(s) == busy /\ SessionOf(s)

(* kill_if_owns up to its kill.                                            *)
kill_if_owns(s) ==
    /\ ~Cooperative /\ watcher[s] = "watching" /\ s \in closed
    /\ watcher' = [watcher EXCEPT ![s] = "none"]
    /\ kills' = IF Owns(s) THEN kills \union {<<"watcher", s>>} ELSE kills
    /\ UNCHANGED <<entry, spawned, process, dogs, read, pc, got, ran, closed, stopper, budget>>

(* The three critical sections of send_cancel_and_arm.                     *)
MayCancel(s) == Owns(s) /\ opSent

CancelArmed(s) ==
    /\ Cooperative /\ watcher[s] = "watching" /\ s \in closed
    /\ watcher' = [watcher EXCEPT ![s] = IF MayCancel(s) THEN "send" ELSE "none"]
    /\ UNCHANGED <<entry, spawned, process, dogs, read, pc, got, ran, closed, kills, stopper,
                   budget>>

SendCancel(s) ==
    /\ watcher[s] = "send"
    /\ IF is_running THEN send(generation, <<"cancel", s>>) ELSE UNCHANGED ops
    /\ watcher' = [watcher EXCEPT ![s] = "arm"]
    /\ UNCHANGED <<entry, spawned, serving, out, dogs, read, pc, got, ran, closed, kills,
                   stopper, budget>>

ArmCancelWatchdog(s) ==
    /\ watcher[s] = "arm"
    /\ cancelDog' = s
    /\ watcher' = [watcher EXCEPT ![s] = "none"]
    /\ UNCHANGED <<entry, spawned, process, frameDog, read, pc, got, ran, closed, kills, stopper,
                   budget>>

expire_cancel_watchdog(s) ==
    /\ cancelDog = s
    /\ cancelDog' = None
    /\ kills' = IF Owns(s) THEN kills \union {<<"grace", s>>} ELSE kills
    /\ UNCHANGED <<entry, spawned, process, frameDog, read, pc, got, ran, closed, watcher,
                   stopper, budget>>

(* A call of `kill` that follows a critical section of its own.            *)
KillNow(k) ==
    /\ k \in kills
    /\ kills' = kills \ {k}
    /\ kill(None, "")
    /\ UNCHANGED <<spawned, read, ran, closed, watcher, stopper, budget>>

(* A mistake: the silence is never noticed.                                *)
NoTimeout(s) == FALSE

FrameTimedOut(s) == Owns(s) /\ waiter # None

(* One round of run_frame_watchdog with nothing heard for the timeout.     *)
run_frame_watchdog(s) ==
    /\ frameDog = s /\ FrameTimedOut(s)
    /\ got' = Answer(waiter, Nothing)
    /\ waiter' = None
    /\ UNCHANGED <<generation, buffered, eof, busy, owner, opSent, pending, spawned, process,
                   dogs, read, pc, ran, closed, watcher, kills, stopper, budget>>
-----------------------------------------------------------------------------
(* The reader, with `ingest` and `deliver`, and the writer.                *)

(* A mistake: generations are not compared.                                *)
AnyProcess(g) == generation # 0

Current(g) == g = generation

Received(w) == w \in Sessions \/ (w = Loader /\ pc[Loader] = "awaiting")

ingest(g) ==
    /\ g \notin read /\ out[g] # <<>>
    /\ out' = [out EXCEPT ![g] = Tail(@)]
    /\ IF ~Current(g) THEN UNCHANGED <<waiter, buffered, got>>
       ELSE /\ waiter' = None
            /\ IF Received(waiter)
               THEN got' = Answer(waiter, Head(out[g])) /\ UNCHANGED buffered
               ELSE buffered' = Append(buffered, Head(out[g])) /\ UNCHANGED got
    /\ UNCHANGED <<generation, eof, busy, owner, opSent, pending, spawned, ops, serving,
                   dogs, read, pc, ran, closed, watcher, kills, stopper, budget>>

(* Bytes the decoder refuses: the kill comes after the unlock.             *)
IngestFails(g) ==
    /\ Mishap("garble") /\ g \in alive /\ g \notin read /\ Current(g) /\ <<"reader", g>> \notin kills
    /\ kills' = kills \union {<<"reader", g>>}
    /\ UNCHANGED <<entry, spawned, process, dogs, read, pc, got, ran, closed, watcher, stopper>>

mark_eof(g) ==
    /\ g \notin read /\ g <= spawned /\ g \notin alive /\ out[g] = <<>>
    /\ read' = read \union {g}
    /\ IF ~Current(g) THEN UNCHANGED <<waiter, eof, pending, got, pc>>
       ELSE /\ eof' = TRUE /\ waiter' = None /\ pending' = {}
            /\ got' = Answer(waiter, Nothing)
            /\ pc' = Woken(None, "")
    /\ UNCHANGED <<generation, buffered, busy, owner, opSent, spawned, process, dogs, ran, closed,
                   watcher, kills, stopper, budget>>

(* A write to a dead process fails; its kill asks for no generation.       *)
writer_task(g) ==
    /\ g \notin alive /\ ops[g] # <<>>
    /\ ops' = [ops EXCEPT ![g] = <<>>]
    /\ kills' = kills \union {<<"writer", g>>}
    /\ UNCHANGED <<entry, spawned, serving, out, dogs, read, pc, got, ran, closed, watcher,
                   stopper, budget>>
-----------------------------------------------------------------------------
(* shutdown: the watchdogs go, the process is asked, waited for, killed;   *)
(* then the entry goes.                                                    *)

shutdown ==
    /\ stopper = "idle"
    /\ pc[Loader] = "idle" /\ \A s \in Sessions : ~Streaming(s)
    /\ cancelDog' = None /\ frameDog' = None
    /\ stopper' = "ask" /\ Spend("stops")
    /\ UNCHANGED <<entry, spawned, process, read, pc, got, ran, closed, watcher, kills>>

AskToStop ==
    /\ stopper = "ask"
    /\ stopper' = IF generation = 0 THEN "idle" ELSE IF is_running THEN "wait" ELSE "remove"
    /\ IF is_running THEN send(generation, <<"shutdown", None>>) ELSE UNCHANGED ops
    /\ UNCHANGED <<entry, spawned, serving, out, dogs, read, pc, got, ran, closed, watcher,
                   kills, budget>>

StopWaitEnds ==
    /\ stopper = "wait"
    /\ stopper' = "remove"
    /\ Die(generation)
    /\ UNCHANGED <<entry, spawned, ops, out, dogs, read, pc, got, ran, closed, watcher,
                   kills, budget>>

RemoveStopped ==
    /\ stopper = "remove"
    /\ stopper' = "idle"
    /\ Forget
    /\ pc' = Woken(None, "")
    /\ UNCHANGED <<spawned, process, dogs, read, ran, closed, watcher, kills, budget>>

(* The future is dropped in its wait.                                      *)
StopDropped ==
    /\ Mishap("stopDropped") /\ stopper = "wait"
    /\ stopper' = "idle"
    /\ UNCHANGED <<entry, spawned, process, dogs, read, pc, got, ran, closed, watcher, kills>>

(* terminate_all, when the program quits.                                  *)
terminate_all ==
    /\ Mishap("quit")
    /\ kill(None, "")
    /\ UNCHANGED <<spawned, read, ran, closed, watcher, kills, stopper>>
-----------------------------------------------------------------------------
(* The process.                                                            *)

Say(g, s, e) == out' = [out EXCEPT ![g] = Append(@, <<g, s, e>>)]
rest == <<entry, spawned, dogs, read, pc, got, ran, closed, watcher, kills, stopper>>

Boots(g) ==
    /\ g \in alive /\ serving[g] = "boot"
    /\ serving' = [serving EXCEPT ![g] = None]
    /\ Say(g, None, "ready")
    /\ UNCHANGED <<ops, rest, budget>>

Works(g) ==
    /\ g \in alive /\ serving[g] # "boot" /\ ops[g] # <<>>
    /\ LET op == Head(ops[g]) IN
       \/ /\ op[1] = "run" /\ serving[g] = None
          /\ serving' = [serving EXCEPT ![g] = op[2]]
          /\ Say(g, op[2], "text")
       \/ /\ op[1] = "cancel" /\ serving[g] # None
          /\ serving' = [serving EXCEPT ![g] = None]
          /\ Say(g, serving[g], "cancelled")
       \/ op[1] = "cancel" /\ serving[g] = None /\ UNCHANGED <<serving, out>>
       \/ op[1] = "shutdown" /\ Die(g) /\ UNCHANGED out
    /\ ops' = [ops EXCEPT ![g] = Tail(@)]
    /\ UNCHANGED <<rest, budget>>

Finishes(g) ==
    /\ g \in alive /\ serving[g] \in Sessions
    /\ Say(g, serving[g], "done")
    /\ serving' = [serving EXCEPT ![g] = None]
    /\ UNCHANGED <<ops, rest, budget>>

Dies(g) ==
    /\ Mishap("death") /\ g \in alive
    /\ Die(g)
    /\ UNCHANGED <<ops, out, rest>>
-----------------------------------------------------------------------------
SessionStep(s) ==
    \/ acquire_exclusive(s) \/ IsClosed(s) \/ SendOp(s) \/ mark_job_op_sent(s) \/ arm_frame_watchdog(s)
    \/ NextFrame(s) \/ frame_loop_exit_error(s) \/ ExitKill(s)
    \/ DropExclusive(s) \/ settle_stream(s)
WatcherStep(s) == kill_if_owns(s) \/ CancelArmed(s) \/ SendCancel(s) \/ ArmCancelWatchdog(s)
LoaderStep == Spawn \/ AwaitReady \/ Ready \/ ReadyExpires
StopperStep == AskToStop \/ StopWaitEnds \/ RemoveStopped
IOStep(g) == ingest(g) \/ mark_eof(g) \/ writer_task(g)

Next ==
    \/ Load \/ LoaderStep \/ LoadDropped
    \/ shutdown \/ StopperStep \/ StopDropped \/ terminate_all
    \/ \E s \in Sessions :
          \/ Request(s) \/ SessionStep(s) \/ OutOfStep(s)
          \/ ConsumerDrops(s) \/ WatcherStep(s)
          \/ expire_cancel_watchdog(s) \/ run_frame_watchdog(s)
    \/ \E k \in kills : KillNow(k)
    \/ \E g \in Generations :
          \/ IOStep(g) \/ IngestFails(g)
          \/ Boots(g) \/ Works(g) \/ Finishes(g) \/ Dies(g)

Spec == Init /\ [][Next]_vars

(* Tasks and timers run.  The process owes nothing: it may hang anywhere.  *)
Fairness ==
    /\ WF_vars(LoaderStep) /\ WF_vars(StopperStep)
    /\ \A s \in Sessions :
          /\ WF_vars(SessionStep(s)) /\ WF_vars(WatcherStep(s))
          /\ WF_vars(expire_cancel_watchdog(s)) /\ WF_vars(run_frame_watchdog(s))
    /\ WF_vars(\E k \in kills : KillNow(k))
    /\ \A g \in Generations : WF_vars(IOStep(g))
FairSpec == Spec /\ Fairness
-----------------------------------------------------------------------------
Holding == {"owned", "send", "mark", "arm", "pump", "receive", "exitkill", "finish"}

(* Every variable keeps its type, and an absent entry has no leftovers.    *)
TypeOK ==
    /\ generation = 0 => waiter = None /\ owner = None /\ ~busy /\ ~opSent /\ pending = {}
    /\ generation \in 0..spawned /\ spawned \in 0..MaxGeneration
    /\ waiter \in Readers \union {None} /\ owner \in Sessions \union {None}
    /\ {eof, busy, opSent} \subseteq BOOLEAN /\ pending \subseteq Sessions
    /\ cancelDog \in Sessions \union {None} /\ frameDog \in Sessions \union {None}
    /\ alive \subseteq 1..spawned /\ closed \subseteq Sessions
    /\ stopper \in {"idle", "ask", "wait", "remove"}

(* Frames a reader task of an earlier process delivers late never reach    *)
(* the process that took its place: `ingest` compares generations.         *)
FromThisProcess ==
    \A i \in DOMAIN buffered : buffered[i][1] = generation

(* The exclusive flag never outlives its session: while `busy` is set, the *)
(* session it names still has the guard whose drop clears it.              *)
BusyIsHeld == busy => owner \in Sessions /\ pc[owner] \in Holding

(* No lost wakeup: who waits for the sidecar is in its `pending` list while *)
(* a holder is there to empty it, and who waits for a frame is its waiter. *)
NobodyForgotten ==
    /\ \A s \in Sessions : pc[s] = "queued" => s \in pending /\ busy
    /\ \A s \in Sessions : pc[s] = "receive" /\ got[s] = Waiting => waiter = s


(* Every request ends, whatever the process does: the frame watchdog, the  *)
(* end of file and every kill wake the session.                            *)
SessionsEnd == \A s \in Sessions : pc[s] = "acquire" ~> pc[s] = "ended"

(* kill_if_owns: "this guard makes the stale post-completion firing a      *)
(* no-op": the watcher of a session kills the process only while the       *)
(* session is still at work on it.                                         *)
StaleFiringIsNoOp ==
    [][\A s \in Sessions :
          <<"watcher", s>> \in kills /\ <<"watcher", s>> \notin kills' /\ generation # 0
          => owner = s]_vars

=============================================================================
