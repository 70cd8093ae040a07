------------------------------ MODULE PullJobs ------------------------------
(***************************************************************************)
(* Pulls: kernel/src/install/pulls.rs and runtime/src/install/worker.rs.   *)
(*                                                                         *)
(* A pull is a directory with a record, a control file (`ask`) and a lock. *)
(* Each runs in a worker process of its own; any number of clients (the    *)
(* commands, the terminal interface) start, stop, resume and forget pulls. *)
(* They share nothing but files, and any of them may be killed between two *)
(* file operations, upon which the system releases the locks it held.  One *)
(* read, write or lock of a file is one action, with the local steps that  *)
(* follow it; reads that nothing in the code relies on being apart from    *)
(* the next operation are joined with it.                                  *)
(*                                                                         *)
(* A record keeps its state, whether it names a worker's pid, whether the  *)
(* pull is being registered and whether START_GRACE_MS have passed since   *)
(* it was written (`aged`).  Jobs are numbered as they are created.        *)
(***************************************************************************)
EXTENDS Integers, FiniteSets, FiniteSetsExt

CONSTANTS Jobs,          \* 1..n, bound: how many pulls are created
          Workers,       \* 1..n, bound: how many worker processes there are at once
          Clients,
          References,    \* the models that can be pulled
          Slots,         \* pull.concurrency
          Budgets,       \* bounds: what is pulled, how often clients ask for what and mishaps happen
          None

ASSUME PullAssumption ==
    /\ Jobs = 1..Cardinality(Jobs) /\ Workers = 1..Cardinality(Workers)
    /\ None \notin Workers \union Clients /\ Slots \in Nat \ {0}
    /\ Budgets \subseteq [starts : Nat, stops : Nat, resumes : Nat, forgets : Nat, mishaps : Nat,
                    models : SUBSET References, clients : SUBSET Clients]

VARIABLES
    rec,       \* the record of each job
    model,     \* the reference each job pulls
    over,      \* for a job that landed, the jobs that had been created by then
    ask,       \* the control file: none, pause or cancel
    jobLock,   \* the process that holds a job's lock, or None
    refLock,   \* the process that holds a reference's claim, or None
    slots,     \* workers that hold a slot
    worker,    \* each worker: where it is, its job and the ask it has read
    client,    \* each client: where it is, its job, its ask, the reference it starts a pull of,
               \* the jobs it has still to restart or to fail, the record it has read, and
               \* what its restart or stop is part of (start, await or nothing)
    fresh,     \* history: jobs asked to stop since a worker was last put on them
    budget

files == <<rec, model, over, ask, fresh>>
locks == <<jobLock, refLock, slots>>
vars == <<files, locks, worker, client, budget>>

Record(state, pid) == [state |-> state, pid |-> pid, registering |-> FALSE, aged |-> FALSE]

Unread == Record("none", FALSE)
Off == [pc |-> "off", job |-> 1, ask |-> "none"]
Idle == [pc |-> "idle", job |-> 1, ask |-> "none", ref |-> None, todo |-> {}, seen |-> Unread,
         within |-> "none"]

Init ==
    /\ rec = [j \in Jobs |-> Record("none", FALSE)]
    /\ model = [j \in Jobs |-> None]
    /\ over = [j \in Jobs |-> {}]
    /\ ask = [j \in Jobs |-> "none"] /\ fresh = {}
    /\ jobLock = [j \in Jobs |-> None] /\ refLock = [r \in References |-> None] /\ slots = {}
    /\ worker = [w \in Workers |-> Off] /\ client = [c \in Clients |-> Idle]
    /\ budget \in Budgets

-----------------------------------------------------------------------------
(* How a job reads                                                         *)

Terminal == {"done", "failed", "cancelled"}
Resumable == {"paused", "interrupted"}
Live == {"queued", "running"}

Exists(j) == rec[j].state \notin {"none", "gone"}
worker_alive(j) == jobLock[j] # None

ExpectsWorker(r) == r.state = "running" \/ (r.state = "queued" /\ r.pid)
status(j, r) == IF ExpectsWorker(r) /\ ~worker_alive(j) THEN "interrupted" ELSE r.state

(* A mistake: a job nobody took up is within for, however long ago it was  *)
(* queued.                                                                 *)
StillComing(r) == FALSE
unclaimed(r) == r.state = "queued" /\ ~r.pid /\ r.aged
abandoned(j, r) == unclaimed(r) /\ ~worker_alive(j)

shown(j, r) == IF abandoned(j, r) THEN "interrupted" ELSE status(j, r)
takes_part(j) == Exists(j) /\ shown(j, rec[j]) \notin Terminal /\ ~abandoned(j, rec[j])
pulled_again(j) == \E k \in Jobs \ {j} : /\ model[k] = model[j]
                                         /\ takes_part(k) \/ (rec[k].state = "done" /\ j \in over[k])
superseded(j, r) == abandoned(j, r) /\ pulled_again(j)
reading(j, r) == IF superseded(j, r) THEN "failed" ELSE shown(j, r)

under_way(r) == {j \in Jobs : model[j] = r /\ takes_part(j)}
orphaned == {j \in Jobs : Exists(j) /\ reading(j, rec[j]) = "interrupted"}

awaits_worker(r) == r.state = "queued" /\ ~r.pid
past_stopping(j) == rec[j].state = "running" /\ rec[j].registering /\ worker_alive(j)

Put(j, r) == rec' = [rec EXCEPT ![j] = r]

(* The records of superseded jobs among `js` are written down as failed.   *)
settle_superseded(js) ==
    rec' = [j \in Jobs |-> IF j \in js /\ Exists(j) /\ superseded(j, rec[j])
                           THEN Record("failed", FALSE) ELSE rec[j]]

(* START_GRACE_MS pass with nobody having taken the job up.                *)
Age(j) ==
    /\ awaits_worker(rec[j]) /\ ~rec[j].aged
    /\ rec' = [rec EXCEPT ![j].aged = TRUE]
    /\ UNCHANGED <<model, over, ask, fresh, locks, worker, client, budget>>

Spend(what) == budget[what] > 0 /\ budget' = [budget EXCEPT ![what] = @ - 1]
Free(c) == client[c].pc = "idle" /\ c \in budget.clients
Move(c, new) == client' = [client EXCEPT ![c] = IF new.pc = "idle" THEN Idle ELSE new]
Go(c, at) == Move(c, [client[c] EXCEPT !.pc = at, !.seen = Unread])

-----------------------------------------------------------------------------
(* A client starts a pull                                                  *)

(* A mistake: a lock outlives the process that held it.                    *)
Kept(locked, p) == locked
Freed(locked, p) == [x \in DOMAIN locked |-> IF locked[x] = p THEN None ELSE locked[x]]

(* The claim on the reference is asked for until it is free, or given up.  *)
claim_to_start(c, r) ==
    /\ Free(c) /\ Spend("starts") /\ r \in budget.models
    /\ Move(c, [Idle EXCEPT !.pc = "lookup", !.ref = r, !.within = "start"])
    /\ refLock' = IF refLock[r] = None THEN [refLock EXCEPT ![r] = c] ELSE refLock
    /\ UNCHANGED <<files, jobLock, slots, worker>>

(* The claim this client holds, or one more ask for it.                    *)
ClaimAgain(c) ==
    LET r == client[c].ref IN
    /\ Go(c, IF refLock[r] \in {c, None} THEN "abandon" ELSE "idle")
    /\ refLock' = IF refLock[r] = None THEN [refLock EXCEPT ![r] = c] ELSE refLock

(* start_or_join: join or resume the newest pull of the model, or make one. *)
start_or_join(c) ==
    /\ client[c].pc = "lookup"
    /\ LET going == under_way(client[c].ref) IN
       IF going = {} THEN ClaimAgain(c)
       ELSE /\ refLock' = Freed(refLock, c)
            /\ IF status(Max(going), rec[Max(going)]) \in Resumable
               THEN Move(c, [client[c] EXCEPT !.pc = "restart", !.todo = {Max(going)}])
               ELSE Go(c, "idle")
    /\ UNCHANGED <<files, jobLock, slots, worker, budget>>

(* The job it meant to resume was cancelled: the way is clear for a new one. *)
StartAfterCancel(c) ==
    /\ client[c].pc = "again" /\ ClaimAgain(c)
    /\ UNCHANGED <<files, jobLock, slots, worker, budget>>

(* fail_abandoned looks for the jobs of the model that nobody took up ...  *)
fail_abandoned(c) ==
    /\ client[c].pc = "abandon"
    /\ Move(c, [client[c] EXCEPT !.pc = "create",
            !.todo = {j \in Jobs : model[j] = client[c].ref /\ Exists(j) /\ abandoned(j, rec[j])}])
    /\ UNCHANGED <<files, locks, worker, budget>>

(* ... and writes them down as failed, whoever holds them by now; then the *)
(* new job is created and the claim let go.                                *)
create(c) ==
    /\ client[c].pc = "create" /\ refLock' = Freed(refLock, c)
    /\ LET new == Min({j \in Jobs : rec[j].state = "none"})  old == client[c].todo IN
       IF \A j \in old : Exists(j)
       THEN /\ rec' = [j \in Jobs |-> IF j = new THEN Record("queued", FALSE)
                                      ELSE IF j \in old THEN Record("failed", FALSE) ELSE rec[j]]
            /\ model' = [model EXCEPT ![new] = client[c].ref]
            /\ Move(c, [client[c] EXCEPT !.pc = "spawn", !.job = new, !.todo = {}])
       ELSE Go(c, "idle") /\ UNCHANGED <<rec, model>>
    /\ UNCHANGED <<over, ask, fresh, jobLock, slots, worker, budget>>

(* The next job of those the client restarts, if there is one.             *)
GoOn(c) == Go(c, IF client[c].todo = {} THEN "idle" ELSE "restart")

(* spawn_worker: a worker is on its way to the job,                        *)
spawn_worker(c) ==
    /\ client[c].pc = "spawn" /\ GoOn(c)
    /\ LET free == {w \in Workers : worker[w] = Off} IN
       /\ free # {}
       /\ worker' = [worker EXCEPT ![Min(free)] = [Off EXCEPT !.pc = "starting", !.job = client[c].job]]
    /\ UNCHANGED <<files, locks, budget>>

(* or cannot be started, and the job is failed.                            *)
SpawnFails(c) ==
    /\ client[c].pc = "spawn" /\ Spend("mishaps") /\ GoOn(c)
    /\ IF Exists(client[c].job) THEN Put(client[c].job, Record("failed", FALSE)) ELSE UNCHANGED rec
    /\ UNCHANGED <<model, over, ask, fresh, locks, worker>>

-----------------------------------------------------------------------------
(* A client puts a worker back on a job                                    *)

Resume(c, js) ==
    /\ Free(c) /\ Spend("resumes")
    /\ UNCHANGED <<model, over, ask, fresh, locks, worker>>
    /\ Move(c, [Idle EXCEPT !.pc = IF js = {} THEN "idle" ELSE "restart", !.todo = js])

(* Somebody asks for the job, a paused one included.                       *)
ResumeJob(c, j) == Exists(j) /\ Resume(c, {j}) /\ UNCHANGED rec

(* Nobody asks: what was interrupted is taken up, the paused is left.      *)
resume_all(c) == settle_superseded(Jobs) /\ Resume(c, orphaned')

(* restart, up to the lock: a job that has ended is left alone.            *)
restart(c) ==
    /\ client[c].pc = "restart"
    /\ LET j == Min(client[c].todo)  rest_of == client[c].todo \ {j} IN
       /\ settle_superseded({j})
       /\ Move(c, [client[c] EXCEPT !.job = j, !.todo = rest_of,
               !.pc = IF reading(j, rec[j]) \notin Terminal THEN "take"
                      ELSE IF rest_of = {} THEN "idle" ELSE "restart"])
    /\ UNCHANGED <<model, over, ask, fresh, locks, worker, budget>>

(* A refusal is taken for another worker, and the directory may be gone.   *)
RestartClaims(c) ==
    /\ client[c].pc = "take"
    /\ LET j == client[c].job IN
       IF jobLock[j] = None /\ Exists(j)
       THEN jobLock' = [jobLock EXCEPT ![j] = c] /\ Go(c, "rewrite")
       ELSE UNCHANGED jobLock /\ GoOn(c)
    /\ UNCHANGED <<files, refLock, slots, worker, budget>>

(* A mistake: the control file is left as it is.                           *)
LeavesPause(a) == a
clear_pause(a) == IF a = "pause" THEN "none" ELSE a

(* restart, under the lock.  A cancel nobody has read is honoured here;    *)
(* a pause is dropped and the job queued for a worker to come.             *)
Rewrite(c) ==
    /\ client[c].pc = "rewrite" /\ jobLock' = Freed(jobLock, c)
    /\ LET j == client[c].job  over_ == ~Exists(j) \/ rec[j].state \in Terminal IN
       CASE over_ -> GoOn(c) /\ UNCHANGED <<rec, ask, fresh>>
         [] ~over_ /\ ask[j] = "cancel" ->
              /\ Put(j, Record("cancelled", FALSE)) /\ UNCHANGED fresh
              /\ ask' = IF awaits_worker(rec[j]) THEN ask ELSE [ask EXCEPT ![j] = "none"]
              /\ IF client[c].within = "start" THEN Go(c, "again") ELSE GoOn(c)
         [] ~over_ /\ ask[j] # "cancel" ->
              /\ Put(j, Record("queued", FALSE)) /\ fresh' = fresh \ {j}
              /\ ask' = [ask EXCEPT ![j] = clear_pause(@)]
              /\ Go(c, "spawn")
    /\ UNCHANGED <<model, over, refLock, slots, worker, budget>>

-----------------------------------------------------------------------------
(* A client stops a pull                                                   *)

resulting_state(control) == IF control = "pause" THEN "paused" ELSE "cancelled"

(* stop, up to the ask: an ended job is left alone, one whose every byte   *)
(* has landed cannot be stopped.                                           *)
StopReads(c, new) ==
    LET j == new.job IN
    /\ settle_superseded({j})
    /\ Move(c, [new EXCEPT !.pc = IF reading(j, rec[j]) \in Terminal
                                  THEN IF new.within = "await" THEN "await" ELSE "idle"
                                  ELSE IF past_stopping(j) THEN "idle" ELSE "request"])
    /\ UNCHANGED <<model, over, ask, fresh, locks, worker>>

stop(c, j, control) ==
    /\ Free(c) /\ Exists(j) /\ Spend("stops")
    /\ StopReads(c, [Idle EXCEPT !.job = j, !.ask = control])

(* The stop that await_answer makes.                                       *)
StopAgain(c) == client[c].pc = "stop" /\ StopReads(c, client[c]) /\ UNCHANGED budget

(* request: a pause is not written over a cancel.                          *)
request(c) ==
    /\ client[c].pc = "request"
    /\ LET j == client[c].job IN
       IF Exists(j) /\ ~(client[c].ask = "pause" /\ ask[j] = "cancel")
       THEN /\ ask' = [ask EXCEPT ![j] = client[c].ask] /\ fresh' = fresh \union {j}
            /\ Go(c, "probe")
       ELSE UNCHANGED <<ask, fresh>> /\ Go(c, "idle")
    /\ UNCHANGED <<rec, model, over, locks, worker, budget>>

(* The lock is probed first, then the record is read again.                *)
Probe(c) ==
    /\ client[c].pc = "probe"
    /\ Go(c, IF worker_alive(client[c].job) THEN "await" ELSE "recheck")
    /\ UNCHANGED <<files, locks, worker, budget>>

Recheck(c) ==
    /\ client[c].pc = "recheck"
    /\ LET now == rec[client[c].job] IN
       IF now.state \in Terminal THEN Go(c, "await")
       ELSE Move(c, [client[c] EXCEPT !.pc = "settle", !.seen = now])
    /\ UNCHANGED <<files, locks, worker, budget>>

(* settle_here writes the record on behalf of a worker that is not there;  *)
(* a cancel goes with the job it ended unless a worker may be on its way.  *)
settle_here(c) ==
    /\ client[c].pc = "settle"
    /\ LET j == client[c].job  ends == client[c].ask = "cancel" IN
       IF Exists(j)
       THEN /\ Put(j, Record(resulting_state(client[c].ask), ~ends /\ rec[j].pid))
            /\ Go(c, IF ends /\ ~awaits_worker(client[c].seen) THEN "clear" ELSE "idle")
       ELSE Go(c, "idle") /\ UNCHANGED rec
    /\ UNCHANGED <<model, over, ask, fresh, locks, worker, budget>>

ClearCancel(c) ==
    /\ client[c].pc = "clear" /\ Go(c, "idle")
    /\ ask' = [ask EXCEPT ![client[c].job] = IF @ = "cancel" THEN "none" ELSE @]
    /\ UNCHANGED <<rec, model, over, fresh, locks, worker, budget>>

(* await_answer reads the record, and then probes the lock to tell how it  *)
(* reads.                                                                  *)
AwaitReads(c) ==
    /\ client[c].pc = "await"
    /\ Move(c, [client[c] EXCEPT !.pc = "judge", !.within = "await", !.seen = rec[client[c].job]])
    /\ UNCHANGED <<files, locks, worker, budget>>

(* A job stopped some other way, with the ask still on disk, is settled by *)
(* the client once the worker has let go.  A mistake: that is left to the  *)
(* worker.                                                                 *)
LeftToWorker(j) == "await"
OnceLetGo(j) == IF worker_alive(j) THEN "await" ELSE "stop"

await_answer(c) ==
    /\ client[c].pc = "judge"
    /\ LET j == client[c].job
           seen == client[c].seen
           as == IF seen.state = "gone" THEN "interrupted" ELSE reading(j, seen)
           past == as = "running" /\ seen.registering
       IN  Go(c, CASE as \in {resulting_state(client[c].ask), "done"} \/ past -> "idle"
                   [] as \in Live /\ ~past -> "await"
                   [] OTHER -> IF as \in Resumable /\ ask[j] = client[c].ask
                               THEN OnceLetGo(j) ELSE "idle")
    /\ UNCHANGED <<files, locks, worker, budget>>

(* The client has waited long enough; the ask stands.                      *)
GivesUp(c) ==
    /\ client[c].pc = "await" /\ Go(c, "idle")
    /\ UNCHANGED <<files, locks, worker, budget>>

-----------------------------------------------------------------------------
(* A client forgets an ended pull, as the sweep of ended pulls does        *)

forget(c, j) ==
    /\ Free(c) /\ Exists(j) /\ Spend("forgets")
    /\ settle_superseded({j})
    /\ Move(c, [Idle EXCEPT !.job = j, !.pc = IF reading(j, rec[j]) \in Terminal /\ ~worker_alive(j)
                                              THEN "remove" ELSE "idle"])
    /\ UNCHANGED <<model, over, ask, fresh, locks, worker>>

remove(c) ==
    /\ client[c].pc = "remove" /\ Go(c, "idle")
    /\ Put(client[c].job, Record("gone", FALSE)) /\ ask' = [ask EXCEPT ![client[c].job] = "none"]
    /\ UNCHANGED <<model, over, fresh, locks, worker, budget>>

(* A client is killed.                                                     *)
ClientDies(c) ==
    /\ client[c].pc # "idle" /\ Spend("mishaps") /\ Go(c, "idle")
    /\ jobLock' = Freed(jobLock, c) /\ refLock' = Freed(refLock, c)
    /\ UNCHANGED <<files, slots, worker>>

-----------------------------------------------------------------------------
(* The worker                                                              *)

At(w, pc) == worker[w].pc = pc /\ UNCHANGED client
On(w) == worker[w].job

Step(w, pc, read) == worker' = [worker EXCEPT ![w].pc = pc, ![w].ask = read]

(* The process ends, and what it had locked is free.                       *)
Exit(w) ==
    /\ worker' = [worker EXCEPT ![w] = Off]
    /\ jobLock' = Freed(jobLock, w) /\ refLock' = Freed(refLock, w) /\ slots' = slots \ {w}

(* A write to a job that has been forgotten fails, and the worker with it. *)
Stays(w) == Exists(On(w))

settle(w, state) ==
    /\ rec' = IF Exists(On(w)) THEN [rec EXCEPT ![On(w)] = Record(state, state \notin Terminal)] ELSE rec
    /\ over' = IF state = "done" THEN [over EXCEPT ![On(w)] = {j \in Jobs : rec[j].state # "none"}]
                ELSE over
    /\ UNCHANGED <<model, ask, fresh>>

(* hold: the job's lock, then the record, whatever it says.                *)
hold(w) ==
    /\ At(w, "starting")
    /\ IF Exists(On(w)) /\ jobLock[On(w)] = None
       THEN /\ jobLock' = [jobLock EXCEPT ![On(w)] = w]
            /\ Put(On(w), Record("queued", TRUE))
            /\ Step(w, "opening", "none") /\ UNCHANGED <<refLock, slots>>
       ELSE Exit(w) /\ UNCHANGED rec
    /\ UNCHANGED <<model, over, ask, fresh, budget>>

(* The session it needs cannot be opened.                                   *)
SessionFails(w) ==
    /\ At(w, "opening") /\ Spend("mishaps") /\ settle(w, "failed") /\ Exit(w)

(* A mistake: a reference somebody else pulls is pulled as well.           *)
NobodyElse(r, w) == TRUE
claim_reference(r, w) == refLock[r] = None

(* The session opens, and the reference is claimed or found taken.         *)
run_held(w) ==
    /\ At(w, "opening")
    /\ LET r == model[On(w)] IN
       IF claim_reference(r, w)
       THEN /\ refLock' = [refLock EXCEPT ![r] = w] /\ Step(w, "top", "none")
            /\ UNCHANGED <<files, jobLock, slots>>
       ELSE settle(w, "failed") /\ Exit(w)
    /\ UNCHANGED budget

(* honour, its first half: the ask it has read goes, with one written over *)
(* it since, and a cancel among the two ends the job cancelled.            *)
honour(w, control) ==
    LET j == On(w) IN
    /\ Step(w, "settling", IF "cancel" \in {control, ask[j]} THEN "cancel" ELSE "pause")
    /\ ask' = [ask EXCEPT ![j] = "none"]
    /\ UNCHANGED <<rec, model, over, fresh, jobLock, refLock>>

Honours(w) ==
    /\ At(w, "settling") /\ settle(w, resulting_state(worker[w].ask)) /\ Exit(w)
    /\ UNCHANGED budget

try_take(w) == Cardinality(slots) < Slots

(* transfer, up to the attempt: an ask on disk is honoured; otherwise a    *)
(* slot is waited for and the record says running.                         *)
transfer(w) ==
    /\ At(w, "top")
    /\ CASE ask[On(w)] # "none" -> honour(w, ask[On(w)]) /\ UNCHANGED slots
         [] ask[On(w)] = "none" /\ try_take(w) ->
              IF Stays(w) THEN /\ slots' = slots \union {w} /\ settle(w, "running")
                               /\ Step(w, "attempt", "none") /\ UNCHANGED <<jobLock, refLock>>
              ELSE Exit(w) /\ UNCHANGED files
         [] OTHER ->
              /\ rec[On(w)].state # "queued"   \* else only looks again
              /\ IF Stays(w) THEN settle(w, "queued") /\ UNCHANGED <<worker, locks>>
                 ELSE Exit(w) /\ UNCHANGED files
    /\ UNCHANGED budget

(* attempt_once, drive: the control file is read as the transfer goes on.  *)
drive(w) ==
    /\ At(w, "attempt") /\ worker[w].ask = "none" /\ ask[On(w)] # "none"
    /\ Step(w, "attempt", ask[On(w)])
    /\ UNCHANGED <<files, locks, budget>>

(* The transfer stops as it was asked to, or fails having been asked.      *)
Stopped(w) ==
    /\ At(w, "attempt") /\ worker[w].ask # "none"
    /\ honour(w, worker[w].ask) /\ slots' = slots \ {w} /\ UNCHANGED budget

(* It fails for good, runs out of its window or is cancelled by others.    *)
Ends(w, state) ==
    /\ At(w, "attempt") /\ worker[w].ask = "none" /\ Spend("mishaps")
    /\ settle(w, state) /\ Exit(w)

(* It fails in a way worth another attempt.                                *)
Retries(w) ==
    /\ At(w, "attempt") /\ worker[w].ask = "none" /\ Spend("mishaps")
    /\ IF Stays(w) THEN /\ settle(w, "queued") /\ Step(w, "rest", "none") /\ slots' = slots \ {w}
                        /\ UNCHANGED <<jobLock, refLock>>
       ELSE UNCHANGED files /\ Exit(w)

rest(w) ==
    /\ At(w, "rest")
    /\ IF ask[On(w)] # "none" THEN honour(w, ask[On(w)])
       ELSE Step(w, "top", "none") /\ UNCHANGED <<files, jobLock, refLock>>
    /\ UNCHANGED <<slots, budget>>

(* Every byte has landed: an ask read meanwhile is dropped as late, and    *)
(* the job is marked past stopping while the model is registered.          *)
Landed(w) ==
    /\ At(w, "attempt")
    /\ IF Stays(w)
       THEN /\ rec' = [rec EXCEPT ![On(w)].registering = TRUE]
            /\ ask' = IF worker[w].ask = "none" THEN ask ELSE [ask EXCEPT ![On(w)] = "none"]
            /\ Step(w, "register", "none") /\ slots' = slots \ {w} /\ UNCHANGED <<jobLock, refLock>>
       ELSE UNCHANGED <<rec, ask>> /\ Exit(w)
    /\ UNCHANGED <<model, over, fresh, budget>>

(* finish, once the registration is over or out of time: a late ask is     *)
(* dropped,                                                                *)
drop_late_ask(w) ==
    /\ At(w, "register") /\ Step(w, "landed", "none")
    /\ ask' = [ask EXCEPT ![On(w)] = "none"]
    /\ UNCHANGED <<rec, model, over, fresh, locks, budget>>

(* and the job is done.                                                    *)
finish(w) ==
    /\ At(w, "landed") /\ settle(w, "done") /\ Exit(w) /\ UNCHANGED budget

(* A worker is killed.                                                     *)
WorkerDies(w) ==
    /\ worker[w].pc # "off" /\ Spend("mishaps") /\ Exit(w) /\ UNCHANGED <<files, client>>

-----------------------------------------------------------------------------
ClientGoesOn(c) ==
    \/ start_or_join(c) \/ StartAfterCancel(c) \/ fail_abandoned(c) \/ create(c) \/ spawn_worker(c)
    \/ restart(c) \/ RestartClaims(c) \/ Rewrite(c)
    \/ StopAgain(c) \/ request(c) \/ Probe(c) \/ Recheck(c) \/ settle_here(c) \/ ClearCancel(c)
    \/ AwaitReads(c) \/ await_answer(c) \/ remove(c)

WorkerGoesOn(w) ==
    \/ hold(w) \/ run_held(w) \/ transfer(w) \/ drive(w) \/ Stopped(w)
    \/ Landed(w) \/ rest(w) \/ drop_late_ask(w) \/ finish(w) \/ Honours(w)

Next ==
    \/ \E c \in Clients, r \in References : claim_to_start(c, r)
    \/ \E c \in Clients, j \in Jobs, control \in {"pause", "cancel"} : stop(c, j, control)
    \/ \E c \in Clients, j \in Jobs : ResumeJob(c, j)
    \/ \E c \in Clients, j \in Jobs : forget(c, j)
    \/ \E c \in Clients : resume_all(c)
    \/ \E c \in Clients : ClientGoesOn(c)
    \/ \E c \in Clients : SpawnFails(c)
    \/ \E c \in Clients : GivesUp(c)
    \/ \E c \in Clients : ClientDies(c)
    \/ \E w \in Workers : WorkerGoesOn(w)
    \/ \E w \in Workers : SessionFails(w)
    \/ \E w \in Workers, state \in {"failed", "interrupted", "cancelled"} : Ends(w, state)
    \/ \E w \in Workers : Retries(w)
    \/ \E w \in Workers : WorkerDies(w)
    \/ \E j \in Jobs : Age(j)

Spec == Init /\ [][Next]_vars

(* Processes that are alive run, time passes, and a transfer that neither  *)
(* fails nor is stopped lands.                                             *)
FairSpec ==
    /\ Spec
    /\ \A c \in Clients : WF_vars(ClientGoesOn(c))
    /\ \A w \in Workers : WF_vars(WorkerGoesOn(w))
    /\ \A j \in Jobs : WF_vars(Age(j))

-----------------------------------------------------------------------------
Controls == {"none", "pause", "cancel"}
Records == [state : Terminal \union Resumable \union Live \union {"none", "gone"},
            pid : BOOLEAN, registering : BOOLEAN, aged : BOOLEAN]

(* The types of the files, the locks and the processes' own variables; a   *)
(* slot, a job's lock and a claim are held by processes that are running,  *)
(* whatever kills them.                                                    *)
TypeOK ==
    /\ rec \in [Jobs -> Records] /\ ask \in [Jobs -> Controls]
    /\ fresh \subseteq Jobs /\ model \in [Jobs -> References \union {None}] /\ over \in [Jobs -> SUBSET Jobs]
    /\ LET Running == {w \in Workers : worker[w].pc # "off"} \union {c \in Clients : client[c].pc # "idle"}
       IN  /\ jobLock \in [Jobs -> Running \union {None}]
           /\ refLock \in [References -> Running \union {None}]
           /\ slots \subseteq Running
    /\ \A w \in Workers : On(w) \in Jobs /\ worker[w].ask \in Controls
    /\ \A c \in Clients : /\ client[c].job \in Jobs /\ client[c].ask \in Controls
                         /\ client[c].ref \in References \union {None}
                         /\ client[c].todo \subseteq Jobs /\ client[c].seen \in Records

Pulling(w) == worker[w].pc \in {"top", "attempt", "rest", "register", "landed", "settling"}

(* "Two pulls of one model into one place would fight over the same        *)
(* half-written files": of the workers past their claim no two have one    *)
(* job or one reference, however often clients start, join and restart     *)
(* them and whoever dies; and no more of them transfer than there are      *)
(* slots.                                                                  *)
OneTransfer ==
    /\ \A v, w \in Workers : v # w /\ Pulling(v) /\ Pulling(w) => model[On(v)] # model[On(w)]
    /\ Cardinality({w \in Workers : worker[w].pc = "attempt"}) <= Slots

(* A worker stops only for an ask made since it was put on the job: one    *)
(* that an earlier worker left unread, or that came as that one stopped,   *)
(* does not stop the next one "before moving a byte".                      *)
StopsForFreshAsk == \A w \in Workers : worker[w].pc = "settling" => On(w) \in fresh

(* A client that asked for a stop and waits is answered, though workers    *)
(* and other clients die, restart the job, forget it or land it meanwhile. *)
StopsAnswered ==
    \A c \in Clients : client[c].pc \in {"await", "judge", "stop"} ~> client[c].pc = "idle"

(* No job is shown queued or running for good: it ends, or is shown        *)
(* interrupted once its worker is dead or has not come.                    *)
NothingWaitsForGood ==
    \A j \in Jobs : reading(j, rec[j]) \in Live ~> reading(j, rec[j]) \notin Live

(* A worker that finds its job cancelled by a client stands down: it does  *)
(* not go on to download over the settled record.                          *)
StandsDown ==
    [][\A w \in Workers : worker[w].pc = "top" /\ worker'[w].pc = "attempt"
                          => rec[On(w)].state # "cancelled"]_vars
=============================================================================
