----------------------------- MODULE JobRuntime -----------------------------
(***************************************************************************)
(* One job of the durable job runtime (src/src/api): the Redis row, its    *)
(* lease, the redrive lock and the requeue counter; the workers that run   *)
(* the job, park it on a human, sweep for orphans and answer the resume    *)
(* endpoints; crashes, graceful shutdowns and failing Redis commands.      *)
(*                                                                         *)
(* An action is what one coroutine does between two awaits: it ends with   *)
(* the effect of one Redis command and the synchronous code that follows   *)
(* the reply.  Everything another worker, or another task of the same      *)
(* worker, can do between two commands is therefore an interleaving.       *)
(*                                                                         *)
(* Jobs share only the redrive lock and the semaphore, so a second job     *)
(* adds delays and nothing else; the wait for a permit is unbounded here.  *)
(***************************************************************************)
EXTENDS Naturals, FiniteSets

CONSTANTS
  Workers,         \* worker processes; a restart is a new process in the slot
  Runs,            \* run_job tasks; bounds how often the job can be started
  Clients,         \* requests to POST /research/{id}/review or .../turn
  NoOne,           \* the absent worker, run or Job instance
  Kind,            \* job.kind: "research" or "session"
  MaxPauses,       \* bound on the pauses of a session's graph
  RequeuePending,  \* settings.job_redrive_requeue_pending
  MaxAttempts,     \* settings.job_redrive_max_attempts
  AtomicResume,    \* nothing lands between a resume endpoint's get and its update
  FaultyOps,       \* the Redis operations that may raise
  MaxFaults,       \* bound on how often they do
  MaxStops,        \* bound on crashes and shutdowns together
  MaxStalls        \* bound on how often a live process is too slow for a TTL of its own

Ops == {"acquire", "update", "subscribe", "publish", "bump", "get", "release"}

ASSUME ConstantsAssumption ==
  /\ NoOne \notin Workers /\ NoOne \notin Runs
  /\ Kind \in {"research", "session"}
  /\ {RequeuePending, AtomicResume} \subseteq BOOLEAN
  /\ FaultyOps \subseteq Ops
  /\ {MaxPauses, MaxAttempts, MaxFaults, MaxStops, MaxStalls} \subseteq Nat

VARIABLES
  \* Redis
  row,       \* status of the row job:{id}, "none" before it is created
  told,      \* statuses announced by terminal frames on events:{id}
  lease,     \* joblease:{id}: kind of token and the worker it names
  lock,      \* the redrive lock
  attempts,  \* the requeue counter
  \* memory of the workers
  up,        \* whether a worker serves, tears down (its sweep, then its tasks) or is gone
  local,     \* RedisJobStore._local: the Job instance a worker serves reads from
  mem,       \* status held by a Job instance, named after the run it was made for
  event,     \* job.resume_event of an instance
  answer,    \* job.resume_action / resume_payload of an instance
  \* run_job tasks
  pc, host, obj, keeper, buf, out, pauses,
  \* sweeps, one per worker
  spc, seen, tgt, dead,
  \* resume requests
  cpc, cobj, canswer, chost,
  \* bounds
  faults, stops, stalls,
  \* history
  overtaken  \* a sweep has claimed the job while a run of it was still accepted

redis   == <<row, told, lease, lock, attempts>>
memory  == <<up, local, mem, event, answer>>
tasks   == <<pc, host, obj, keeper, buf, out, pauses>>
sweeps  == <<spc, seen, tgt, dead>>
clients == <<cpc, cobj, canswer, chost>>
bounds  == <<faults, stops, stalls, overtaken>>
vars    == <<redis, memory, tasks, sweeps, clients, bounds>>

-----------------------------------------------------------------------------
(* Vocabulary.                                                             *)

TERMINAL_STATUSES == {"succeeded", "failed", "cancelled"}
PARKED_STATUSES   == {"pending_review", "awaiting_learner"}
JobStatus == {"pending", "running"} \cup PARKED_STATUSES \cup TERMINAL_STATUSES

Parked == IF Kind = "session" THEN "awaiting_learner" ELSE "pending_review"

\* Only the first interrupt of a research run is a review.
PauseLimit == IF Kind = "session" THEN MaxPauses ELSE 1

Answers == IF Kind = "session" THEN {"reply"} ELSE {"approve", "cancel"}

Free        == [kind |-> "free", by |-> NoOne]
DeadToken   == [kind |-> "dead", by |-> NoOne]
RunToken(w) == [kind |-> "run", by |-> w]
ClaimToken(w) == [kind |-> "claim", by |-> w]
SweepToken(w) == [kind |-> "sweep", by |-> w]

\* Where a run can be.
Working  == {"starting", "stream", "parking", "subscribing", "parked",
             "hydrated", "unparking"}
Ending   == {"persist", "persisting", "frame", "publishing", "release"}
Live     == {"accepted", "queued"} \cup Working \cup Ending
RunPc    == {"idle", "done"} \cup Live

\* Where a sweep can be; Handling is the time it holds its claim on the job.
Handling == {"reread", "bump", "requeue", "handoff", "cas", "frame",
             "publishing", "drop"}
SweepPc  == {"idle", "scan", "claim", "unlock"} \cup Handling

ClientPc == {"idle", "writing", "publishing", "done"}

IsTerminal(s) == s \in TERMINAL_STATUSES

\* One Redis command raises.  Whether it was executed before the reply was
\* lost is open: where it matters the effect is x' \in {x, the new value}.
Fault(op) ==
  /\ op \in FaultyOps
  /\ faults < MaxFaults
  /\ faults' = faults + 1
  /\ UNCHANGED <<stops, stalls, overtaken>>

\* One step that a live process should have been in time to prevent.
Stall ==
  /\ stalls < MaxStalls
  /\ stalls' = stalls + 1
  /\ UNCHANGED <<faults, stops, overtaken>>

\* What RedisJobStore.get answers on worker w: a live local instance wins.
Serves(w)  == local[w] # NoOne /\ ~IsTerminal(mem[local[w]])
View(w)    == IF Serves(w) THEN mem[local[w]] ELSE row
ViewObj(w) == IF Serves(w) THEN local[w] ELSE NoOne

\* job.status = s on the instance i, when i is one a worker holds.
Mutated(i, s) == IF i = NoOne THEN mem ELSE [mem EXCEPT ![i] = s]

Goto(r, p) == pc' = [pc EXCEPT ![r] = p]

RedisOK ==
  /\ row \in JobStatus \cup {"none"}
  /\ told \subseteq TERMINAL_STATUSES
  /\ lease \in [kind : {"free", "dead", "run", "claim"}, by : Workers \cup {NoOne}]
  /\ lock \in [kind : {"free", "dead", "sweep"}, by : Workers \cup {NoOne}]
  /\ attempts \in Nat

MemoryOK ==
  /\ up \in [Workers -> {"serving", "stopping", "stopped"}]
  /\ local \in [Workers -> Runs \cup {NoOne}]
  /\ mem \in [Runs -> JobStatus]
  /\ event \in [Runs -> BOOLEAN]
  /\ answer \in [Runs -> Answers \cup {"none"}]

TasksOK ==
  /\ pc \in [Runs -> RunPc]
  /\ host \in [Runs -> Workers \cup {NoOne}]
  /\ obj \in [Runs -> Runs]
  /\ keeper \in [Runs -> {"none", "held", "retry", "lost"}]
  /\ buf \in [Runs -> JobStatus]
  /\ out \in [Runs -> TERMINAL_STATUSES]
  /\ pauses \in [Runs -> Nat]

SweepsOK ==
  /\ spc \in [Workers -> SweepPc]
  /\ seen \in [Workers -> JobStatus \cup {"none"}]
  /\ tgt \in [Workers -> Runs \cup {NoOne}]
  /\ dead \in [Workers -> BOOLEAN]

ClientsOK ==
  /\ cpc \in [Clients -> ClientPc]
  /\ cobj \in [Clients -> Runs \cup {NoOne}]
  /\ canswer \in [Clients -> Answers \cup {"none"}]
  /\ chost \in [Clients -> Workers \cup {NoOne}]

BoundsOK == {faults, stops, stalls} \subseteq Nat /\ overtaken \in BOOLEAN

TypeOK == RedisOK /\ MemoryOK /\ TasksOK /\ SweepsOK /\ ClientsOK /\ BoundsOK

Init ==
  /\ row = "none" /\ told = {} /\ lease = Free /\ lock = Free /\ attempts = 0
  /\ up = [w \in Workers |-> "serving"]
  /\ local = [w \in Workers |-> NoOne]
  /\ mem = [r \in Runs |-> "pending"]
  /\ event = [r \in Runs |-> FALSE]
  /\ answer = [r \in Runs |-> "none"]
  /\ pc = [r \in Runs |-> "idle"]
  /\ host = [r \in Runs |-> NoOne]
  /\ obj = [r \in Runs |-> r]
  /\ keeper = [r \in Runs |-> "none"]
  /\ buf = [r \in Runs |-> "pending"]
  /\ out = [r \in Runs |-> "failed"]
  /\ pauses = [r \in Runs |-> 0]
  /\ spc = [w \in Workers |-> "idle"]
  /\ seen = [w \in Workers |-> "pending"]
  /\ tgt = [w \in Workers |-> NoOne]
  /\ dead = [w \in Workers |-> FALSE]
  /\ cpc = [c \in Clients |-> "idle"]
  /\ cobj = [c \in Clients |-> NoOne]
  /\ canswer = [c \in Clients |-> "none"]
  /\ chost = [c \in Clients |-> NoOne]
  /\ faults = 0
  /\ stops = 0
  /\ stalls = 0
  /\ overtaken = FALSE

-----------------------------------------------------------------------------
(* Accepting a job and running it: submit_research, _job_lease, run_job.   *)

\* run_job is scheduled on worker w with the Job instance i.
Spawn(r, w, i) ==
  /\ pc[r] = "idle"
  /\ Goto(r, "accepted")
  /\ host' = [host EXCEPT ![r] = w]
  /\ obj' = [obj EXCEPT ![r] = i]
  /\ UNCHANGED <<keeper, buf, out, pauses>>

\* Mutant: the terminal frame is sent instead of the row being written.
EndUnpersisted(r, s) ==
  /\ Goto(r, "frame")
  /\ mem' = [mem EXCEPT ![obj[r]] = s]
  /\ out' = [out EXCEPT ![r] = s]
  /\ UNCHANGED <<host, obj, keeper, buf, pauses>>

\* The terminal branch of run_job that ends in status s.
End(r, s) ==
  /\ Goto(r, "persist")
  /\ mem' = [mem EXCEPT ![obj[r]] = s]
  /\ out' = [out EXCEPT ![r] = s]
  /\ UNCHANGED <<host, obj, keeper, buf, pauses>>

\* store.create, then create_task(run_job(...)): no await in between.
Submit(w, r) ==
  /\ row = "none" /\ up[w] = "serving"
  /\ row' = "pending"
  /\ local' = [local EXCEPT ![w] = r]
  /\ Spawn(r, w, r)
  /\ UNCHANGED <<told, lease, lock, attempts, up, mem, event, answer>>
  /\ UNCHANGED <<sweeps, clients, bounds>>

\* Mutant: the lease is taken and nobody refreshes it.
AcquireUnkept(r) ==
  /\ pc[r] = "accepted"
  /\ Goto(r, "queued")
  /\ lease' = IF lease = Free THEN RunToken(host[r]) ELSE lease
  /\ UNCHANGED <<row, told, lock, attempts, memory, keeper>>
  /\ UNCHANGED <<host, obj, buf, out, pauses, sweeps, clients, bounds>>

\* The SET NX of _job_lease: taken, contended (no keeper) or raised (the
\* keeper starts leaseless and retries).
AcquireLease(r) ==
  /\ pc[r] = "accepted"
  /\ Goto(r, "queued")
  /\ \/ /\ lease = Free
        /\ lease' = RunToken(host[r])
        /\ keeper' = [keeper EXCEPT ![r] = "held"]
        /\ UNCHANGED bounds
     \/ /\ lease # Free
        /\ UNCHANGED <<lease, keeper, bounds>>
     \/ /\ Fault("acquire")
        /\ keeper' = [keeper EXCEPT ![r] = "retry"]
        /\ lease' \in {lease, IF lease = Free THEN RunToken(host[r]) ELSE lease}
  /\ UNCHANGED <<row, told, lock, attempts, memory>>
  /\ UNCHANGED <<host, obj, buf, out, pauses, sweeps, clients>>

\* A tick of _refresh_lease_loop while it is still leaseless.
RetryAcquire(r) ==
  /\ pc[r] \in Live /\ keeper[r] = "retry" /\ lease = Free
  /\ lease' = RunToken(host[r])
  /\ keeper' = [keeper EXCEPT ![r] = "held"]
  /\ UNCHANGED <<row, told, lock, attempts, memory>>
  /\ UNCHANGED <<pc, host, obj, buf, out, pauses, sweeps, clients, bounds>>

\* A tick whose owner-checked refresh says the lease is not ours: the keeper
\* stops and the run goes on.
LeaseLost(r) ==
  /\ pc[r] \in Live /\ keeper[r] = "held" /\ lease # RunToken(host[r])
  /\ keeper' = [keeper EXCEPT ![r] = "lost"]
  /\ UNCHANGED <<redis, memory, pc, host, obj, buf, out, pauses>>
  /\ UNCHANGED <<sweeps, clients, bounds>>

\* The semaphore is granted; job.status = running before the first write.
TakePermit(r) ==
  /\ pc[r] = "queued"
  /\ Goto(r, "starting")
  /\ mem' = [mem EXCEPT ![obj[r]] = "running"]
  /\ UNCHANGED <<redis, up, local, event, answer>>
  /\ UNCHANGED <<host, obj, keeper, buf, out, pauses, sweeps, clients, bounds>>

\* RedisJobStore.update of a status that is not terminal: a plain SET, with
\* no look at what the row holds.  A raise is caught by run_job and fails
\* the job.
NonTerminalWrite(r, from, s, to) ==
  /\ pc[r] = from
  /\ \/ /\ row' = s
        /\ Goto(r, to)
        /\ UNCHANGED <<mem, host, obj, keeper, buf, out, pauses, bounds>>
     \/ /\ Fault("update")
        /\ End(r, "failed")
        /\ row' \in {row, s}
  /\ UNCHANGED <<told, lease, lock, attempts, up, local, event, answer>>
  /\ UNCHANGED <<sweeps, clients>>

StartWrite(r)  == NonTerminalWrite(r, "starting", "running", "stream")
ParkWrite(r)   == NonTerminalWrite(r, "parking", Parked, "subscribing")
UnparkWrite(r) == NonTerminalWrite(r, "unparking", "running", "stream")

\* An interrupt of the graph that a human has to answer.
Pause(r) ==
  /\ pc[r] = "stream" /\ pauses[r] < PauseLimit
  /\ Goto(r, "parking")
  /\ mem' = [mem EXCEPT ![obj[r]] = Parked]
  /\ pauses' = [pauses EXCEPT ![r] = @ + 1]
  /\ UNCHANGED <<redis, up, local, event, answer>>
  /\ UNCHANGED <<host, obj, keeper, buf, out, sweeps, clients, bounds>>

\* SUBSCRIBE hitl:resume:{id} has completed and the parked frame goes out, or
\* it did not complete within five seconds and the job fails.
Subscribe(r) ==
  /\ pc[r] = "subscribing"
  /\ \/ /\ Goto(r, "parked")
        /\ UNCHANGED <<mem, host, obj, keeper, buf, out, pauses, bounds>>
     \/ Fault("subscribe") /\ End(r, "failed")
  /\ UNCHANGED <<redis, up, local, event, answer, sweeps, clients>>

\* job.resume_event is set: cancel ends the job, any other answer unparks it.
Wake(r) ==
  /\ pc[r] \in {"parked", "hydrated"} /\ event[obj[r]]
  /\ IF answer[obj[r]] = "cancel"
       THEN End(r, "cancelled") /\ UNCHANGED event
       ELSE /\ Goto(r, "unparking")
            /\ mem' = [mem EXCEPT ![obj[r]] = "running"]
            /\ event' = [event EXCEPT ![obj[r]] = FALSE]
            /\ UNCHANGED <<host, obj, keeper, buf, out, pauses>>
  /\ answer' = IF Kind = "session" THEN [answer EXCEPT ![obj[r]] = "none"] ELSE answer
  /\ UNCHANGED <<redis, up, local, sweeps, clients, bounds>>

\* Nobody answered within the parking's own timeout.
ParkTimeout(r) ==
  /\ pc[r] = "parked" /\ ~event[obj[r]]
  /\ End(r, "failed")
  /\ UNCHANGED <<redis, up, local, event, answer, sweeps, clients, bounds>>

\* The graph ends: with a report, with an error or at the cost cap.
Finish(r) ==
  /\ pc[r] = "stream"
  /\ \E s \in {"succeeded", "failed"} : End(r, s)
  /\ UNCHANGED <<redis, up, local, event, answer, sweeps, clients, bounds>>

\* asyncio.wait_for around _invoke_streaming expires, wherever it is.
JobTimeout(r) ==
  /\ pc[r] \in Working \ {"starting"}
  /\ End(r, "failed")
  /\ UNCHANGED <<redis, up, local, event, answer, sweeps, clients, bounds>>

-----------------------------------------------------------------------------
(* The end of a run: _persist_terminal, the terminal frame, the lease.     *)

\* The finally of RedisJobStore.update: a terminal job leaves the local cache.
Evict(w) == local' = [local EXCEPT ![w] = NoOne]

\* The GET of _terminal_write_refused: a different terminal status stored
\* already means that this write is dropped.
PersistCheck(r) ==
  /\ pc[r] = "persist"
  /\ IF IsTerminal(row) /\ row # mem[obj[r]]
       THEN Goto(r, "frame") /\ Evict(host[r]) /\ UNCHANGED buf
       ELSE /\ Goto(r, "persisting")
            /\ buf' = [buf EXCEPT ![r] = mem[obj[r]]]
            /\ UNCHANGED local
  /\ UNCHANGED <<redis, up, mem, event, answer>>
  /\ UNCHANGED <<host, obj, keeper, out, pauses, sweeps, clients, bounds>>

\* The SET that follows the GET, with the retention TTL.
PersistWrite(r) ==
  /\ pc[r] = "persisting"
  /\ row' = buf[r]
  /\ buf' = [buf EXCEPT ![r] = "pending"]
  /\ Goto(r, "frame")
  /\ Evict(host[r])
  /\ UNCHANGED <<told, lease, lock, attempts, up, mem, event, answer>>
  /\ UNCHANGED <<host, obj, keeper, out, pauses, sweeps, clients, bounds>>

\* All _TERMINAL_PERSIST_ATTEMPTS raised: the outcome is only in the log.
PersistGiveUp(r) ==
  /\ pc[r] \in {"persist", "persisting"}
  /\ Fault("update")
  /\ row' \in {row, IF pc[r] = "persisting" THEN buf[r] ELSE row}
  /\ Goto(r, "frame")
  /\ Evict(host[r])
  /\ UNCHANGED <<told, lease, lock, attempts, up, mem, event, answer>>
  /\ UNCHANGED <<host, obj, keeper, buf, out, pauses, sweeps, clients>>

\* The GET of publish_event: a frame that contradicts a terminal row is
\* dropped; a frame for a row that is not terminal goes out.
FrameCheck(r) ==
  /\ pc[r] = "frame"
  /\ Goto(r, IF IsTerminal(row) /\ row # out[r] THEN "release" ELSE "publishing")
  /\ UNCHANGED <<redis, memory>>
  /\ UNCHANGED <<host, obj, keeper, buf, out, pauses, sweeps, clients, bounds>>

\* The PUBLISH, or _TERMINAL_PUBLISH_ATTEMPTS that raised.
FramePublish(r) ==
  /\ pc[r] = "publishing"
  /\ Goto(r, "release")
  /\ \/ told' = told \cup {out[r]} /\ UNCHANGED bounds
     \/ Fault("publish") /\ told' \in {told, told \cup {out[r]}}
  /\ UNCHANGED <<row, lease, lock, attempts, memory>>
  /\ UNCHANGED <<host, obj, keeper, buf, out, pauses, sweeps, clients>>

\* Mutant: the lease is dropped whenever it names this worker, also by a run
\* that never held it.
ReleaseAny(r) ==
  /\ pc[r] = "release"
  /\ Goto(r, "done")
  /\ keeper' = [keeper EXCEPT ![r] = "none"]
  /\ lease' = IF lease = RunToken(host[r]) THEN Free ELSE lease
  /\ UNCHANGED <<row, told, lock, attempts, memory>>
  /\ UNCHANGED <<host, obj, buf, out, pauses, sweeps, clients, bounds>>

\* The finally of _job_lease: the keeper is cancelled and the lease dropped,
\* if it still names this worker.  A contended run never held one.
ReleaseLease(r) ==
  /\ pc[r] = "release"
  /\ Goto(r, "done")
  /\ keeper' = [keeper EXCEPT ![r] = "none"]
  /\ \/ /\ lease' = IF keeper[r] # "none" /\ lease = RunToken(host[r]) THEN Free ELSE lease
        /\ UNCHANGED bounds
     \/ keeper[r] # "none" /\ Fault("release") /\ UNCHANGED lease
  /\ UNCHANGED <<row, told, lock, attempts, memory>>
  /\ UNCHANGED <<host, obj, buf, out, pauses, sweeps, clients>>

-----------------------------------------------------------------------------
(* The redriver: JobRedriver.sweep, _reconcile, _handle_orphan.            *)

SweepGoto(w, p) == spc' = [spc EXCEPT ![w] = p]

\* try_acquire_redrive_lock; a worker that loses skips this tick.
SweepStart(w) ==
  /\ spc[w] = "idle" /\ up[w] = "serving" /\ lock = Free
  /\ lock' = SweepToken(w)
  /\ SweepGoto(w, "scan")
  /\ UNCHANGED <<row, told, lease, attempts, memory, tasks>>
  /\ UNCHANGED <<seen, tgt, dead, clients, bounds>>

\* Mutant: parked jobs are taken for healthy ones.
SweepScanActive(w) ==
  /\ spc[w] = "scan"
  /\ SweepGoto(w, IF row \in {"pending", "running"} THEN "claim" ELSE "unlock")
  /\ UNCHANGED <<redis, memory, tasks, seen, tgt, dead, clients, bounds>>

\* scan_jobs hands over the rows that are not terminal.
SweepScan(w) ==
  /\ spc[w] = "scan"
  /\ SweepGoto(w, IF row = "none" \/ IsTerminal(row) THEN "unlock" ELSE "claim")
  /\ UNCHANGED <<redis, memory, tasks, seen, tgt, dead, clients, bounds>>

\* Mutant: the claim is a SET without NX.
SweepSeize(w) ==
  /\ spc[w] = "claim"
  /\ lease' = ClaimToken(w)
  /\ SweepGoto(w, "reread")
  /\ UNCHANGED <<row, told, lock, attempts, memory, tasks>>
  /\ UNCHANGED <<seen, tgt, dead, clients, bounds>>

\* SET NX of the job's own lease with the claim token.  Nothing keeps it from
\* coming before the SET NX of a run that was only just accepted: that run then
\* goes on without a lease.
SweepClaim(w) ==
  /\ spc[w] = "claim"
  /\ \/ /\ lease = Free
        /\ lease' = ClaimToken(w)
        /\ SweepGoto(w, "reread")
        /\ overtaken' = (overtaken \/ \E r \in Runs : pc[r] = "accepted")
     \/ /\ lease # Free
        /\ SweepGoto(w, "unlock")
        /\ UNCHANGED <<lease, overtaken>>
  /\ UNCHANGED <<row, told, lock, attempts, memory, tasks>>
  /\ UNCHANGED <<seen, tgt, dead, clients, faults, stops, stalls>>

\* _fail_orphan and _write_dead_letter up to the compare-and-set: the Job
\* instance is failed first, and the status it had is what the CAS expects.
Condemn(w, i, s, d) ==
  /\ SweepGoto(w, "cas")
  /\ tgt' = [tgt EXCEPT ![w] = i]
  /\ seen' = [seen EXCEPT ![w] = s]
  /\ dead' = [dead EXCEPT ![w] = d]
  /\ mem' = Mutated(i, "failed")

\* The status the sweep's Job instance holds now.
SweepStatus(w) == IF tgt[w] = NoOne THEN seen[w] ELSE mem[tgt[w]]

\* Mutant: the fresh status is not looked at.
SweepTrustsScan(w) ==
  /\ spc[w] = "reread"
  /\ Condemn(w, ViewObj(w), View(w), FALSE)
  /\ UNCHANGED <<redis, up, local, event, answer, tasks, clients, bounds>>

\* store.get under the claim, then the reclaim policy: only a pending job is
\* requeued, anything else that is not terminal is failed.  A get that raises
\* ends the sweep with the claim still in place.
SweepReread(w) ==
  /\ spc[w] = "reread"
  /\ \/ /\ IsTerminal(View(w))
        /\ SweepGoto(w, "drop")
        /\ UNCHANGED <<mem, seen, tgt, dead, bounds>>
     \/ /\ View(w) = "pending" /\ RequeuePending
        /\ SweepGoto(w, "bump")
        /\ tgt' = [tgt EXCEPT ![w] = ViewObj(w)]
        /\ seen' = [seen EXCEPT ![w] = "pending"]
        /\ UNCHANGED <<mem, dead, bounds>>
     \/ /\ ~IsTerminal(View(w)) /\ ~(View(w) = "pending" /\ RequeuePending)
        /\ Condemn(w, ViewObj(w), View(w), FALSE)
        /\ UNCHANGED bounds
     \/ /\ ~Serves(w) /\ Fault("get")
        /\ SweepGoto(w, "unlock")
        /\ UNCHANGED <<mem, seen, tgt, dead>>
  /\ UNCHANGED <<redis, up, local, event, answer, tasks, clients>>

\* Mutant: the count before the INCR is compared with the cap.
SweepBumpLate(w) ==
  /\ spc[w] = "bump"
  /\ attempts' = attempts + 1
  /\ IF attempts > MaxAttempts
       THEN Condemn(w, tgt[w], SweepStatus(w), TRUE)
       ELSE /\ SweepGoto(w, "requeue")
            /\ mem' = Mutated(tgt[w], "pending")
            /\ UNCHANGED <<seen, tgt, dead>>
  /\ UNCHANGED <<row, told, lease, lock, up, local, event, answer, tasks, clients, bounds>>

\* INCR of the requeue counter, before the resubmit; past the cap the job is
\* dead-lettered.  A counter that raises bounds nothing.
SweepBump(w) ==
  /\ spc[w] = "bump"
  /\ \/ /\ attempts' = attempts + 1
        /\ attempts' > MaxAttempts
        /\ Condemn(w, tgt[w], SweepStatus(w), TRUE)
        /\ UNCHANGED bounds
     \/ /\ \/ attempts' = attempts + 1 /\ attempts' <= MaxAttempts /\ UNCHANGED bounds
           \/ Fault("bump") /\ attempts' \in {attempts, attempts + 1}
        /\ SweepGoto(w, "requeue")
        /\ mem' = Mutated(tgt[w], "pending")
        /\ UNCHANGED <<seen, tgt, dead>>
  /\ UNCHANGED <<row, told, lease, lock, up, local, event, answer, tasks, clients>>

\* The store.update of _requeue: a SET without a comparison.
SweepRequeue(w) ==
  /\ spc[w] = "requeue"
  /\ \/ /\ row' = "pending"
        /\ SweepGoto(w, "handoff")
        /\ UNCHANGED <<mem, seen, tgt, dead, bounds>>
     \/ /\ Fault("update")
        /\ Condemn(w, tgt[w], SweepStatus(w), FALSE)
        /\ row' \in {row, "pending"}
  /\ UNCHANGED <<told, lease, lock, attempts, up, local, event, answer>>
  /\ UNCHANGED <<tasks, clients>>

\* The DEL of this worker's own claim.
Unclaimed(w) == IF lease = ClaimToken(w) THEN Free ELSE lease

\* The claim is dropped and the resubmit callback schedules run_job, with the
\* local instance or with the one read from Redis.
SweepHandoff(w, r) ==
  /\ spc[w] = "handoff"
  /\ \/ /\ lease' = Unclaimed(w)
        /\ Spawn(r, w, IF tgt[w] = NoOne THEN r ELSE tgt[w])
        /\ SweepGoto(w, "drop")
        /\ UNCHANGED <<mem, seen, tgt, dead, bounds>>
     \/ /\ Fault("release")
        /\ lease' \in {lease, Unclaimed(w)}
        /\ Condemn(w, tgt[w], SweepStatus(w), FALSE)
        /\ UNCHANGED tasks
  /\ UNCHANGED <<row, told, lock, attempts, up, local, event, answer, clients>>

\* Mutant: a plain SET.
SweepSet(w) ==
  /\ spc[w] = "cas"
  /\ row' = "failed"
  /\ Evict(w)
  /\ SweepGoto(w, "frame")
  /\ UNCHANGED <<told, lease, lock, attempts, up, mem, event, answer>>
  /\ UNCHANGED <<tasks, seen, tgt, dead, clients, bounds>>

\* update_if_status: WATCH, compare, MULTI, SET, EXEC in one atomic step.
SweepCas(w) ==
  /\ spc[w] = "cas"
  /\ \/ /\ row = seen[w]
        /\ row' = "failed"
        /\ Evict(w)
        /\ SweepGoto(w, "frame")
        /\ UNCHANGED <<dead, bounds>>
     \/ /\ row # seen[w]
        /\ SweepGoto(w, "drop")
        /\ UNCHANGED <<row, local, dead, bounds>>
     \/ /\ Fault("update")
        /\ SweepGoto(w, "drop")
        /\ dead' = [dead EXCEPT ![w] = FALSE]
        /\ row' \in {row, IF row = seen[w] THEN "failed" ELSE row}
        /\ UNCHANGED local
  /\ UNCHANGED <<told, lease, lock, attempts, up, mem, event, answer>>
  /\ UNCHANGED <<tasks, seen, tgt, clients>>

\* publish_event of job_failed: its GET, then its PUBLISH.
SweepFrameCheck(w) ==
  /\ spc[w] = "frame"
  /\ SweepGoto(w, IF IsTerminal(row) /\ row # "failed" THEN "drop" ELSE "publishing")
  /\ UNCHANGED <<redis, memory, tasks, seen, tgt, dead, clients, bounds>>

SweepFramePublish(w) ==
  /\ spc[w] = "publishing"
  /\ SweepGoto(w, "drop")
  /\ \/ told' = told \cup {"failed"} /\ UNCHANGED bounds
     \/ Fault("publish") /\ told' \in {told, told \cup {"failed"}}
  /\ UNCHANGED <<row, lease, lock, attempts, memory, tasks>>
  /\ UNCHANGED <<seen, tgt, dead, clients>>

\* The variables of a sweep go out of scope.
ForgetSweep(w) ==
  /\ seen' = [seen EXCEPT ![w] = "pending"]
  /\ tgt' = [tgt EXCEPT ![w] = NoOne]
  /\ dead' = [dead EXCEPT ![w] = FALSE]

\* A dead-lettered job's counter is forgotten; the claim is dropped if it is
\* still ours.
SweepDrop(w) ==
  /\ spc[w] = "drop"
  /\ attempts' = IF dead[w] THEN 0 ELSE attempts
  /\ ForgetSweep(w)
  /\ \/ lease' = Unclaimed(w) /\ UNCHANGED bounds
     \/ Fault("release") /\ UNCHANGED lease
  /\ SweepGoto(w, "unlock")
  /\ UNCHANGED <<row, told, lock, memory, tasks, clients>>

\* release_redrive_lock; the next tick can start.
SweepUnlock(w) ==
  /\ spc[w] = "unlock"
  /\ \/ lock' = (IF lock = SweepToken(w) THEN Free ELSE lock) /\ UNCHANGED bounds
     \/ Fault("release") /\ UNCHANGED lock
  /\ SweepGoto(w, "idle")
  /\ UNCHANGED <<row, told, lease, attempts, memory, tasks>>
  /\ UNCHANGED <<seen, tgt, dead, clients>>

\* Where a cancelled sweep continues: the finally of _reconcile drops the
\* claim and that of sweep the lock, but what is cancelled in its re-read
\* leaves the claim behind, and a cancelled release has not been executed.
SweepCancelled(p) ==
  CASE p \in {"scan", "claim", "reread", "drop"} -> "unlock"
    [] p \in Handling \ {"reread", "drop"} -> "drop"
    [] OTHER -> "idle"

\* The wait_for around a sweep expires at the TTL of the redrive lock.
SweepTimeout(w) ==
  /\ spc[w] # "idle"
  /\ Stall
  /\ SweepGoto(w, SweepCancelled(spc[w]))
  /\ ForgetSweep(w)
  /\ UNCHANGED <<redis, memory, tasks, clients>>

-----------------------------------------------------------------------------
(* Resume requests: review_plan and submit_turn.                           *)

\* store.get, the 409 guard and the answer put on the instance that came
\* back.  With AtomicResume the store.update of the next action is done here.
ResumeRead(c, w) ==
  /\ cpc[c] = "idle" /\ up[w] = "serving" /\ View(w) = Parked
  /\ \E a \in Answers :
       /\ canswer' = [canswer EXCEPT ![c] = a]
       /\ answer' = IF Serves(w) THEN [answer EXCEPT ![local[w]] = a] ELSE answer
  /\ cobj' = [cobj EXCEPT ![c] = ViewObj(w)]
  /\ chost' = [chost EXCEPT ![c] = w]
  /\ IF AtomicResume
       THEN row' = Parked /\ cpc' = [cpc EXCEPT ![c] = "publishing"]
       ELSE UNCHANGED row /\ cpc' = [cpc EXCEPT ![c] = "writing"]
  /\ UNCHANGED <<told, lease, lock, attempts, up, local, mem, event>>
  /\ UNCHANGED <<tasks, sweeps, bounds>>

\* The response is out and its variables are gone.
ClientDone(c) ==
  /\ cpc' = [cpc EXCEPT ![c] = "done"]
  /\ cobj' = [cobj EXCEPT ![c] = NoOne]
  /\ canswer' = [canswer EXCEPT ![c] = "none"]
  /\ chost' = [chost EXCEPT ![c] = NoOne]

\* The store.update of the parked job that was read: a plain SET.
ResumeWrite(c) ==
  /\ cpc[c] = "writing"
  /\ \/ /\ row' = Parked
        /\ cpc' = [cpc EXCEPT ![c] = "publishing"]
        /\ UNCHANGED bounds
        /\ UNCHANGED <<cobj, canswer, chost>>
     \/ Fault("update") /\ ClientDone(c) /\ row' \in {row, Parked}
  /\ UNCHANGED <<told, lease, lock, attempts, memory, tasks, sweeps>>

\* publish_remote_resume wakes the runs that are subscribed, once each; a
\* local instance is woken directly even when the publish raises.
ResumePublish(c) ==
  /\ cpc[c] = "publishing"
  /\ ClientDone(c)
  /\ \E woken \in {{r \in Runs : pc[r] = "parked"}, {}} :
       /\ IF woken = {r \in Runs : pc[r] = "parked"}
            THEN UNCHANGED bounds
            ELSE Fault("publish")
       /\ pc' = [r \in Runs |-> IF r \in woken THEN "hydrated" ELSE pc[r]]
       /\ answer' = [i \in Runs |->
            IF \E r \in woken : obj[r] = i THEN canswer[c] ELSE answer[i]]
       /\ event' = [i \in Runs |->
            event[i] \/ i = cobj[c] \/ \E r \in woken : obj[r] = i]
  /\ UNCHANGED <<redis, up, local, mem, host, obj, keeper, buf, out, pauses, sweeps>>

-----------------------------------------------------------------------------
(* Processes stopping, and time.                                           *)

Of(w) == {r \in Runs : host[r] = w /\ pc[r] \in Live}

\* A token whose process is gone: nobody refreshes or releases it any more.
Orphan(token, w) ==
  IF token.by = w /\ token.kind # "free" THEN DeadToken ELSE token

\* Requests die with the process that serves them.
DropClients(w) ==
  LET Dropped(c) == chost[c] = w IN
  /\ cpc' = [c \in Clients |-> IF Dropped(c) THEN "done" ELSE cpc[c]]
  /\ cobj' = [c \in Clients |-> IF Dropped(c) THEN NoOne ELSE cobj[c]]
  /\ canswer' = [c \in Clients |-> IF Dropped(c) THEN "none" ELSE canswer[c]]
  /\ chost' = [c \in Clients |-> IF Dropped(c) THEN NoOne ELSE chost[c]]

\* SIGKILL, and the restart of the container: memory is lost, Redis is not.
Crash(w) ==
  /\ stops < MaxStops
  /\ stops' = stops + 1
  /\ up' = [up EXCEPT ![w] = "serving"]
  /\ pc' = [r \in Runs |-> IF r \in Of(w) THEN "done" ELSE pc[r]]
  /\ keeper' = [r \in Runs |-> IF r \in Of(w) THEN "none" ELSE keeper[r]]
  /\ local' = [local EXCEPT ![w] = NoOne]
  /\ lease' = Orphan(lease, w)
  /\ lock' = Orphan(lock, w)
  /\ SweepGoto(w, "idle")
  /\ ForgetSweep(w)
  /\ DropClients(w)
  /\ UNCHANGED <<row, told, attempts, mem, event, answer>>
  /\ UNCHANGED <<host, obj, buf, out, pauses, faults, stalls, overtaken>>

\* Where a run cancelled by the shutdown continues.  Working code reaches the
\* CancelledError branch; a run still waiting for its permit has entered no
\* try block, and one already ending is interrupted in the middle of that.
Interrupted(p) ==
  CASE p = "accepted" -> "done"
    [] p = "queued" -> "release"
    [] p \in Working -> "persist"
    [] p \in Ending \ {"release"} -> "release"
    [] p = "release" -> "done"
    [] OTHER -> p

\* The teardown of the lifespan begins, requests that did not drain are
\* dropped: the periodic sweep is cancelled and awaited.
Shutdown(w) ==
  /\ up[w] = "serving" /\ stops < MaxStops
  /\ stops' = stops + 1
  /\ up' = [up EXCEPT ![w] = "stopping"]
  /\ SweepGoto(w, SweepCancelled(spc[w]))
  /\ ForgetSweep(w)
  /\ DropClients(w)
  /\ UNCHANGED <<redis, local, mem, event, answer, tasks, faults, stalls, overtaken>>

\* Then every task in app.state.tasks is cancelled.
CancelTasks(w) ==
  /\ up[w] = "stopping" /\ spc[w] = "idle"
  /\ up' = [up EXCEPT ![w] = "stopped"]
  /\ pc' = [r \in Runs |-> IF r \in Of(w) THEN Interrupted(pc[r]) ELSE pc[r]]
  /\ out' = [r \in Runs |-> IF r \in Of(w) /\ pc[r] \in Working THEN "cancelled" ELSE out[r]]
  /\ mem' = [i \in Runs |-> IF \E r \in Of(w) : pc[r] \in Working /\ obj[r] = i
                            THEN "cancelled" ELSE mem[i]]
  /\ local' = [local EXCEPT ![w] =
       IF \E r \in Of(w) : pc[r] \in {"persist", "persisting"} THEN NoOne ELSE @]
  /\ keeper' = [r \in Runs |->
       IF r \in Of(w) /\ Interrupted(pc[r]) = "done" THEN "none" ELSE keeper[r]]
  /\ UNCHANGED <<redis, event, answer, host, obj, buf, pauses>>
  /\ UNCHANGED <<sweeps, clients, bounds>>

\* A new process in the slot, once the old one has finished.
Restart(w) ==
  /\ up[w] = "stopped" /\ Of(w) = {}
  /\ up' = [up EXCEPT ![w] = "serving"]
  /\ local' = [local EXCEPT ![w] = NoOne]
  /\ lease' = Orphan(lease, w)
  /\ UNCHANGED <<row, told, lock, attempts, mem, event, answer>>
  /\ UNCHANGED <<tasks, sweeps, clients, bounds>>

\* Whether a live task still keeps the token before its TTL runs out.
Kept(token) ==
  \/ token.kind = "run" /\ \E r \in Of(token.by) : keeper[r] = "held"
  \/ token.kind = "claim" /\ spc[token.by] \in Handling
  \/ token.kind = "sweep" /\ spc[token.by] # "idle"

\* A TTL runs out: that of a token nobody keeps, or, as a stall, any.
LeaseExpire ==
  /\ lease # Free /\ ~Kept(lease)
  /\ lease' = Free
  /\ UNCHANGED <<row, told, lock, attempts, memory, tasks, sweeps, clients, bounds>>

LockExpire ==
  /\ lock # Free /\ ~Kept(lock)
  /\ lock' = Free
  /\ UNCHANGED <<row, told, lease, attempts, memory, tasks, sweeps, clients, bounds>>

TtlLapse ==
  /\ Stall
  /\ \/ lease # Free /\ Kept(lease) /\ lease' = Free /\ UNCHANGED lock
     \/ lock # Free /\ Kept(lock) /\ lock' = Free /\ UNCHANGED lease
  /\ UNCHANGED <<row, told, attempts, memory, tasks, sweeps, clients>>

-----------------------------------------------------------------------------
RunStep(r) ==
  \/ AcquireLease(r) \/ RetryAcquire(r) \/ LeaseLost(r) \/ TakePermit(r)
  \/ StartWrite(r) \/ Pause(r) \/ ParkWrite(r) \/ Subscribe(r) \/ Wake(r)
  \/ ParkTimeout(r) \/ UnparkWrite(r) \/ Finish(r) \/ JobTimeout(r)
  \/ PersistCheck(r) \/ PersistWrite(r) \/ PersistGiveUp(r)
  \/ FrameCheck(r) \/ FramePublish(r) \/ ReleaseLease(r)

SweepStep(w) ==
  \/ SweepScan(w) \/ SweepClaim(w) \/ SweepReread(w) \/ SweepBump(w)
  \/ SweepRequeue(w) \/ \E r \in Runs : SweepHandoff(w, r)
  \/ SweepCas(w) \/ SweepFrameCheck(w) \/ SweepFramePublish(w)
  \/ SweepDrop(w) \/ SweepUnlock(w)

ClientStep(c) ==
  \/ \E w \in Workers : ResumeRead(c, w)
  \/ ResumeWrite(c) \/ ResumePublish(c)

Next ==
  \/ \E w \in Workers, r \in Runs : Submit(w, r)
  \/ \E r \in Runs : RunStep(r)
  \/ \E w \in Workers : SweepStart(w) \/ SweepStep(w) \/ SweepTimeout(w)
  \/ \E c \in Clients : ClientStep(c)
  \/ \E w \in Workers : Crash(w) \/ Shutdown(w) \/ CancelTasks(w) \/ Restart(w)
  \/ LeaseExpire \/ LockExpire \/ TtlLapse

Spec == Init /\ [][Next]_vars

\* Tasks that can run do run, TTLs run out, the periodic sweep ticks for as
\* long as a worker is up, a stopped worker is restarted.  Nothing is assumed
\* of submissions, of clients that never answer, of crashes or of faults.
Fairness ==
  /\ \A r \in Runs : WF_vars(RunStep(r))
  /\ \A w \in Workers : WF_vars(SweepStep(w)) /\ WF_vars(CancelTasks(w) \/ Restart(w))
  /\ WF_vars(\E w \in Workers : SweepStart(w))
  /\ WF_vars(LeaseExpire) /\ WF_vars(LockExpire)
  /\ \A c \in Clients : WF_vars(ResumeWrite(c) \/ ResumePublish(c))

FairSpec == Spec /\ Fairness
-----------------------------------------------------------------------------
(* Properties.                                                             *)

\* Two run_job tasks execute the same job at once only after a sweep has
\* overtaken a run that had not taken the lease yet, and even then at most one
\* of them holds it: a requeue starts no run beside one that does.
OneRunner ==
  \A r, q \in Runs : pc[r] \in Live /\ pc[q] \in Live /\ r # q =>
    overtaken /\ ~(keeper[r] = "held" /\ keeper[q] = "held")

\* While a sweep decides about the job and acts on it, no other sweep does, and
\* a run_job task that is alive anywhere in the fleet is one it has overtaken,
\* or that runs beside one; such a task holds no lease, unless the release of
\* the sweep's claim has raised.
ReclaimsOrphansOnly ==
  \A w \in Workers : spc[w] \in Handling \ {"drop"} =>
    /\ \A v \in Workers \ {w} : spc[v] \notin Handling \ {"drop"}
    /\ \A r \in Runs : pc[r] \in Live =>
         overtaken /\ (keeper[r] = "held" => faults > 0)

\* Nothing takes the lease from a run that keeps it: no claim, no expiry, no
\* restart, and no other run, though those of one worker share the token.
KeptLeaseStays ==
  \A r \in Runs : pc[r] \in Live /\ keeper[r] = "held" => lease = RunToken(host[r])

\* Until a sweep overtakes a run, a job that keeps killing its worker is started
\* at most MaxAttempts times more than once, the start a sweep has decided on and
\* not made yet included; only a counter that raised allows another one.
RequeuesBounded ==
  overtaken \/
  Cardinality({r \in Runs : pc[r] # "idle"}) +
  Cardinality({w \in Workers : spc[w] \in {"requeue", "handoff"}})
    <= 1 + MaxAttempts + faults

\* However stale what a sweep read is, what it writes never replaces an
\* outcome that is already stored.
ReclaimSparesOutcome ==
  [][IsTerminal(row) /\ (\E w \in Workers : spc'[w] # spc[w]) => row' = row]_vars

\* Every accepted job ends up terminal, and stays so, whatever crashes,
\* shutdowns, lost leases, failing writes and missing answers occur.
Settles == row # "none" ~> []IsTerminal(row)

\* Until a sweep overtakes a run, what polls and streams of the job show is what
\* JobOutcome promises, as long as nobody stalls and the store takes the
\* terminal write.
Outcome == INSTANCE JobOutcome WITH status <- row, frames <- told
OutcomeSpec == Outcome!Init /\ [][Outcome!Next \/ overtaken]_(Outcome!vars)

\* What polls alone show is what JobOutcome promises even where the writes of
\* the row raise: until an overtaking, GET /research/{id} never goes back on
\* anything it has said.
Polls == INSTANCE JobOutcome WITH status <- row, frames <- {}
PollSpec == Polls!Init /\ [][Polls!Next \/ overtaken]_(Polls!vars)

\* The same for the outcome alone.
OutcomeStays == [][IsTerminal(row) /\ ~overtaken => row' = row]_vars

\* A graceful shutdown leaves no job open that its process was still serving:
\* app.py, lifespan, "marks the job `cancelled` before propagating".
ShutdownClosesJobs ==
  [][\A w \in Workers : up[w] = "stopped" /\ up'[w] # up[w] /\ local[w] # NoOne => IsTerminal(row)]_vars

\* jobs.py, is_terminal: once there is an outcome, "it can never leave" it.
TerminalIsFinal == [][IsTerminal(row) => row' = row]_vars

\* The same of the steps of review_plan and submit_turn.
AnswersSpareOutcome == [][IsTerminal(row) /\ cpc' # cpc => row' = row]_vars

\* redis_store.py, _terminal_write_refused: "First terminal write wins".
FirstTerminalWriteWins == [][IsTerminal(row) /\ IsTerminal(row') => row' = row]_vars
=============================================================================
