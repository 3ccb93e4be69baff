------------------------- MODULE JobRuntime_proofs -------------------------
(***************************************************************************)
(* What holds of JobRuntime for every fleet, every number of runs and      *)
(* every bound: its type invariant; when no live process is slower than a  *)
(* TTL of its own (Prompt), that a run which holds the lease keeps it and  *)
(* that, until a sweep overtakes a run, the lease, the claim and the       *)
(* redrive lock exclude one another; when also a resume request is atomic  *)
(* (Steady), that until then an outcome is final, a job is requeued only   *)
(* so often and polls of the row show a run of JobOutcome; when also the   *)
(* row can be written (Orderly), that polls and frames together show one.  *)
(* A sweep overtakes a run when its SET NX comes between the creation of   *)
(* the row, or a hand-off, and the run's own.  That takes nobody being     *)
(* late and is assumed away nowhere: `overtaken' records it.               *)
(***************************************************************************)
EXTENDS JobRuntime, FiniteSetTheorems, TLAPS

-----------------------------------------------------------------------------
(* The type invariant.                                                     *)

\* Every variable starts in its type.
LEMMA InitType == Init => TypeOK
<1>1. Init => RedisOK /\ MemoryOK /\ TasksOK /\ SweepsOK /\ ClientsOK
  BY DEF Init, RedisOK, MemoryOK, TasksOK, SweepsOK, ClientsOK, JobStatus, RunPc, SweepPc,
     ClientPc, TERMINAL_STATUSES, PARKED_STATUSES, Free
<1>2. Init => BoundsOK
  <2>1. Init => {faults, stops, stalls} \subseteq Nat
    BY DEF Init
  <2>2. Init => overtaken \in BOOLEAN
    BY Zenon DEF Init
  <2> QED BY <2>1, <2>2 DEF BoundsOK
<1> QED BY <1>1, <1>2 DEF TypeOK

\* A command that raises leaves the bounds well typed.
LEMMA FaultType == ASSUME BoundsOK, NEW op, Fault(op) PROVE BoundsOK'
  BY DEF BoundsOK, Fault

\* A stall leaves the bounds well typed.
LEMMA StallType == ASSUME BoundsOK, Stall PROVE BoundsOK'
  BY DEF BoundsOK, Stall

\* So does every terminal branch of run_job with the tasks and the memory.
LEMMA EndType ==
  ASSUME TasksOK, NEW r \in Runs, NEW s \in TERMINAL_STATUSES, End(r, s)
  PROVE  TasksOK' /\ mem' = [mem EXCEPT ![obj[r]] = s] /\ obj[r] \in Runs
  BY DEF TasksOK, End, Goto, RunPc, Live, Ending

\* A store.update of a status that is not terminal keeps the types, done or raised.
LEMMA NonTerminalWriteType ==
  ASSUME TypeOK, NEW r \in Runs, NEW from, NEW s \in JobStatus,
         NEW to \in Working, NonTerminalWrite(r, from, s, to)
  PROVE  TypeOK'
<1> USE DEF NonTerminalWrite
<1>1. RedisOK' /\ SweepsOK' /\ ClientsOK'
  BY DEF TypeOK, RedisOK, SweepsOK, ClientsOK, sweeps, clients
<1>2. BoundsOK' BY FaultType DEF TypeOK, BoundsOK, bounds
<1>3. CASE End(r, "failed")
  BY <1>1, <1>2, <1>3, EndType DEF TypeOK, MemoryOK, JobStatus, TERMINAL_STATUSES
<1>4. CASE Goto(r, to) /\ UNCHANGED <<mem, host, obj, keeper, buf, out, pauses>>
  BY <1>1, <1>2, <1>4 DEF TypeOK, MemoryOK, TasksOK, Goto, RunPc, Live
<1> QED BY <1>3, <1>4

\* Every step of a run keeps the types.
LEMMA RunStepType ==
  ASSUME TypeOK, NEW r \in Runs, RunStep(r)
  PROVE  TypeOK'
<1> USE DEF TypeOK, redis, memory, tasks, sweeps, clients, bounds
<1>a. {"succeeded", "failed", "cancelled"} = TERMINAL_STATUSES /\ TERMINAL_STATUSES \subseteq JobStatus
  BY DEF TERMINAL_STATUSES, JobStatus
<1>b. "running" \in JobStatus /\ Parked \in JobStatus
  BY DEF JobStatus, PARKED_STATUSES, Parked
<1>c. Working \cup Ending \cup {"queued", "done"} \subseteq RunPc
  BY DEF RunPc, Live
<1>1. CASE AcquireLease(r)
  BY <1>1, <1>c, FaultType, ConstantsAssumption
  DEF AcquireLease, RedisOK, MemoryOK, TasksOK, SweepsOK, ClientsOK, BoundsOK, Goto, Free, RunToken
<1>2. CASE RetryAcquire(r)
  BY <1>2 DEF RetryAcquire, RedisOK, MemoryOK, TasksOK, SweepsOK, ClientsOK, BoundsOK, RunToken
<1>3. CASE LeaseLost(r)
  BY <1>3 DEF LeaseLost, RedisOK, MemoryOK, TasksOK, SweepsOK, ClientsOK, BoundsOK
<1>4. CASE TakePermit(r)
  BY <1>4, <1>b, <1>c
  DEF TakePermit, RedisOK, MemoryOK, TasksOK, SweepsOK, ClientsOK, BoundsOK, Goto, Working
<1>5. CASE StartWrite(r)
  BY <1>5, <1>b, NonTerminalWriteType DEF StartWrite, Working
<1>6. CASE Pause(r)
  BY <1>6, <1>b, <1>c
  DEF Pause, RedisOK, MemoryOK, TasksOK, SweepsOK, ClientsOK, BoundsOK, Goto, Working
<1>7. CASE ParkWrite(r)
  BY <1>7, <1>b, NonTerminalWriteType DEF ParkWrite, Working
<1>8. CASE Subscribe(r)
  <2>1. RedisOK' /\ SweepsOK' /\ ClientsOK'
    BY <1>8 DEF Subscribe, RedisOK, SweepsOK, ClientsOK
  <2>2. BoundsOK'
    BY <1>8, FaultType DEF Subscribe, BoundsOK
  <2>3. CASE End(r, "failed")
    BY <1>8, <2>1, <2>2, <2>3, <1>a, EndType DEF Subscribe, MemoryOK
  <2>4. CASE Goto(r, "parked") /\ UNCHANGED <<mem, host, obj, keeper, buf, out, pauses, bounds>>
    BY <1>8, <2>1, <2>2, <2>4, <1>c DEF Subscribe, MemoryOK, TasksOK, Goto, Working
  <2> QED BY <1>8, <2>3, <2>4 DEF Subscribe
<1>9. CASE Wake(r)
  <2>1. RedisOK' /\ SweepsOK' /\ ClientsOK' /\ BoundsOK'
    BY <1>9 DEF Wake, RedisOK, SweepsOK, ClientsOK, BoundsOK
  <2>2. answer' \in [Runs -> Answers \cup {"none"}]
    BY <1>9 DEF Wake, MemoryOK
  <2>3. up' \in [Workers -> {"serving", "stopping", "stopped"}] /\ local' \in [Workers -> Runs \cup {NoOne}]
    BY <1>9 DEF Wake, MemoryOK
  <2>4. CASE answer[obj[r]] = "cancel"
    <3>1. TasksOK' /\ mem' = [mem EXCEPT ![obj[r]] = "cancelled"] /\ event' = event
      BY <1>9, <2>4, <1>a, EndType DEF Wake
    <3>2. MemoryOK'
      BY <3>1, <2>2, <2>3, <1>a DEF MemoryOK
    <3> QED BY <2>1, <3>1, <3>2
  <2>5. CASE answer[obj[r]] # "cancel"
    <3>1. mem' = [mem EXCEPT ![obj[r]] = "running"] /\ event' = [event EXCEPT ![obj[r]] = FALSE]
      BY <1>9, <2>5 DEF Wake
    <3>2. MemoryOK'
      BY <3>1, <2>2, <2>3, <1>b DEF MemoryOK
    <3>3. TasksOK'
      BY <1>9, <2>5, <1>c DEF Wake, TasksOK, Goto, Working
    <3> QED BY <2>1, <3>2, <3>3
  <2> QED BY <2>4, <2>5
<1>10. CASE ParkTimeout(r) \/ Finish(r) \/ JobTimeout(r)
  <2>1. PICK s \in TERMINAL_STATUSES : End(r, s)
    BY <1>10, <1>a DEF ParkTimeout, Finish, JobTimeout
  <2>2. RedisOK' /\ SweepsOK' /\ ClientsOK' /\ BoundsOK'
    BY <1>10 DEF ParkTimeout, Finish, JobTimeout, RedisOK, SweepsOK, ClientsOK, BoundsOK
  <2>3. UNCHANGED <<up, local, event, answer>>
    BY <1>10 DEF ParkTimeout, Finish, JobTimeout
  <2> QED BY <2>1, <2>2, <2>3, <1>a, EndType DEF MemoryOK
<1>11. CASE UnparkWrite(r)
  BY <1>11, <1>b, NonTerminalWriteType DEF UnparkWrite, Working
<1>12. CASE PersistCheck(r)
  <2>1. RedisOK' /\ SweepsOK' /\ ClientsOK' /\ BoundsOK'
    BY <1>12 DEF PersistCheck, RedisOK, SweepsOK, ClientsOK, BoundsOK
  <2>2. CASE IsTerminal(row) /\ row # mem[obj[r]]
    BY <1>12, <2>1, <2>2, <1>c DEF PersistCheck, MemoryOK, TasksOK, Goto, Evict, Ending
  <2>3. CASE ~(IsTerminal(row) /\ row # mem[obj[r]])
    BY <1>12, <2>1, <2>3, <1>c DEF PersistCheck, MemoryOK, TasksOK, Goto, Ending
  <2> QED BY <2>2, <2>3
<1>13. CASE PersistWrite(r)
  BY <1>13, <1>c
  DEF PersistWrite, Evict, RedisOK, MemoryOK, TasksOK, SweepsOK, ClientsOK, BoundsOK, Goto,
      Ending, JobStatus
<1>14. CASE PersistGiveUp(r)
  <2>1. BoundsOK'
    BY <1>14, FaultType DEF PersistGiveUp
  <2>2. RedisOK' /\ SweepsOK' /\ ClientsOK'
    BY <1>14 DEF PersistGiveUp, RedisOK, TasksOK, SweepsOK, ClientsOK
  <2>3. MemoryOK' /\ TasksOK'
    BY <1>14, <1>c DEF PersistGiveUp, Evict, MemoryOK, TasksOK, Goto, Ending
  <2> QED BY <2>1, <2>2, <2>3
<1>15. CASE FrameCheck(r)
  BY <1>15, <1>c
  DEF FrameCheck, RedisOK, MemoryOK, TasksOK, SweepsOK, ClientsOK, BoundsOK, Goto, Ending
<1>16. CASE FramePublish(r)
  <2>1. BoundsOK'
    BY <1>16, FaultType DEF FramePublish, BoundsOK
  <2>2. out[r] \in TERMINAL_STATUSES
    BY DEF TasksOK
  <2>3. RedisOK' /\ SweepsOK' /\ ClientsOK'
    BY <1>16, <2>2 DEF FramePublish, RedisOK, SweepsOK, ClientsOK
  <2>4. MemoryOK' /\ TasksOK'
    BY <1>16, <1>c DEF FramePublish, MemoryOK, TasksOK, Goto, Ending
  <2> QED BY <2>1, <2>3, <2>4
<1>17. CASE ReleaseLease(r)
  BY <1>17, <1>c, FaultType
  DEF ReleaseLease, RedisOK, MemoryOK, TasksOK, SweepsOK, ClientsOK, BoundsOK, Goto, Free
<1> QED
  BY <1>1, <1>2, <1>3, <1>4, <1>5, <1>6, <1>7, <1>8, <1>9, <1>10, <1>11, <1>12, <1>13,
     <1>14, <1>15, <1>16, <1>17 DEF RunStep

\* What a sweep condemns is a Job instance or none, with a status of the row.
LEMMA CondemnType ==
  ASSUME MemoryOK, SweepsOK, NEW w \in Workers, NEW i \in Runs \cup {NoOne},
         NEW s \in JobStatus \cup {"none"}, NEW d \in BOOLEAN,
         Condemn(w, i, s, d), UNCHANGED <<up, local, event, answer>>
  PROVE  MemoryOK' /\ SweepsOK'
<1>1. MemoryOK'
  BY ConstantsAssumption DEF MemoryOK, Condemn, Mutated, JobStatus, TERMINAL_STATUSES
<1>2. SweepsOK'
  BY DEF SweepsOK, Condemn, SweepGoto, SweepPc, Handling
<1> QED BY <1>1, <1>2

\* What a worker reads of the job is a status, with an instance or without.
LEMMA ViewType ==
  ASSUME MemoryOK, RedisOK, NEW w \in Workers
  PROVE  View(w) \in JobStatus \cup {"none"} /\ ViewObj(w) \in Runs \cup {NoOne}
  BY DEF MemoryOK, RedisOK, View, ViewObj, Serves

\* What a sweep read of the job is a status, or that there is no row.
LEMMA SweepStatusType ==
  ASSUME MemoryOK, SweepsOK, NEW w \in Workers
  PROVE  SweepStatus(w) \in JobStatus \cup {"none"}
  BY DEF MemoryOK, SweepsOK, SweepStatus

\* Every step of a sweep keeps the types.
LEMMA SweepStepType ==
  ASSUME TypeOK, NEW w \in Workers, SweepStart(w) \/ SweepStep(w) \/ SweepTimeout(w)
  PROVE  TypeOK'
<1> USE DEF TypeOK, redis, memory, tasks, sweeps, clients, bounds
<1>a. Handling \cup {"idle", "scan", "claim", "unlock"} \subseteq SweepPc
  BY DEF SweepPc
<1>b. SweepStatus(w) \in JobStatus \cup {"none"} /\ tgt[w] \in Runs \cup {NoOne}
  BY SweepStatusType DEF SweepsOK
<1>1. CASE SweepStart(w)
  BY <1>1, <1>a DEF SweepStart, SweepGoto, SweepToken, RedisOK, MemoryOK, TasksOK, SweepsOK, ClientsOK, BoundsOK
<1>2. CASE SweepScan(w)
  BY <1>2, <1>a DEF SweepScan, SweepGoto, RedisOK, MemoryOK, TasksOK, SweepsOK, ClientsOK, BoundsOK
<1>3. CASE SweepClaim(w)
  <2>1. overtaken' \in BOOLEAN
    BY <1>3 DEF SweepClaim, BoundsOK
  <2>2. BoundsOK'
    BY <1>3, <2>1 DEF SweepClaim, BoundsOK
  <2> QED BY <1>3, <1>a, <2>2
      DEF SweepClaim, SweepGoto, ClaimToken, Handling, RedisOK, MemoryOK, TasksOK, SweepsOK, ClientsOK
<1>4. CASE SweepReread(w)
  <2>1. RedisOK' /\ TasksOK' /\ ClientsOK' /\ BoundsOK'
    BY <1>4, FaultType DEF SweepReread, RedisOK, TasksOK, ClientsOK, BoundsOK
  <2>2. UNCHANGED <<up, local, event, answer>>
    BY <1>4 DEF SweepReread
  <2>3. CASE Condemn(w, ViewObj(w), View(w), FALSE)
    BY <2>1, <2>2, <2>3, CondemnType, ViewType
  <2>4. CASE /\ spc' \in {[spc EXCEPT ![w] = p] : p \in SweepPc}
             /\ UNCHANGED <<mem, dead>>
             /\ \/ UNCHANGED <<seen, tgt>>
                \/ /\ tgt' = [tgt EXCEPT ![w] = ViewObj(w)]
                   /\ seen' = [seen EXCEPT ![w] = "pending"]
    BY <2>1, <2>2, <2>4, ViewType DEF MemoryOK, SweepsOK, JobStatus
  <2> QED BY <1>4, <1>a, <2>3, <2>4 DEF SweepReread, SweepGoto, Handling
<1>5. CASE SweepBump(w)
  <2>1. RedisOK' /\ TasksOK' /\ ClientsOK' /\ BoundsOK'
    <3>a. attempts' \in {attempts, attempts + 1} /\ UNCHANGED <<row, told, lease, lock, tasks, clients>>
      BY <1>5, Zenon DEF SweepBump
    <3>1. RedisOK' /\ TasksOK' /\ ClientsOK'
      BY <3>a DEF RedisOK, TasksOK, ClientsOK
    <3>2. BoundsOK'
      BY <1>5, FaultType DEF SweepBump, BoundsOK
    <3> QED BY <3>1, <3>2
  <2>2. UNCHANGED <<up, local, event, answer>>
    BY <1>5 DEF SweepBump
  <2>3. CASE Condemn(w, tgt[w], SweepStatus(w), TRUE)
    BY <1>b, <2>1, <2>2, <2>3, CondemnType
  <2>4. CASE /\ SweepGoto(w, "requeue")
             /\ mem' = Mutated(tgt[w], "pending")
             /\ UNCHANGED <<seen, tgt, dead>>
    BY <1>a, <1>b, <2>1, <2>2, <2>4, ConstantsAssumption
    DEF SweepGoto, Mutated, Handling, MemoryOK, SweepsOK, JobStatus
  <2> QED BY <1>5, <2>3, <2>4 DEF SweepBump
<1>6. CASE SweepRequeue(w)
  <2>1. RedisOK' /\ TasksOK' /\ ClientsOK' /\ BoundsOK'
    BY <1>6, FaultType DEF SweepRequeue, RedisOK, TasksOK, ClientsOK, BoundsOK, JobStatus
  <2>2. UNCHANGED <<up, local, event, answer>>
    BY <1>6 DEF SweepRequeue
  <2>3. CASE Condemn(w, tgt[w], SweepStatus(w), FALSE)
    BY <1>b, <2>1, <2>2, <2>3, CondemnType
  <2>4. CASE SweepGoto(w, "handoff") /\ UNCHANGED <<mem, seen, tgt, dead>>
    BY <1>a, <2>1, <2>2, <2>4 DEF SweepGoto, Handling, MemoryOK, SweepsOK
  <2> QED BY <1>6, <2>3, <2>4 DEF SweepRequeue
<1>7. CASE \E r \in Runs : SweepHandoff(w, r)
  <2> PICK r \in Runs : SweepHandoff(w, r)
    BY <1>7
  <2>1. RedisOK' /\ ClientsOK' /\ BoundsOK'
    <3>a. lease' \in {lease, Unclaimed(w)} /\ UNCHANGED <<row, told, lock, attempts, clients>>
      BY Zenon DEF SweepHandoff
    <3>1. RedisOK' /\ ClientsOK'
      BY <3>a DEF Unclaimed, Free, RedisOK, ClientsOK
    <3>2. BoundsOK'
      BY FaultType DEF SweepHandoff, BoundsOK
    <3> QED BY <3>1, <3>2
  <2>2. UNCHANGED <<up, local, event, answer>>
    BY DEF SweepHandoff
  <2>3. CASE Condemn(w, tgt[w], SweepStatus(w), FALSE) /\ UNCHANGED tasks
    BY <1>b, <2>1, <2>2, <2>3, CondemnType DEF TasksOK
  <2>4. CASE /\ Spawn(r, w, IF tgt[w] = NoOne THEN r ELSE tgt[w])
             /\ SweepGoto(w, "drop")
             /\ UNCHANGED <<mem, seen, tgt, dead>>
    <3>1. TasksOK'
      BY <1>b, <2>4 DEF Spawn, Goto, TasksOK, RunPc, Live
    <3>2. MemoryOK' /\ SweepsOK'
      BY <1>a, <2>2, <2>4 DEF SweepGoto, Handling, MemoryOK, SweepsOK
    <3> QED BY <2>1, <3>1, <3>2
  <2> QED BY <2>3, <2>4 DEF SweepHandoff
<1>8. CASE SweepCas(w)
  <2>1. RedisOK' /\ TasksOK' /\ ClientsOK' /\ BoundsOK'
    BY <1>8, FaultType
    DEF SweepCas, RedisOK, TasksOK, ClientsOK, BoundsOK, JobStatus, TERMINAL_STATUSES
  <2>2. MemoryOK'
    BY <1>8 DEF SweepCas, Evict, MemoryOK
  <2>3. SweepsOK'
    BY <1>8, <1>a DEF SweepCas, SweepGoto, Handling, SweepsOK
  <2> QED BY <2>1, <2>2, <2>3
<1>9. CASE SweepFrameCheck(w)
  BY <1>9, <1>a
  DEF SweepFrameCheck, SweepGoto, Handling, RedisOK, MemoryOK, TasksOK, SweepsOK, ClientsOK, BoundsOK
<1>10. CASE SweepFramePublish(w)
  <2>1. RedisOK' /\ TasksOK' /\ ClientsOK' /\ MemoryOK'
    BY <1>10 DEF SweepFramePublish, RedisOK, MemoryOK, TasksOK, ClientsOK, TERMINAL_STATUSES
  <2>2. SweepsOK'
    BY <1>10, <1>a DEF SweepFramePublish, SweepGoto, Handling, SweepsOK
  <2>3. BoundsOK'
    BY <1>10, FaultType DEF SweepFramePublish, BoundsOK
  <2> QED BY <2>1, <2>2, <2>3
<1>11. CASE SweepDrop(w)
  BY <1>11, <1>a, FaultType
  DEF SweepDrop, ForgetSweep, SweepGoto, Unclaimed, Free, RedisOK, MemoryOK, TasksOK, SweepsOK,
      ClientsOK, BoundsOK, JobStatus
<1>12. CASE SweepUnlock(w)
  BY <1>12, <1>a, FaultType
  DEF SweepUnlock, SweepGoto, Free, RedisOK, MemoryOK, TasksOK, SweepsOK, ClientsOK, BoundsOK
<1>13. CASE SweepTimeout(w)
  BY <1>13, <1>a, StallType
  DEF SweepTimeout, SweepCancelled, ForgetSweep, SweepGoto, Handling, RedisOK, MemoryOK, TasksOK,
      SweepsOK, ClientsOK, BoundsOK, JobStatus
<1> QED
  BY <1>1, <1>2, <1>3, <1>4, <1>5, <1>6, <1>7, <1>8, <1>9, <1>10, <1>11, <1>12, <1>13
  DEF SweepStep

\* Every step of a resume request keeps the types.
LEMMA ClientStepType ==
  ASSUME TypeOK, NEW c \in Clients, ClientStep(c)
  PROVE  TypeOK'
<1> USE DEF TypeOK, redis, memory, tasks, sweeps, clients, bounds
<1>a. Parked \in JobStatus
  BY DEF Parked, JobStatus, PARKED_STATUSES
<1>b. ASSUME ClientDone(c) PROVE ClientsOK'
  BY <1>b DEF ClientDone, ClientsOK, ClientPc
<1>1. CASE \E w \in Workers : ResumeRead(c, w)
  <2> PICK w \in Workers : ResumeRead(c, w)
    BY <1>1
  <2>1. PICK a \in Answers :
          /\ canswer' = [canswer EXCEPT ![c] = a]
          /\ answer' = IF Serves(w) THEN [answer EXCEPT ![local[w]] = a] ELSE answer
    BY DEF ResumeRead
  <2>2. /\ row' \in {row, Parked} /\ UNCHANGED <<told, lease, lock, attempts, up, local, mem, event>>
        /\ UNCHANGED <<tasks, sweeps, bounds>>
        /\ cobj' = [cobj EXCEPT ![c] = ViewObj(w)] /\ chost' = [chost EXCEPT ![c] = w]
        /\ \E p \in {"writing", "publishing"} : cpc' = [cpc EXCEPT ![c] = p]
    BY DEF ResumeRead
  <2>3. RedisOK' /\ TasksOK' /\ SweepsOK' /\ BoundsOK'
    BY <1>a, <2>2 DEF RedisOK, TasksOK, SweepsOK, BoundsOK
  <2>4. MemoryOK'
    BY <2>1, <2>2 DEF MemoryOK, Serves
  <2>5. ClientsOK'
    BY <2>1, <2>2, ViewType DEF ClientsOK, ClientPc
  <2> QED BY <2>3, <2>4, <2>5
<1>2. CASE ResumeWrite(c)
  <2>1. RedisOK' /\ TasksOK' /\ SweepsOK' /\ MemoryOK'
    BY <1>2, <1>a DEF ResumeWrite, RedisOK, TasksOK, SweepsOK, MemoryOK
  <2>2. BoundsOK'
    BY <1>2, FaultType DEF ResumeWrite, BoundsOK
  <2>3. ClientsOK'
    BY <1>2, <1>b DEF ResumeWrite, ClientsOK, ClientPc
  <2> QED BY <2>1, <2>2, <2>3
<1>3. CASE ResumePublish(c)
  <2>1. ClientsOK'
    BY <1>3, <1>b DEF ResumePublish
  <2>2. UNCHANGED <<redis, up, local, mem, host, obj, keeper, buf, out, pauses, sweeps>>
    BY <1>3 DEF ResumePublish
  <2>3. PICK woken \in {{r \in Runs : pc[r] = "parked"}, {}} :
          /\ UNCHANGED bounds \/ Fault("publish")
          /\ pc' = [r \in Runs |-> IF r \in woken THEN "hydrated" ELSE pc[r]]
          /\ answer' = [i \in Runs |->
               IF \E r \in woken : obj[r] = i THEN canswer[c] ELSE answer[i]]
          /\ event' = [i \in Runs |->
               event[i] \/ i = cobj[c] \/ \E r \in woken : obj[r] = i]
    BY <1>3 DEF ResumePublish
  <2>4. BoundsOK'
    BY <2>3, FaultType DEF BoundsOK
  <2>5. RedisOK' /\ SweepsOK'
    BY <2>2 DEF RedisOK, SweepsOK
  <2>6. TasksOK'
    BY <2>2, <2>3 DEF TasksOK, RunPc, Live, Working
  <2>7. answer' \in [Runs -> Answers \cup {"none"}]
    BY <2>3 DEF MemoryOK, ClientsOK
  <2>8. event' \in [Runs -> BOOLEAN]
    BY <2>3 DEF MemoryOK
  <2>9. MemoryOK'
    BY <2>2, <2>7, <2>8 DEF MemoryOK
  <2> QED BY <2>1, <2>4, <2>5, <2>6, <2>9
<1> QED BY <1>1, <1>2, <1>3 DEF ClientStep

\* Submitting a job, losing a process and waiting for a TTL keep the types.
LEMMA WorldStepType ==
  ASSUME TypeOK,
         \/ \E w \in Workers, r \in Runs : Submit(w, r)
         \/ \E w \in Workers : Crash(w) \/ Shutdown(w) \/ CancelTasks(w) \/ Restart(w)
         \/ LeaseExpire \/ LockExpire \/ TtlLapse
  PROVE  TypeOK'
<1> USE DEF TypeOK, redis, memory, tasks, sweeps, clients, bounds
<1>a. \A w \in Workers : Orphan(lease, w) \in [kind : {"free", "dead", "run", "claim"}, by : Workers \cup {NoOne}]
  BY DEF RedisOK, Orphan, DeadToken
<1>b. \A w \in Workers : Orphan(lock, w) \in [kind : {"free", "dead", "sweep"}, by : Workers \cup {NoOne}]
  BY DEF RedisOK, Orphan, DeadToken
<1>c. ASSUME NEW w \in Workers, DropClients(w) PROVE ClientsOK'
  BY <1>c DEF DropClients, ClientsOK, ClientPc
<1>d. "cancelled" \in TERMINAL_STATUSES /\ TERMINAL_STATUSES \subseteq JobStatus
  BY DEF TERMINAL_STATUSES, JobStatus
<1>1. ASSUME NEW w \in Workers, NEW r \in Runs, Submit(w, r) PROVE TypeOK'
  <2>1. RedisOK' /\ SweepsOK' /\ ClientsOK' /\ BoundsOK'
    BY <1>1 DEF Submit, RedisOK, SweepsOK, ClientsOK, BoundsOK, JobStatus
  <2>2. MemoryOK'
    BY <1>1 DEF Submit, MemoryOK
  <2>3. TasksOK'
    BY <1>1 DEF Submit, Spawn, Goto, TasksOK, RunPc, Live
  <2> QED BY <2>1, <2>2, <2>3
<1>2. ASSUME NEW w \in Workers, Crash(w) PROVE TypeOK'
  <2>1. RedisOK'
    BY <1>2, <1>a, <1>b DEF Crash, RedisOK
  <2>2. MemoryOK'
    BY <1>2 DEF Crash, MemoryOK
  <2>3. TasksOK'
    BY <1>2 DEF Crash, TasksOK, RunPc
  <2>4. SweepsOK' /\ BoundsOK'
    BY <1>2 DEF Crash, SweepGoto, ForgetSweep, SweepsOK, SweepPc, JobStatus, BoundsOK
  <2>5. ClientsOK'
    BY <1>2, <1>c DEF Crash
  <2> QED BY <2>1, <2>2, <2>3, <2>4, <2>5
<1>3. ASSUME NEW w \in Workers, Shutdown(w) PROVE TypeOK'
  <2>1. RedisOK' /\ TasksOK'
    BY <1>3 DEF Shutdown, RedisOK, TasksOK
  <2>2. MemoryOK'
    BY <1>3 DEF Shutdown, MemoryOK
  <2>3. SweepsOK' /\ BoundsOK'
    BY <1>3 DEF Shutdown, SweepGoto, SweepCancelled, ForgetSweep, SweepsOK, SweepPc, Handling, JobStatus, BoundsOK
  <2>4. ClientsOK'
    BY <1>3, <1>c DEF Shutdown
  <2> QED BY <2>1, <2>2, <2>3, <2>4
<1>4. ASSUME NEW w \in Workers, CancelTasks(w) PROVE TypeOK'
  <2>1. RedisOK' /\ SweepsOK' /\ ClientsOK' /\ BoundsOK'
    BY <1>4 DEF CancelTasks, RedisOK, SweepsOK, ClientsOK, BoundsOK
  <2>2. MemoryOK'
    BY <1>4, <1>d DEF CancelTasks, MemoryOK
  <2>3. \A p \in RunPc : Interrupted(p) \in RunPc
    BY DEF Interrupted, RunPc, Live, Working, Ending
  <2>4. TasksOK'
    BY <1>4, <1>d, <2>3 DEF CancelTasks, TasksOK
  <2> QED BY <2>1, <2>2, <2>4
<1>5. ASSUME NEW w \in Workers, Restart(w) PROVE TypeOK'
  BY <1>5, <1>a DEF Restart, RedisOK, MemoryOK, TasksOK, SweepsOK, ClientsOK, BoundsOK
<1>6. ASSUME LeaseExpire \/ LockExpire PROVE TypeOK'
  BY <1>6 DEF LeaseExpire, LockExpire, Free, RedisOK, MemoryOK, TasksOK, SweepsOK, ClientsOK, BoundsOK
<1>7. ASSUME TtlLapse PROVE TypeOK'
  BY <1>7, StallType DEF TtlLapse, Free, RedisOK, MemoryOK, TasksOK, SweepsOK, ClientsOK, BoundsOK
<1> QED BY <1>1, <1>2, <1>3, <1>4, <1>5, <1>6, <1>7

\* Every variable keeps its type, in every fleet and under every bound: no
\* interleaving of the handlers stores a value of another kind in the row, in
\* a frame or in a lease.
THEOREM TypeCorrect == Spec => []TypeOK
<1>1. Init => TypeOK
  BY InitType
<1>2. TypeOK /\ [Next]_vars => TypeOK'
  <2>1. ASSUME TypeOK, Next PROVE TypeOK'
    BY <2>1, RunStepType, SweepStepType, ClientStepType, WorldStepType DEF Next
  <2>2. ASSUME TypeOK, UNCHANGED vars PROVE TypeOK'
    BY <2>2 DEF vars, redis, memory, tasks, sweeps, clients, bounds,
       TypeOK, RedisOK, MemoryOK, TasksOK, SweepsOK, ClientsOK, BoundsOK
  <2> QED BY <2>1, <2>2
<1> QED BY <1>1, <1>2, PTL DEF Spec

-----------------------------------------------------------------------------
(* Mutual exclusion of runs and sweeps.                                    *)

\* No live process is slower than a TTL of its own, and the SET NX of a
\* runner's lease does not raise.
Prompt == MaxStalls = 0 /\ "acquire" \notin FaultyOps

\* The part of a sweep between its claim and the hand-over of the job.
Claiming == {"reread", "bump", "requeue", "handoff"}
Deciding == Handling \ {"drop"}

\* A sweep under way holds the redrive lock, and a stopped worker has none.
LockHeld ==
  /\ \A w \in Workers : spc[w] # "idle" => lock = SweepToken(w)
  /\ \A w \in Workers : up[w] = "stopped" => spc[w] = "idle"

\* A run that has been through its SET NX holds the lease and refreshes it;
\* before that nobody holds it, and the run has no keeper.
LeaseHeld ==
  \A r \in Runs :
    /\ pc[r] \in {"idle", "accepted"} => keeper[r] = "none"
    /\ pc[r] = "accepted" => lease = Free
    /\ pc[r] \in Live \ {"accepted"} => keeper[r] = "held" /\ lease = RunToken(host[r])

\* A sweep that decides about the job decides alone.
ClaimHeld ==
  \A w \in Workers :
    /\ spc[w] \in Claiming => lease = ClaimToken(w)
    /\ spc[w] \in Deciding => \A r \in Runs : pc[r] \notin Live

\* Before the job exists there is nothing to run, to lease or to claim.
Unborn ==
  row = "none" =>
    /\ lease = Free
    /\ \A r \in Runs : pc[r] \notin Live
    /\ \A w \in Workers : spc[w] \notin Handling \cup {"claim"}

\* One run_job task executes the job.
Alone ==
  \A r, q \in Runs : pc[r] \in Live /\ pc[q] \in Live => r = q

Exclusion == LockHeld /\ LeaseHeld /\ ClaimHeld /\ Alone /\ Unborn

\* Nobody stalls when nobody is allowed to.
LEMMA NoStall == ASSUME Prompt, BoundsOK PROVE ~Stall
  BY DEF Prompt, BoundsOK, Stall

\* The redrive lock lets one sweep through at a time.
LEMMA OneSweep ==
  ASSUME LockHeld, NEW v \in Workers, NEW w \in Workers, spc[v] # "idle", spc[w] # "idle"
  PROVE  v = w
  BY DEF LockHeld, SweepToken

\* A run that is past its SET NX is the one that holds the lease.
LEMMA RunHolds ==
  ASSUME Exclusion, NEW r \in Runs, pc[r] \in Live
  PROVE  /\ row # "none"
         /\ pc[r] = "accepted" => lease = Free /\ keeper[r] = "none"
         /\ pc[r] # "accepted" => keeper[r] = "held" /\ lease = RunToken(host[r])
         /\ \A q \in Runs : pc[q] \in Live => q = r
         /\ \A w \in Workers : spc[w] \notin Deciding
  BY DEF Exclusion, Unborn, LeaseHeld, Alone, ClaimHeld

\* What a step of the one live run has to show: it keeps the lease for as long
\* as it goes on.
LEMMA LoneRun ==
  ASSUME TypeOK, Exclusion, NEW r \in Runs, pc[r] \in Live,
         \A q \in Runs \ {r} : pc'[q] = pc[q] /\ keeper'[q] = keeper[q],
         pc'[r] \notin {"idle", "accepted"},
         pc'[r] \in Live => keeper'[r] = "held" /\ lease' = RunToken(host[r]),
         UNCHANGED <<up, spc, lock, host>>, row' # "none"
  PROVE  Exclusion'
<1>1. \A q \in Runs : pc'[q] \in Live => q = r
  BY RunHolds
<1>2. LockHeld'
  BY DEF Exclusion, LockHeld, SweepToken
<1>3. LeaseHeld'
  <2>1. ASSUME NEW q \in Runs, q # r
        PROVE pc'[q] \in {"idle", "accepted"} => keeper'[q] = "none"
    BY <2>1 DEF Exclusion, LeaseHeld
  <2>2. "accepted" \in Live
    BY DEF Live
  <2> QED BY <1>1, <2>1, <2>2 DEF LeaseHeld, RunToken
<1>4. ClaimHeld'
  <2>1. \A w \in Workers : spc[w] \notin Deciding
    BY RunHolds
  <2> QED BY <2>1 DEF ClaimHeld, Deciding, Claiming, Handling
<1>5. Alone'
  BY <1>1 DEF Alone
<1> QED BY <1>2, <1>3, <1>4, <1>5 DEF Exclusion, Unborn

\* The steps of a run between the SET NX of its lease and its release.
BetweenLeases(r) ==
  \/ TakePermit(r) \/ StartWrite(r) \/ Pause(r) \/ ParkWrite(r) \/ Subscribe(r)
  \/ Wake(r) \/ ParkTimeout(r) \/ UnparkWrite(r) \/ Finish(r) \/ JobTimeout(r)
  \/ PersistCheck(r) \/ PersistWrite(r) \/ PersistGiveUp(r) \/ FrameCheck(r)
  \/ FramePublish(r)

\* They leave the lease and the sweeps alone.
LEMMA LeaseLeftAlone ==
  ASSUME NEW r \in Runs, BetweenLeases(r)
  PROVE  /\ pc[r] \in {"queued"} \cup Working \cup Ending
         /\ UNCHANGED <<up, spc, lock, host, lease, keeper>>
         /\ \E p \in Working \cup Ending : pc' = [pc EXCEPT ![r] = p]
<1> USE DEF BetweenLeases
<1>1. /\ pc[r] \in {"queued"} \cup Working \cup Ending
      /\ UNCHANGED <<up, spc, lock, host, lease, keeper>>
  <2>1. CASE StartWrite(r) \/ ParkWrite(r) \/ UnparkWrite(r)
    BY <2>1 DEF StartWrite, ParkWrite, UnparkWrite, NonTerminalWrite, End, sweeps, Working
  <2>2. CASE \/ TakePermit(r) \/ Pause(r) \/ Subscribe(r) \/ Wake(r) \/ ParkTimeout(r)
             \/ Finish(r) \/ JobTimeout(r)
    BY <2>2 DEF TakePermit, Pause, Subscribe, Wake, ParkTimeout, Finish, JobTimeout,
       End, redis, memory, sweeps, Working
  <2>3. CASE \/ PersistCheck(r) \/ PersistWrite(r) \/ PersistGiveUp(r) \/ FrameCheck(r)
             \/ FramePublish(r)
    BY <2>3 DEF PersistCheck, PersistWrite, PersistGiveUp, FrameCheck, FramePublish,
       redis, memory, sweeps, Ending
  <2> QED BY <2>1, <2>2, <2>3
<1>2. \E p \in Working \cup Ending : pc' = [pc EXCEPT ![r] = p]
  <2>1. CASE StartWrite(r) \/ ParkWrite(r) \/ UnparkWrite(r)
    BY <2>1 DEF StartWrite, ParkWrite, UnparkWrite, NonTerminalWrite, End, Goto, Working, Ending
  <2>2. CASE \/ TakePermit(r) \/ Pause(r) \/ Subscribe(r) \/ Wake(r) \/ ParkTimeout(r)
             \/ Finish(r) \/ JobTimeout(r)
    BY <2>2 DEF TakePermit, Pause, Subscribe, Wake, ParkTimeout, Finish, JobTimeout,
       End, Goto, Working, Ending
  <2>3. CASE \/ PersistCheck(r) \/ PersistWrite(r) \/ PersistGiveUp(r) \/ FrameCheck(r)
             \/ FramePublish(r)
    BY <2>3 DEF PersistCheck, PersistWrite, PersistGiveUp, FrameCheck, FramePublish, Goto, Ending
  <2> QED BY <2>1, <2>2, <2>3
<1> QED BY <1>1, <1>2

\* No step of a run breaks the exclusion.
LEMMA RunStepExclusion ==
  ASSUME Prompt, TypeOK, Exclusion, NEW r \in Runs, RunStep(r)
  PROVE  Exclusion'
<1>1. CASE AcquireLease(r)
  <2>1. pc[r] \in Live /\ lease = Free /\ row # "none"
    BY <1>1, RunHolds DEF AcquireLease, Live
  <2>2. keeper' = [keeper EXCEPT ![r] = "held"] /\ lease' = RunToken(host[r])
    BY <1>1, <2>1 DEF AcquireLease, Fault, Prompt
  <2>3. pc' = [pc EXCEPT ![r] = "queued"] /\ UNCHANGED <<up, spc, lock, host, row>>
    BY <1>1 DEF AcquireLease, Goto, memory, sweeps
  <2>4. /\ pc'[r] = "queued" /\ keeper'[r] = "held"
        /\ \A q \in Runs \ {r} : pc'[q] = pc[q] /\ keeper'[q] = keeper[q]
    BY <2>2, <2>3 DEF TypeOK, TasksOK
  <2> QED BY <2>1, <2>2, <2>3, <2>4, LoneRun
<1>2. CASE RetryAcquire(r) \/ LeaseLost(r)
  <2>1. /\ pc[r] \in Live
        /\ keeper[r] = "retry" \/ (keeper[r] = "held" /\ lease # RunToken(host[r]))
    BY <1>2 DEF RetryAcquire, LeaseLost
  <2>2. keeper[r] = "none" \/ (keeper[r] = "held" /\ lease = RunToken(host[r]))
    BY <2>1, RunHolds
  <2> QED BY <2>1, <2>2
<1>3. CASE ReleaseLease(r)
  <2>1. pc[r] \in Live /\ row # "none"
    BY <1>3, RunHolds DEF ReleaseLease, Live, Ending
  <2>2. /\ pc' = [pc EXCEPT ![r] = "done"] /\ keeper' = [keeper EXCEPT ![r] = "none"]
        /\ UNCHANGED <<up, spc, lock, host, row>>
    BY <1>3 DEF ReleaseLease, Goto, memory, sweeps
  <2>3. /\ pc'[r] = "done" /\ "done" \notin Live
        /\ \A q \in Runs \ {r} : pc'[q] = pc[q] /\ keeper'[q] = keeper[q]
    BY <2>2 DEF TypeOK, TasksOK, Live, Working, Ending
  <2> QED BY <2>1, <2>2, <2>3, LoneRun
<1>4. ASSUME BetweenLeases(r)
      PROVE  Exclusion'
  <2> USE DEF BetweenLeases
  <2>1. /\ pc[r] \in {"queued"} \cup Working \cup Ending
        /\ UNCHANGED <<up, spc, lock, host, lease, keeper>>
    BY <1>4, LeaseLeftAlone
  <2>2. \E p \in Working \cup Ending : pc' = [pc EXCEPT ![r] = p]
    BY <1>4, LeaseLeftAlone
  <2>3. row' = row \/ row' \in JobStatus
    <3>1. CASE StartWrite(r) \/ ParkWrite(r) \/ UnparkWrite(r)
      BY <3>1 DEF StartWrite, ParkWrite, UnparkWrite, NonTerminalWrite, Parked, JobStatus,
         PARKED_STATUSES
    <3>2. CASE \/ TakePermit(r) \/ Pause(r) \/ Subscribe(r) \/ Wake(r) \/ ParkTimeout(r)
               \/ Finish(r) \/ JobTimeout(r)
      BY <3>2 DEF TakePermit, Pause, Subscribe, Wake, ParkTimeout, Finish, JobTimeout, redis
    <3>3. CASE \/ PersistCheck(r) \/ PersistWrite(r) \/ PersistGiveUp(r) \/ FrameCheck(r)
               \/ FramePublish(r)
      BY <3>3 DEF PersistCheck, PersistWrite, PersistGiveUp, FrameCheck, FramePublish, redis,
         TypeOK, TasksOK
    <3> QED BY <1>4, <3>1, <3>2, <3>3
  <2>4. pc[r] \in Live /\ pc[r] # "accepted"
    BY <2>1 DEF Live, Working, Ending
  <2>5. row # "none" /\ keeper[r] = "held" /\ lease = RunToken(host[r])
    BY <2>4, RunHolds
  <2>6. row' # "none"
    BY <2>3, <2>5 DEF JobStatus, TERMINAL_STATUSES, PARKED_STATUSES
  <2>7. /\ pc'[r] \notin {"idle", "accepted"}
        /\ \A q \in Runs \ {r} : pc'[q] = pc[q]
    BY <2>2 DEF TypeOK, TasksOK, Working, Ending
  <2> QED BY <2>1, <2>4, <2>5, <2>6, <2>7, LoneRun
<1> QED BY <1>1, <1>2, <1>3, <1>4 DEF RunStep, BetweenLeases

\* What a step of the one sweep under way has to show when it touches neither
\* the lease nor the runs: it does not decide unless it did.
LEMMA LoneSweep ==
  ASSUME Exclusion, NEW w \in Workers, spc[w] # "idle",
         \A v \in Workers \ {w} : spc'[v] = spc[v],
         spc'[w] \in Claiming => spc[w] \in Claiming,
         spc'[w] \in Deciding => spc[w] \in Deciding,
         spc'[w] \in Handling \cup {"claim"} => row # "none",
         UNCHANGED <<up, lock, lease, pc, host, keeper>>,
         row' = row \/ (row # "none" /\ row' # "none")
  PROVE  Exclusion'
<1>1. LockHeld'
  BY DEF Exclusion, LockHeld, SweepToken
<1>2. LeaseHeld' /\ Alone'
  BY DEF Exclusion, LeaseHeld, Alone, RunToken
<1>3. ClaimHeld'
  BY DEF Exclusion, ClaimHeld, ClaimToken
<1>4. Unborn'
  BY DEF Exclusion, Unborn
<1> QED BY <1>1, <1>2, <1>3, <1>4 DEF Exclusion

\* A sweep that has taken the claim acts on a job that exists.
LEMMA SweepHolds ==
  ASSUME Exclusion, NEW w \in Workers, spc[w] \in Handling
  PROVE  /\ row # "none"
         /\ spc[w] \in Claiming => lease = ClaimToken(w)
         /\ spc[w] \in Deciding => \A r \in Runs : pc[r] \notin Live
         /\ \A v \in Workers \ {w} : spc[v] = "idle"
<1>1. spc[w] # "idle"
  BY DEF Handling
<1>2. \A v \in Workers \ {w} : spc[v] = "idle"
  BY <1>1, OneSweep DEF Exclusion
<1> QED BY <1>2 DEF Exclusion, Unborn, ClaimHeld

\* No step of a sweep breaks the exclusion.
LEMMA SweepStepExclusion ==
  ASSUME Prompt, TypeOK, Exclusion, NEW w \in Workers,
         SweepStart(w) \/ SweepStep(w) \/ SweepTimeout(w), ~overtaken'
  PROVE  Exclusion'
<1>0. spc \in [Workers -> SweepPc]
  BY DEF TypeOK, SweepsOK
<1>1. CASE SweepStart(w)
  <2>1. /\ lock = Free /\ lock' = SweepToken(w) /\ up[w] = "serving"
        /\ spc' = [spc EXCEPT ![w] = "scan"]
        /\ UNCHANGED <<row, lease, up, pc, host, keeper>>
    BY <1>1 DEF SweepStart, SweepGoto, memory, tasks
  <2>2. \A v \in Workers : spc[v] = "idle"
    BY <2>1 DEF Exclusion, LockHeld, SweepToken, Free
  <2>3. LockHeld'
    BY <1>0, <2>1, <2>2 DEF Exclusion, LockHeld, SweepToken
  <2>4. LeaseHeld' /\ Alone'
    BY <2>1 DEF Exclusion, LeaseHeld, Alone, RunToken
  <2>5. ClaimHeld' /\ Unborn'
    BY <1>0, <2>1, <2>2 DEF Exclusion, Unborn, ClaimHeld, Claiming, Deciding, Handling
  <2> QED BY <2>3, <2>4, <2>5 DEF Exclusion
<1>2. CASE SweepScan(w)
  <2>1. /\ spc[w] = "scan" /\ UNCHANGED <<row, lease, lock, up, pc, host, keeper>>
        /\ \/ spc' = [spc EXCEPT ![w] = "unlock"]
           \/ row # "none" /\ spc' = [spc EXCEPT ![w] = "claim"]
    BY <1>2 DEF SweepScan, SweepGoto, redis, memory, tasks
  <2>2. /\ \A v \in Workers \ {w} : spc'[v] = spc[v]
        /\ spc'[w] \notin Handling
        /\ spc'[w] \in Handling \cup {"claim"} => row # "none"
    BY <1>0, <2>1 DEF Handling
  <2> QED BY <2>1, <2>2, LoneSweep DEF Claiming, Deciding, Handling
<1>3. CASE SweepClaim(w)
  <2>1. spc' = [spc EXCEPT ![w] = "reread"] => \A r \in Runs : pc[r] # "accepted"
    BY <1>0, <1>3 DEF SweepClaim, SweepGoto
  <2>2. /\ spc[w] = "claim" /\ UNCHANGED <<row, lock, up, pc, host, keeper>>
        /\ \/ /\ lease = Free /\ lease' = ClaimToken(w)
              /\ spc' = [spc EXCEPT ![w] = "reread"]
           \/ spc' = [spc EXCEPT ![w] = "unlock"] /\ UNCHANGED lease
    BY <1>3 DEF SweepClaim, SweepGoto, memory, tasks
  <2>3. row # "none"
    BY <2>2 DEF Exclusion, Unborn
  <2>4. CASE spc' = [spc EXCEPT ![w] = "unlock"] /\ UNCHANGED lease
    <3>1. /\ \A v \in Workers \ {w} : spc'[v] = spc[v]
          /\ spc'[w] \notin Handling
      BY <1>0, <2>4 DEF Handling
    <3> QED BY <2>2, <2>3, <2>4, <3>1, LoneSweep DEF Claiming, Deciding, Handling
  <2>5. CASE lease = Free /\ lease' = ClaimToken(w) /\ spc' = [spc EXCEPT ![w] = "reread"]
    <3>1. \A r \in Runs : pc[r] \notin Live
      BY <2>1, <2>5 DEF Exclusion, LeaseHeld, RunToken, Free
    <3>2. \A v \in Workers \ {w} : spc[v] = "idle" /\ spc'[v] = "idle"
      BY <1>0, <2>2, <2>5, OneSweep DEF Exclusion
    <3>3. LockHeld'
      BY <1>0, <2>2, <2>5 DEF Exclusion, LockHeld, SweepToken
    <3>4. LeaseHeld' /\ Alone'
      BY <2>2, <3>1 DEF Exclusion, LeaseHeld, Alone, Live
    <3>5. ClaimHeld'
      BY <1>0, <2>2, <2>5, <3>1, <3>2 DEF ClaimHeld, Claiming, Deciding, Handling, ClaimToken
    <3> QED BY <2>2, <2>3, <3>3, <3>4, <3>5 DEF Exclusion, Unborn
  <2> QED BY <2>2, <2>4, <2>5
<1>4. ASSUME SweepReread(w) \/ SweepBump(w) \/ SweepRequeue(w)
      PROVE  Exclusion'
  <2>1. /\ spc[w] \in Claiming
        /\ UNCHANGED <<lock, lease, up, pc, host, keeper>>
        /\ row' \in {row, "pending"}
    BY <1>4 DEF SweepReread, SweepBump, SweepRequeue, Claiming, redis, memory, tasks
  <2>2. \E p \in {"drop", "bump", "cas", "unlock", "requeue", "handoff"} : spc' = [spc EXCEPT ![w] = p]
    BY <1>4 DEF SweepReread, SweepBump, SweepRequeue, Condemn, SweepGoto
  <2>3. /\ \A v \in Workers \ {w} : spc'[v] = spc[v]
        /\ spc[w] \in Handling /\ spc[w] \in Deciding /\ spc[w] # "idle"
    BY <1>0, <2>1, <2>2 DEF Claiming, Deciding, Handling
  <2>4. row # "none"
    BY <2>3, SweepHolds
  <2> QED BY <2>1, <2>3, <2>4, LoneSweep
<1>5. CASE \E r \in Runs : SweepHandoff(w, r)
  <2> PICK r \in Runs : SweepHandoff(w, r)
    BY <1>5
  <2>1. /\ spc[w] = "handoff" /\ UNCHANGED <<row, lock, up>>
    BY DEF SweepHandoff
  <2>2. /\ row # "none" /\ lease = ClaimToken(w)
        /\ \A q \in Runs : pc[q] \notin Live
        /\ \A v \in Workers \ {w} : spc[v] = "idle"
    BY <2>1, SweepHolds DEF Handling, Claiming, Deciding
  <2>3. CASE Condemn(w, tgt[w], SweepStatus(w), FALSE) /\ UNCHANGED tasks
    <3>1. spc' = [spc EXCEPT ![w] = "cas"] /\ UNCHANGED <<pc, host, keeper>>
      BY <2>3 DEF Condemn, SweepGoto, tasks
    <3>2. /\ \A v \in Workers \ {w} : spc'[v] = "idle"
          /\ spc'[w] = "cas"
      BY <1>0, <2>2, <3>1
    <3>3. LockHeld'
      BY <2>1, <3>2, <3>1 DEF Exclusion, LockHeld, SweepToken
    <3>4. LeaseHeld' /\ Alone'
      BY <2>2, <3>1 DEF Exclusion, LeaseHeld, Alone, Live
    <3>5. ClaimHeld'
      BY <2>2, <3>1, <3>2 DEF ClaimHeld, Claiming, Deciding, Handling
    <3> QED BY <2>1, <2>2, <3>3, <3>4, <3>5 DEF Exclusion, Unborn
  <2>4. CASE /\ lease' = Unclaimed(w)
             /\ Spawn(r, w, IF tgt[w] = NoOne THEN r ELSE tgt[w])
             /\ SweepGoto(w, "drop")
    <3>1. /\ lease' = Free
          /\ pc[r] = "idle" /\ pc' = [pc EXCEPT ![r] = "accepted"] /\ UNCHANGED keeper
          /\ spc' = [spc EXCEPT ![w] = "drop"]
      BY <2>2, <2>4 DEF Unclaimed, Spawn, Goto, SweepGoto
    <3>2. \A q \in Runs : pc'[q] = IF q = r THEN "accepted" ELSE pc[q]
      BY <3>1 DEF TypeOK, TasksOK
    <3>3. /\ \A v \in Workers \ {w} : spc'[v] = "idle"
          /\ spc'[w] = "drop"
      BY <1>0, <2>2, <3>1
    <3>4. LockHeld'
      BY <2>1, <3>3 DEF Exclusion, LockHeld, SweepToken
    <3>5. LeaseHeld' /\ Alone'
      BY <2>2, <3>1, <3>2 DEF Exclusion, LeaseHeld, Alone, Live
    <3>6. ClaimHeld'
      BY <3>3 DEF ClaimHeld, Claiming, Deciding, Handling
    <3> QED BY <2>1, <2>2, <3>4, <3>5, <3>6 DEF Exclusion, Unborn
  <2> QED BY <2>3, <2>4 DEF SweepHandoff
<1>6. ASSUME SweepCas(w) \/ SweepFrameCheck(w) \/ SweepFramePublish(w)
      PROVE  Exclusion'
  <2>1. /\ spc[w] \in {"cas", "frame", "publishing"}
        /\ UNCHANGED <<lock, lease, up, pc, host, keeper>>
        /\ row' \in {row, "failed"}
    BY <1>6 DEF SweepCas, SweepFrameCheck, SweepFramePublish, redis, memory, tasks
  <2>2. \E p \in {"frame", "publishing", "drop"} : spc' = [spc EXCEPT ![w] = p]
    BY <1>6 DEF SweepCas, SweepFrameCheck, SweepFramePublish, SweepGoto
  <2>3. /\ \A v \in Workers \ {w} : spc'[v] = spc[v]
        /\ spc'[w] \notin Claiming
        /\ spc[w] \in Handling /\ spc[w] \in Deciding /\ spc[w] # "idle"
    BY <1>0, <2>1, <2>2 DEF Claiming, Deciding, Handling
  <2>4. row # "none"
    BY <2>3, SweepHolds
  <2> QED BY <2>1, <2>3, <2>4, LoneSweep
<1>7. CASE SweepDrop(w)
  <2>1. /\ spc[w] = "drop" /\ spc' = [spc EXCEPT ![w] = "unlock"]
        /\ lease' \in {lease, Unclaimed(w)}
        /\ UNCHANGED <<row, lock, up, pc, host, keeper>>
    BY <1>7 DEF SweepDrop, SweepGoto, memory, tasks
  <2>2. /\ row # "none" /\ \A v \in Workers \ {w} : spc[v] = "idle" /\ spc'[v] = "idle"
        /\ spc'[w] = "unlock"
    BY <1>0, <2>1, SweepHolds DEF Handling
  <2>3. LockHeld'
    BY <2>1, <2>2 DEF Exclusion, LockHeld, SweepToken
  <2>4. LeaseHeld' /\ Alone'
    BY <2>1 DEF Exclusion, LeaseHeld, Alone, Unclaimed, ClaimToken, RunToken, Free
  <2>5. ClaimHeld'
    BY <2>2 DEF ClaimHeld, Claiming, Deciding, Handling
  <2> QED BY <2>1, <2>2, <2>3, <2>4, <2>5 DEF Exclusion, Unborn
<1>8. CASE SweepUnlock(w)
  <2>1. /\ spc[w] = "unlock" /\ spc' = [spc EXCEPT ![w] = "idle"]
        /\ UNCHANGED <<row, lease, up, pc, host, keeper>>
    BY <1>8 DEF SweepUnlock, SweepGoto, memory, tasks
  <2>2. \A v \in Workers : spc'[v] = "idle"
    BY <1>0, <2>1, OneSweep DEF Exclusion
  <2>3. LockHeld'
    BY <2>2 DEF LockHeld
  <2>4. LeaseHeld' /\ Alone'
    BY <2>1 DEF Exclusion, LeaseHeld, Alone, RunToken
  <2>5. ClaimHeld' /\ Unborn'
    BY <2>1, <2>2 DEF Exclusion, Unborn, ClaimHeld, Claiming, Deciding, Handling
  <2> QED BY <2>3, <2>4, <2>5 DEF Exclusion
<1>9. ~SweepTimeout(w)
  BY NoStall DEF SweepTimeout, TypeOK
<1> QED BY <1>1, <1>2, <1>3, <1>4, <1>5, <1>6, <1>7, <1>8, <1>9 DEF SweepStep

\* A resume request wakes runs and rewrites the row of a parked job, nothing
\* else of what the exclusion is about.
LEMMA ClientStepExclusion ==
  ASSUME TypeOK, Exclusion, NEW c \in Clients, ClientStep(c)
  PROVE  Exclusion'
<1>1. UNCHANGED <<lock, lease, up, spc, host, keeper>>
  BY DEF ClientStep, ResumeRead, ResumeWrite, ResumePublish, redis, memory, tasks, sweeps
<1>2. row' \in {row, Parked} /\ Parked # "none"
  BY DEF ClientStep, ResumeRead, ResumeWrite, ResumePublish, redis, Parked
<1>3. row = "none" => row' = "none" \/ \A r \in Runs : pc[r] \notin Live
  BY DEF Exclusion, Unborn
<1>4. \A r \in Runs : pc'[r] = pc[r] \/ (pc[r] = "parked" /\ pc'[r] = "hydrated")
  BY DEF ClientStep, ResumeRead, ResumeWrite, ResumePublish, tasks
<1>5. \A r \in Runs : /\ pc'[r] \in Live <=> pc[r] \in Live
                      /\ pc'[r] \in {"idle", "accepted"} <=> pc[r] \in {"idle", "accepted"}
                      /\ pc'[r] = "accepted" <=> pc[r] = "accepted"
  BY <1>4 DEF Live, Working
<1>6. LockHeld' /\ Alone'
  BY <1>1, <1>5 DEF Exclusion, LockHeld, SweepToken, Alone
<1>7. LeaseHeld'
  BY <1>1, <1>5 DEF Exclusion, LeaseHeld, RunToken
<1>8. ClaimHeld'
  BY <1>1, <1>5 DEF Exclusion, ClaimHeld, ClaimToken
<1>9. Unborn'
  BY <1>1, <1>2, <1>5 DEF Exclusion, Unborn
<1> QED BY <1>6, <1>7, <1>8, <1>9 DEF Exclusion

\* A token that is still refreshed or still in use does not expire, and one of
\* another worker does not die with this one.
LEMMA WorldStepExclusion ==
  ASSUME Prompt, TypeOK, Exclusion,
         \/ \E w \in Workers, r \in Runs : Submit(w, r)
         \/ \E w \in Workers : Crash(w) \/ Shutdown(w) \/ CancelTasks(w) \/ Restart(w)
         \/ LeaseExpire \/ LockExpire \/ TtlLapse
  PROVE  Exclusion'
<1>0. spc \in [Workers -> SweepPc] /\ pc \in [Runs -> RunPc] /\ host \in [Runs -> Workers \cup {NoOne}]
      /\ up \in [Workers -> {"serving", "stopping", "stopped"}]
  BY DEF TypeOK, SweepsOK, TasksOK, MemoryOK
<1>1. ASSUME NEW w \in Workers, NEW r \in Runs, Submit(w, r) PROVE Exclusion'
  <2>1. /\ row = "none" /\ row' = "pending" /\ pc[r] = "idle" /\ pc' = [pc EXCEPT ![r] = "accepted"]
        /\ UNCHANGED <<lease, lock, up, keeper, spc>>
    BY <1>1 DEF Submit, Spawn, Goto, sweeps
  <2>2. /\ lease = Free /\ \A q \in Runs : pc[q] \notin Live
        /\ \A v \in Workers : spc[v] \notin Handling \cup {"claim"}
    BY <2>1 DEF Exclusion, Unborn
  <2>3. \A q \in Runs : pc'[q] = IF q = r THEN "accepted" ELSE pc[q]
    BY <1>0, <2>1
  <2>4. LockHeld'
    BY <2>1 DEF Exclusion, LockHeld, SweepToken
  <2>5. LeaseHeld' /\ Alone'
    BY <2>1, <2>2, <2>3 DEF Exclusion, LeaseHeld, Alone, Free
  <2>6. ClaimHeld'
    BY <2>1, <2>2 DEF ClaimHeld, Claiming, Deciding, Handling
  <2> QED BY <2>1, <2>4, <2>5, <2>6 DEF Exclusion, Unborn
<1>2. ASSUME NEW w \in Workers, Crash(w) PROVE Exclusion'
  <2>1. /\ row' = row /\ host' = host
        /\ up' = [up EXCEPT ![w] = "serving"] /\ spc' = [spc EXCEPT ![w] = "idle"]
        /\ lease' = Orphan(lease, w) /\ lock' = Orphan(lock, w)
        /\ \A r \in Runs : pc'[r] = IF r \in Of(w) THEN "done" ELSE pc[r]
        /\ \A r \in Runs : keeper'[r] = IF r \in Of(w) THEN "none" ELSE keeper[r]
    BY <1>2 DEF Crash, SweepGoto
  <2>2. \A r \in Runs : pc'[r] \in Live => pc[r] \in Live /\ pc'[r] = pc[r] /\ host[r] # w
    BY <2>1 DEF Of, Live, Working, Ending
  <2>3. \A v \in Workers : spc'[v] = IF v = w THEN "idle" ELSE spc[v]
    BY <1>0, <2>1
  <2>4. LockHeld'
    BY <1>0, <2>1, <2>3 DEF Exclusion, LockHeld, SweepToken, Orphan
  <2>5. LeaseHeld'
    <3>1. ASSUME NEW r \in Runs, pc'[r] \in Live
          PROVE  /\ pc'[r] = "accepted" => lease' = Free
                 /\ pc'[r] # "accepted" => keeper'[r] = "held" /\ lease' = RunToken(host'[r])
      <4>1. pc[r] \in Live /\ pc'[r] = pc[r] /\ host[r] # w /\ keeper'[r] = keeper[r]
        BY <2>1, <2>2, <3>1 DEF Of
      <4> QED BY <2>1, <4>1, RunHolds DEF Orphan, RunToken, Free
    <3>2. \A r \in Runs : pc'[r] \in {"idle", "accepted"} => keeper'[r] = "none"
      BY <2>1 DEF Exclusion, LeaseHeld
    <3>3. "accepted" \in Live
      BY DEF Live
    <3> QED BY <3>1, <3>2, <3>3 DEF LeaseHeld
  <2>6. ClaimHeld'
    BY <2>1, <2>2, <2>3 DEF Exclusion, ClaimHeld, Claiming, Deciding, Handling, Orphan, ClaimToken
  <2>7. Alone'
    BY <2>2 DEF Exclusion, Alone
  <2>8. Unborn'
    BY <2>1, <2>2, <2>3 DEF Exclusion, Unborn, Handling, Orphan, Free
  <2> QED BY <2>4, <2>5, <2>6, <2>7, <2>8 DEF Exclusion
<1>3. ASSUME NEW w \in Workers, Shutdown(w) PROVE Exclusion'
  <2>1. /\ UNCHANGED <<row, lease, lock, pc, host, keeper>>
        /\ up' = [up EXCEPT ![w] = "stopping"]
        /\ spc' = [spc EXCEPT ![w] = SweepCancelled(spc[w])]
    BY <1>3 DEF Shutdown, SweepGoto, redis, tasks
  <2>2. /\ SweepCancelled(spc[w]) \in {"unlock", "drop", "idle"}
        /\ SweepCancelled(spc[w]) = "drop" => spc[w] \in Handling
        /\ spc[w] = "idle" => SweepCancelled(spc[w]) = "idle"
    BY DEF SweepCancelled, Handling
  <2>3. \A v \in Workers : spc'[v] = IF v = w THEN SweepCancelled(spc[w]) ELSE spc[v]
    BY <1>0, <2>1
  <2>4. LockHeld'
    BY <1>0, <2>1, <2>2, <2>3 DEF Exclusion, LockHeld, SweepToken
  <2>5. LeaseHeld' /\ Alone'
    BY <2>1 DEF Exclusion, LeaseHeld, Alone, RunToken
  <2>6. ClaimHeld'
    BY <2>1, <2>2, <2>3 DEF Exclusion, ClaimHeld, Claiming, Deciding, Handling, ClaimToken
  <2>7. Unborn'
    BY <2>1, <2>2, <2>3 DEF Exclusion, Unborn, Handling
  <2> QED BY <2>4, <2>5, <2>6, <2>7 DEF Exclusion
<1>4. ASSUME NEW w \in Workers, CancelTasks(w) PROVE Exclusion'
  <2>1. /\ UNCHANGED <<row, lease, lock, spc, host>> /\ spc[w] = "idle"
        /\ up' = [up EXCEPT ![w] = "stopped"]
        /\ \A r \in Runs : pc'[r] = IF r \in Of(w) THEN Interrupted(pc[r]) ELSE pc[r]
        /\ \A r \in Runs : keeper'[r] =
             IF r \in Of(w) /\ Interrupted(pc[r]) = "done" THEN "none" ELSE keeper[r]
    BY <1>4 DEF CancelTasks, redis, sweeps
  <2>2. \A p \in Live : /\ Interrupted(p) \in {"done", "release", "persist"}
                        /\ p = "accepted" => Interrupted(p) = "done"
    BY DEF Interrupted, Live, Working, Ending
  <2>3. \A r \in Runs : pc'[r] \in Live =>
          /\ pc[r] \in Live /\ keeper'[r] = keeper[r]
          /\ pc'[r] = "accepted" <=> pc[r] = "accepted"
    BY <2>1, <2>2 DEF Of, Live, Working, Ending
  <2>4. LockHeld'
    BY <1>0, <2>1 DEF Exclusion, LockHeld, SweepToken
  <2>5. LeaseHeld'
    <3>1. \A r \in Runs : pc'[r] \in {"idle", "accepted"} => keeper'[r] = "none"
      BY <2>1, <2>2 DEF Exclusion, LeaseHeld, Of
    <3>2. "accepted" \in Live
      BY DEF Live
    <3> QED BY <2>1, <2>3, <3>1, <3>2, RunHolds DEF LeaseHeld, RunToken
  <2>6. ClaimHeld' /\ Alone' /\ Unborn'
    BY <2>1, <2>3 DEF Exclusion, ClaimHeld, ClaimToken, Alone, Unborn
  <2> QED BY <2>4, <2>5, <2>6 DEF Exclusion
<1>5. ASSUME NEW w \in Workers, Restart(w) PROVE Exclusion'
  <2>1. /\ UNCHANGED <<row, lock, spc, pc, host, keeper>> /\ up[w] = "stopped" /\ Of(w) = {}
        /\ up' = [up EXCEPT ![w] = "serving"]
        /\ lease' = Orphan(lease, w)
    BY <1>5 DEF Restart, tasks, sweeps
  <2>2. spc[w] = "idle" /\ \A r \in Runs : pc[r] \in Live => host[r] # w
    BY <2>1 DEF Exclusion, LockHeld, Of
  <2>3. LockHeld'
    BY <1>0, <2>1 DEF Exclusion, LockHeld, SweepToken
  <2>4. LeaseHeld'
    <3>1. \A r \in Runs : pc[r] \in Live /\ pc[r] # "accepted" => lease' = lease
      BY <2>1, <2>2, RunHolds DEF Orphan, RunToken
    <3>2. lease = Free => lease' = Free
      BY <2>1 DEF Orphan, Free
    <3> QED BY <2>1, <3>1, <3>2 DEF Exclusion, LeaseHeld, RunToken
  <2>5. ClaimHeld'
    BY <2>1, <2>2 DEF Exclusion, ClaimHeld, Claiming, ClaimToken, Orphan
  <2>6. Alone' /\ Unborn'
    BY <2>1 DEF Exclusion, Alone, Unborn, Orphan, Free
  <2> QED BY <2>3, <2>4, <2>5, <2>6 DEF Exclusion
<1>6. ASSUME LeaseExpire PROVE Exclusion'
  <2>1. /\ ~Kept(lease) /\ lease' = Free
        /\ UNCHANGED <<row, lock, up, spc, pc, host, keeper>>
    BY <1>6 DEF LeaseExpire, memory, tasks, sweeps
  <2>2. \A r \in Runs : pc[r] \in Live => pc[r] = "accepted"
    BY <2>1, RunHolds DEF Kept, Of, RunToken
  <2>3. \A w \in Workers : spc[w] \notin Claiming
    BY <2>1, SweepHolds DEF Kept, Claiming, Handling, ClaimToken
  <2>4. LockHeld' /\ Alone' /\ Unborn'
    BY <2>1 DEF Exclusion, LockHeld, SweepToken, Alone, Unborn
  <2>5. LeaseHeld'
    BY <2>1, <2>2 DEF Exclusion, LeaseHeld
  <2>6. ClaimHeld'
    BY <2>1, <2>3 DEF Exclusion, ClaimHeld
  <2> QED BY <2>4, <2>5, <2>6 DEF Exclusion
<1>7. ASSUME LockExpire PROVE Exclusion'
  <2>1. /\ ~Kept(lock)
        /\ UNCHANGED <<row, lease, up, spc, pc, host, keeper>>
    BY <1>7 DEF LockExpire, memory, tasks, sweeps
  <2>2. \A w \in Workers : spc[w] = "idle"
    BY <2>1 DEF Exclusion, LockHeld, Kept, SweepToken
  <2>3. LockHeld'
    BY <2>1, <2>2 DEF LockHeld
  <2>4. LeaseHeld' /\ ClaimHeld' /\ Alone' /\ Unborn'
    BY <2>1 DEF Exclusion, LeaseHeld, ClaimHeld, Alone, Unborn, RunToken, ClaimToken
  <2> QED BY <2>3, <2>4 DEF Exclusion
<1>8. ~TtlLapse
  BY NoStall DEF TtlLapse, TypeOK
<1> QED BY <1>1, <1>2, <1>3, <1>4, <1>5, <1>6, <1>7, <1>8

\* What has been overtaken stays so, and no fault is forgotten.
LEMMA HistoryGrows ==
  ASSUME TypeOK, [Next]_vars
  PROVE  (overtaken => overtaken') /\ faults' >= faults
<1> DEFINE Grows == (overtaken => overtaken') /\ faults' >= faults
           Booked == UNCHANGED bounds \/ \E op \in Ops : Fault(op) \/ Stall
<1>0. faults \in Nat
  BY DEF TypeOK, BoundsOK
<1>a. Booked => Grows
  BY <1>0 DEF Fault, Stall, bounds
<1>1. ASSUME NEW r \in Runs, RunStep(r) PROVE Booked
  <2>1. CASE \/ AcquireLease(r) \/ RetryAcquire(r) \/ LeaseLost(r) \/ TakePermit(r) \/ Pause(r)
             \/ Subscribe(r) \/ Wake(r) \/ ParkTimeout(r) \/ Finish(r) \/ JobTimeout(r)
    BY <2>1 DEF AcquireLease, RetryAcquire, LeaseLost, TakePermit, Pause, Subscribe, Wake,
       ParkTimeout, Finish, JobTimeout, Ops
  <2>2. CASE \/ StartWrite(r) \/ ParkWrite(r) \/ UnparkWrite(r) \/ PersistCheck(r)
             \/ PersistWrite(r) \/ PersistGiveUp(r) \/ FrameCheck(r) \/ FramePublish(r)
             \/ ReleaseLease(r)
    BY <2>2 DEF StartWrite, ParkWrite, UnparkWrite, NonTerminalWrite, PersistCheck, PersistWrite,
       PersistGiveUp, FrameCheck, FramePublish, ReleaseLease, Ops
  <2> QED BY <1>1, <2>1, <2>2 DEF RunStep
<1>2. ASSUME NEW w \in Workers, SweepStart(w) \/ SweepStep(w) \/ SweepTimeout(w) PROVE Grows
  <2>1. CASE SweepClaim(w)
    <3>1. overtaken => overtaken'
      BY <2>1 DEF SweepClaim
    <3>2. faults' = faults
      BY <2>1 DEF SweepClaim
    <3> QED BY <1>0, <3>1, <3>2
  <2>2. ASSUME SweepStart(w) \/ SweepScan(w) \/ SweepReread(w) \/ SweepBump(w)
               \/ SweepRequeue(w) \/ SweepTimeout(w)
        PROVE  Booked
    BY <2>2 DEF SweepStart, SweepScan, SweepReread, SweepBump, SweepRequeue, SweepTimeout, Ops
  <2>3. ASSUME \/ (\E r \in Runs : SweepHandoff(w, r)) \/ SweepCas(w) \/ SweepFrameCheck(w)
               \/ SweepFramePublish(w) \/ SweepDrop(w) \/ SweepUnlock(w)
        PROVE  Booked
    BY <2>3 DEF SweepHandoff, SweepCas, SweepFrameCheck, SweepFramePublish, SweepDrop,
       SweepUnlock, Ops
  <2> QED BY <1>2, <1>a, <2>1, <2>2, <2>3 DEF SweepStep
<1>3. ASSUME NEW c \in Clients, ClientStep(c) PROVE Booked
  BY <1>3 DEF ClientStep, ResumeRead, ResumeWrite, ResumePublish, Ops
<1>4. ASSUME \/ \E w \in Workers, r \in Runs : Submit(w, r)
             \/ LeaseExpire \/ LockExpire \/ TtlLapse
             \/ \E w \in Workers : CancelTasks(w) \/ Restart(w)
      PROVE  Booked
  <2>1. "get" \in Ops
    BY DEF Ops
  <2> QED BY <1>4, <2>1 DEF Submit, CancelTasks, Restart, LeaseExpire, LockExpire, TtlLapse
<1>5. ASSUME NEW w \in Workers, Crash(w) \/ Shutdown(w) PROVE Grows
  BY <1>0, <1>5 DEF Crash, Shutdown
<1>6. CASE UNCHANGED vars
  BY <1>a, <1>6 DEF vars
<1> QED BY <1>a, <1>1, <1>2, <1>3, <1>4, <1>5, <1>6 DEF Next

\* The invariant behind every promise of the lease, the claim and the lock, for
\* as long as no sweep has come between the creation of the row, or a hand-off,
\* and the SET NX of the run that follows it.
THEOREM Excludes == ASSUME Prompt PROVE Spec => [](overtaken \/ Exclusion)
<1>1. Init => Exclusion
  BY DEF Init, Exclusion, LockHeld, LeaseHeld, ClaimHeld, Alone, Unborn,
     Claiming, Deciding, Handling, Live, Working, Ending
<1>2. TypeOK /\ Exclusion /\ [Next]_vars => overtaken' \/ Exclusion'
  <2>1. ASSUME TypeOK, Exclusion, Next, ~overtaken' PROVE Exclusion'
    BY <2>1, RunStepExclusion, SweepStepExclusion, ClientStepExclusion, WorldStepExclusion DEF Next
  <2>2. ASSUME Exclusion, UNCHANGED vars PROVE Exclusion'
    BY <2>2 DEF vars, redis, memory, tasks, sweeps, Exclusion, LockHeld, LeaseHeld, ClaimHeld,
       Alone, Unborn, SweepToken, RunToken, ClaimToken
  <2> QED BY <2>1, <2>2
<1> QED BY <1>1, <1>2, HistoryGrows, TypeCorrect, PTL DEF Spec

-----------------------------------------------------------------------------
(* A run that holds the lease keeps it, overtaken or not.                  *)

\* A live run holds the lease and refreshes it, or it has no keeper.
LeaseKept ==
  \A r \in Runs :
    /\ pc[r] \in {"idle", "accepted"} => keeper[r] = "none"
    /\ pc[r] \in Live => keeper[r] \in {"none", "held"}
    /\ pc[r] \in Live /\ keeper[r] = "held" => lease = RunToken(host[r])

\* One run holds it, also among those of one worker, which share a token.
OneKeeper ==
  \A r, q \in Runs :
    pc[r] \in Live /\ pc[q] \in Live /\ keeper[r] = "held" /\ keeper[q] = "held" => r = q

\* A sweep that may still requeue has its claim; one that decides has it too,
\* unless the release before the hand-off has raised.
ClaimKept ==
  \A w \in Workers :
    /\ spc[w] \in Claiming => lease = ClaimToken(w)
    /\ spc[w] \in Deciding => faults > 0 \/ lease = ClaimToken(w)

Keeping == LockHeld /\ LeaseKept /\ OneKeeper /\ ClaimKept

\* No step gives a sweep under way the lock of another, or a stopped worker a
\* sweep.
LEMMA LockStep ==
  ASSUME Prompt, TypeOK, LockHeld, Next
  PROVE  LockHeld'
<1>0. spc \in [Workers -> SweepPc] /\ up \in [Workers -> {"serving", "stopping", "stopped"}]
  BY DEF TypeOK, SweepsOK, MemoryOK
<1>1. ASSUME UNCHANGED <<up, spc, lock>> PROVE LockHeld'
  BY <1>1 DEF LockHeld, SweepToken
<1>2. ASSUME NEW r \in Runs, RunStep(r) PROVE UNCHANGED <<up, spc, lock>>
  <2>1. CASE AcquireLease(r) \/ RetryAcquire(r) \/ LeaseLost(r) \/ ReleaseLease(r)
    BY <2>1 DEF AcquireLease, RetryAcquire, LeaseLost, ReleaseLease, redis, memory, sweeps
  <2> QED BY <1>2, <2>1, LeaseLeftAlone DEF RunStep, BetweenLeases
<1>3. ASSUME NEW c \in Clients, ClientStep(c) PROVE UNCHANGED <<up, spc, lock>>
  BY <1>3 DEF ClientStep, ResumeRead, ResumeWrite, ResumePublish, redis, memory, sweeps
<1>4. ASSUME NEW w \in Workers, NEW r \in Runs, Submit(w, r) PROVE UNCHANGED <<up, spc, lock>>
  BY <1>4 DEF Submit, sweeps
<1>5. ASSUME NEW w \in Workers, SweepStart(w) PROVE LockHeld'
  <2>1. /\ lock = Free /\ lock' = SweepToken(w) /\ up[w] = "serving"
        /\ spc' = [spc EXCEPT ![w] = "scan"] /\ UNCHANGED up
    BY <1>5 DEF SweepStart, SweepGoto, memory
  <2>2. \A v \in Workers : spc[v] = "idle"
    BY <2>1 DEF LockHeld, SweepToken, Free
  <2> QED BY <1>0, <2>1, <2>2 DEF LockHeld, SweepToken
<1>6. ASSUME NEW w \in Workers, SweepStep(w) PROVE LockHeld'
  <2>1. CASE SweepUnlock(w)
    <3>1. spc[w] = "unlock" /\ spc' = [spc EXCEPT ![w] = "idle"] /\ UNCHANGED up
      BY <2>1 DEF SweepUnlock, SweepGoto, memory
    <3>2. \A v \in Workers : spc'[v] = "idle"
      BY <1>0, <3>1, OneSweep
    <3> QED BY <3>2 DEF LockHeld
  <2>2. ASSUME \/ SweepScan(w) \/ SweepClaim(w) \/ SweepReread(w) \/ SweepBump(w) \/ SweepRequeue(w)
               \/ (\E r \in Runs : SweepHandoff(w, r)) \/ SweepCas(w) \/ SweepFrameCheck(w)
               \/ SweepFramePublish(w) \/ SweepDrop(w)
        PROVE  LockHeld'
    <3>1. spc[w] # "idle" /\ UNCHANGED <<up, lock>>
      BY <2>2 DEF SweepScan, SweepClaim, SweepReread, SweepBump, SweepRequeue, SweepHandoff,
         SweepCas, SweepFrameCheck, SweepFramePublish, SweepDrop, redis, memory
    <3>2. \E p \in SweepPc : spc' = [spc EXCEPT ![w] = p]
      <4>1. Handling \cup {"unlock", "claim"} \subseteq SweepPc
        BY DEF SweepPc
      <4> QED BY <2>2, <4>1 DEF SweepScan, SweepClaim, SweepReread, SweepBump, SweepRequeue,
              SweepHandoff, SweepCas, SweepFrameCheck, SweepFramePublish, SweepDrop, Condemn,
              SweepGoto, Handling
    <3> QED BY <1>0, <3>1, <3>2 DEF LockHeld, SweepToken
  <2> QED BY <1>6, <2>1, <2>2 DEF SweepStep
<1>7. ASSUME NEW w \in Workers, SweepTimeout(w) PROVE FALSE
  BY <1>7, NoStall DEF SweepTimeout, TypeOK
<1>8. ASSUME NEW w \in Workers, Crash(w) PROVE LockHeld'
  BY <1>0, <1>8 DEF Crash, SweepGoto, LockHeld, SweepToken, Orphan
<1>9. ASSUME NEW w \in Workers, Shutdown(w) PROVE LockHeld'
  <2>1. /\ up[w] = "serving" /\ up' = [up EXCEPT ![w] = "stopping"] /\ UNCHANGED lock
        /\ spc' = [spc EXCEPT ![w] = SweepCancelled(spc[w])]
    BY <1>9 DEF Shutdown, SweepGoto, redis
  <2>2. spc[w] = "idle" => SweepCancelled(spc[w]) = "idle"
    BY DEF SweepCancelled, Handling
  <2> QED BY <1>0, <2>1, <2>2 DEF LockHeld, SweepToken
<1>10. ASSUME NEW w \in Workers, CancelTasks(w) \/ Restart(w) PROVE LockHeld'
  <2>1. UNCHANGED <<spc, lock>>
    BY <1>10 DEF CancelTasks, Restart, redis, sweeps
  <2>2. \/ spc[w] = "idle" /\ up' = [up EXCEPT ![w] = "stopped"]
        \/ up' = [up EXCEPT ![w] = "serving"]
    BY <1>10 DEF CancelTasks, Restart
  <2> QED BY <1>0, <2>1, <2>2 DEF LockHeld, SweepToken
<1>11. ASSUME LeaseExpire PROVE UNCHANGED <<up, spc, lock>>
  BY <1>11 DEF LeaseExpire, memory, sweeps
<1>12. ASSUME LockExpire PROVE LockHeld'
  <2>1. ~Kept(lock) /\ UNCHANGED <<up, spc>>
    BY <1>12 DEF LockExpire, memory, sweeps
  <2>2. \A w \in Workers : spc[w] = "idle"
    BY <2>1 DEF LockHeld, Kept, SweepToken
  <2> QED BY <2>1, <2>2 DEF LockHeld
<1>13. ASSUME TtlLapse PROVE FALSE
  BY <1>13, NoStall DEF TtlLapse, TypeOK
<1> QED
  BY <1>1, <1>2, <1>3, <1>4, <1>5, <1>6, <1>7, <1>8, <1>9, <1>10, <1>11, <1>12, <1>13 DEF Next

\* What a step has to show that gives the lease to nobody: who keeps it or
\* decides under it did so before, and it is still there.
LEMMA NobodyGains ==
  ASSUME TypeOK, Keeping, faults' >= faults, faults' \in Nat,
         \A r \in Runs :
           /\ pc'[r] \in {"idle", "accepted"} => keeper'[r] = "none"
           /\ pc'[r] \in Live => keeper'[r] \in {"none", "held"}
           /\ pc'[r] \in Live /\ keeper'[r] = "held" =>
                pc[r] \in Live /\ keeper[r] = "held" /\ host'[r] = host[r] /\ lease' = lease,
         \A w \in Workers :
           /\ spc'[w] \in Claiming => spc[w] \in Claiming /\ lease' = lease
           /\ spc'[w] \in Deciding => faults' > 0 \/ (spc[w] \in Deciding /\ lease' = lease)
  PROVE  LeaseKept' /\ OneKeeper' /\ ClaimKept'
<1>0. faults \in Nat
  BY DEF TypeOK, BoundsOK
<1>1. LeaseKept'
  BY DEF Keeping, LeaseKept, RunToken
<1>2. OneKeeper'
  BY DEF Keeping, OneKeeper
<1>3. ClaimKept'
  BY <1>0 DEF Keeping, ClaimKept, ClaimToken
<1> QED BY <1>1, <1>2, <1>3

\* A run keeps the lease it has taken from nobody, and gives up only its own.
LEMMA RunStepKeeping ==
  ASSUME Prompt, TypeOK, Keeping, NEW r \in Runs, RunStep(r), faults' >= faults, faults' \in Nat
  PROVE  LeaseKept' /\ OneKeeper' /\ ClaimKept'
<1>0. pc \in [Runs -> RunPc] /\ keeper \in [Runs -> {"none", "held", "retry", "lost"}]
  BY DEF TypeOK, TasksOK
<1>a. "done" \notin Live /\ "accepted" \in Live
  BY DEF Live, Working, Ending
<1>1. CASE AcquireLease(r)
  <2>1. /\ pc[r] = "accepted" /\ pc' = [pc EXCEPT ![r] = "queued"] /\ keeper[r] = "none"
        /\ UNCHANGED <<host, spc>>
    BY <1>1 DEF AcquireLease, Goto, sweeps, Keeping, LeaseKept
  <2>2. CASE lease # Free /\ UNCHANGED <<lease, keeper>>
    BY <1>0, <1>a, <2>1, <2>2, NobodyGains DEF Keeping, LeaseKept, ClaimKept
  <2>3. CASE lease = Free /\ lease' = RunToken(host[r]) /\ keeper' = [keeper EXCEPT ![r] = "held"]
    <3>1. \A q \in Runs : ~(pc[q] \in Live /\ keeper[q] = "held")
      BY <2>3 DEF Keeping, LeaseKept, RunToken, Free
    <3>2. \A w \in Workers : spc[w] \notin Claiming /\ (spc[w] \in Deciding => faults > 0)
      BY <2>3 DEF Keeping, ClaimKept, ClaimToken, Free
    <3>3. LeaseKept' /\ OneKeeper'
      BY <1>0, <2>1, <2>3, <3>1 DEF Keeping, LeaseKept, OneKeeper, RunToken
    <3>4. ClaimKept'
      BY <2>1, <3>2 DEF ClaimKept, TypeOK, BoundsOK
    <3> QED BY <3>3, <3>4
  <2> QED BY <1>1, <2>2, <2>3 DEF AcquireLease, Fault, Prompt
<1>2. CASE RetryAcquire(r) \/ LeaseLost(r)
  BY <1>2 DEF RetryAcquire, LeaseLost, Keeping, LeaseKept
<1>3. CASE ReleaseLease(r)
  <2>1. /\ pc[r] = "release" /\ pc' = [pc EXCEPT ![r] = "done"]
        /\ keeper' = [keeper EXCEPT ![r] = "none"] /\ UNCHANGED <<host, spc>>
        /\ lease' = lease \/ (lease' = Free /\ keeper[r] # "none" /\ lease = RunToken(host[r]))
    BY <1>3 DEF ReleaseLease, Goto, sweeps
  <2>2. pc[r] \in Live
    BY <2>1 DEF Live, Ending
  <2>3. CASE lease' = lease
    BY <1>0, <1>a, <2>1, <2>3, NobodyGains DEF Keeping, LeaseKept, ClaimKept
  <2>4. CASE lease' = Free /\ keeper[r] # "none" /\ lease = RunToken(host[r])
    <3>1. \A q \in Runs \ {r} : ~(pc[q] \in Live /\ keeper[q] = "held")
      BY <2>2, <2>4 DEF Keeping, LeaseKept, OneKeeper
    <3>2. \A w \in Workers : spc[w] \notin Claiming /\ (spc[w] \in Deciding => faults > 0)
      BY <2>4 DEF Keeping, ClaimKept, ClaimToken, RunToken
    <3>3. LeaseKept' /\ OneKeeper'
      BY <1>0, <1>a, <2>1, <3>1 DEF Keeping, LeaseKept, OneKeeper
    <3>4. ClaimKept'
      BY <2>1, <3>2 DEF ClaimKept, TypeOK, BoundsOK
    <3> QED BY <3>3, <3>4
  <2> QED BY <2>1, <2>3, <2>4
<1>4. CASE BetweenLeases(r)
  <2>1. /\ pc[r] \in Live /\ UNCHANGED <<spc, host, lease, keeper>>
        /\ \E p \in Working \cup Ending : pc' = [pc EXCEPT ![r] = p]
    BY <1>4, LeaseLeftAlone DEF Live
  <2>2. \A q \in Runs : /\ pc'[q] \in {"idle", "accepted"} => pc[q] \in {"idle", "accepted"}
                        /\ pc'[q] \in Live => pc[q] \in Live
    BY <1>0, <2>1 DEF Working, Ending
  <2> QED BY <2>1, <2>2, NobodyGains DEF Keeping, LeaseKept, ClaimKept
<1> QED BY <1>1, <1>2, <1>3, <1>4 DEF RunStep, BetweenLeases

\* A sweep takes the claim from nobody, and drops only its own.
LEMMA SweepStepKeeping ==
  ASSUME Prompt, TypeOK, Keeping, NEW w \in Workers,
         SweepStart(w) \/ SweepStep(w) \/ SweepTimeout(w), faults' >= faults, faults' \in Nat
  PROVE  LeaseKept' /\ OneKeeper' /\ ClaimKept'
<1>0. /\ spc \in [Workers -> SweepPc] /\ pc \in [Runs -> RunPc] /\ host \in [Runs -> Workers \cup {NoOne}]
      /\ faults \in Nat
  BY DEF TypeOK, SweepsOK, TasksOK, BoundsOK
<1>1. ASSUME SweepStart(w) \/ SweepScan(w) \/ SweepUnlock(w)
      PROVE  LeaseKept' /\ OneKeeper' /\ ClaimKept'
  <2>1. /\ UNCHANGED <<lease, pc, host, keeper>>
        /\ \E p \in {"scan", "claim", "unlock", "idle"} : spc' = [spc EXCEPT ![w] = p]
    BY <1>1 DEF SweepStart, SweepScan, SweepUnlock, SweepGoto, redis, tasks
  <2>2. \A v \in Workers : spc'[v] \in Deciding => spc'[v] = spc[v]
    BY <1>0, <2>1 DEF Deciding, Handling
  <2>3. Claiming \subseteq Deciding
    BY DEF Claiming, Deciding, Handling
  <2> QED BY <2>1, <2>2, <2>3, NobodyGains DEF Keeping, LeaseKept
<1>2. CASE SweepClaim(w)
  <2>1. /\ spc[w] = "claim" /\ UNCHANGED <<pc, host, keeper>>
        /\ \/ lease = Free /\ lease' = ClaimToken(w) /\ spc' = [spc EXCEPT ![w] = "reread"]
           \/ spc' = [spc EXCEPT ![w] = "unlock"] /\ UNCHANGED lease
    BY <1>2 DEF SweepClaim, SweepGoto, tasks
  <2>2. CASE spc' = [spc EXCEPT ![w] = "unlock"] /\ UNCHANGED lease
    <3>1. \A v \in Workers : spc'[v] \in Deciding => spc'[v] = spc[v]
      BY <1>0, <2>2 DEF Deciding, Handling
    <3>2. Claiming \subseteq Deciding
      BY DEF Claiming, Deciding, Handling
    <3> QED BY <2>1, <2>2, <3>1, <3>2, NobodyGains DEF Keeping, LeaseKept
  <2>3. CASE lease = Free /\ lease' = ClaimToken(w) /\ spc' = [spc EXCEPT ![w] = "reread"]
    <3>1. \A q \in Runs : ~(pc[q] \in Live /\ keeper[q] = "held")
      BY <2>3 DEF Keeping, LeaseKept, RunToken, Free
    <3>2. \A v \in Workers \ {w} : spc'[v] = "idle"
      BY <1>0, <2>1, <2>3, OneSweep DEF Keeping
    <3>3. LeaseKept' /\ OneKeeper'
      BY <2>1, <3>1 DEF Keeping, LeaseKept, OneKeeper
    <3>4. ClaimKept'
      BY <1>0, <2>3, <3>2 DEF ClaimKept, ClaimToken, Claiming, Deciding, Handling
    <3> QED BY <3>3, <3>4
  <2> QED BY <2>1, <2>2, <2>3
<1>3. ASSUME \/ SweepReread(w) \/ SweepBump(w) \/ SweepRequeue(w) \/ SweepCas(w)
             \/ SweepFrameCheck(w) \/ SweepFramePublish(w)
      PROVE  LeaseKept' /\ OneKeeper' /\ ClaimKept'
  <2>1. UNCHANGED <<lease, pc, host, keeper>>
    BY <1>3 DEF SweepReread, SweepBump, SweepRequeue, SweepCas, SweepFrameCheck,
       SweepFramePublish, redis, tasks
  <2>2. /\ spc[w] \in Deciding
        /\ \E p \in {"drop", "bump", "cas", "unlock", "requeue", "handoff", "frame", "publishing"} :
             /\ spc' = [spc EXCEPT ![w] = p]
             /\ p \in Claiming => spc[w] \in Claiming
    BY <1>3 DEF SweepReread, SweepBump, SweepRequeue, SweepCas, SweepFrameCheck,
       SweepFramePublish, Condemn, SweepGoto, Deciding, Handling, Claiming
  <2>3. \A v \in Workers : /\ spc'[v] \in Claiming => spc[v] \in Claiming
                           /\ spc'[v] \in Deciding => spc[v] \in Deciding
    BY <1>0, <2>2
  <2> QED BY <2>1, <2>3, NobodyGains DEF Keeping, LeaseKept
<1>4. CASE \E r \in Runs : SweepHandoff(w, r)
  <2> PICK r \in Runs : SweepHandoff(w, r)
    BY <1>4
  <2>1. spc[w] = "handoff" /\ lease = ClaimToken(w) /\ \A v \in Workers \ {w} : spc[v] = "idle"
    BY OneSweep DEF SweepHandoff, Keeping, ClaimKept, Claiming
  <2>2. \A q \in Runs : ~(pc[q] \in Live /\ keeper[q] = "held")
    BY <2>1 DEF Keeping, LeaseKept, RunToken, ClaimToken
  <2>3. CASE Fault("release") /\ Condemn(w, tgt[w], SweepStatus(w), FALSE) /\ UNCHANGED tasks
    <3>1. faults' > 0 /\ spc' = [spc EXCEPT ![w] = "cas"] /\ UNCHANGED <<pc, host, keeper>>
      BY <1>0, <2>3 DEF Fault, Condemn, SweepGoto, tasks
    <3>2. \A v \in Workers : spc'[v] \notin Claiming
      BY <1>0, <2>1, <3>1 DEF Claiming
    <3> QED BY <2>2, <3>1, <3>2, NobodyGains DEF Keeping, LeaseKept
  <2>4. CASE Spawn(r, w, IF tgt[w] = NoOne THEN r ELSE tgt[w]) /\ SweepGoto(w, "drop")
    <3>1. /\ pc[r] = "idle" /\ pc' = [pc EXCEPT ![r] = "accepted"] /\ UNCHANGED keeper
          /\ spc' = [spc EXCEPT ![w] = "drop"] /\ keeper[r] = "none"
      BY <2>4 DEF Spawn, Goto, SweepGoto, Keeping, LeaseKept
    <3>2. \A q \in Runs : pc'[q] = IF q = r THEN "accepted" ELSE pc[q]
      BY <1>0, <3>1
    <3>3. \A v \in Workers : spc'[v] \notin Deciding /\ spc'[v] \notin Claiming
      BY <1>0, <2>1, <3>1 DEF Claiming, Deciding, Handling
    <3> QED BY <2>2, <3>1, <3>2, <3>3, NobodyGains DEF Keeping, LeaseKept
  <2> QED BY <2>3, <2>4 DEF SweepHandoff
<1>5. CASE SweepDrop(w)
  <2>1. /\ spc[w] = "drop" /\ spc' = [spc EXCEPT ![w] = "unlock"]
        /\ lease' \in {lease, Unclaimed(w)} /\ UNCHANGED <<pc, host, keeper>>
    BY <1>5 DEF SweepDrop, SweepGoto, tasks
  <2>2. \A v \in Workers : spc'[v] \notin Deciding /\ spc'[v] \notin Claiming
    BY <1>0, <2>1, OneSweep DEF Keeping, Claiming, Deciding, Handling
  <2>3. \A r \in Runs : pc[r] \in Live /\ keeper[r] = "held" => lease' = lease
    BY <2>1 DEF Keeping, LeaseKept, Unclaimed, RunToken, ClaimToken
  <2> QED BY <2>1, <2>2, <2>3, NobodyGains DEF Keeping, LeaseKept
<1>6. ~SweepTimeout(w)
  BY NoStall DEF SweepTimeout, TypeOK
<1> QED BY <1>1, <1>2, <1>3, <1>4, <1>5, <1>6 DEF SweepStep

\* A resume request has no lease to give.
LEMMA ClientStepKeeping ==
  ASSUME TypeOK, Keeping, NEW c \in Clients, ClientStep(c), faults' >= faults, faults' \in Nat
  PROVE  LeaseKept' /\ OneKeeper' /\ ClaimKept'
<1>1. UNCHANGED <<lease, spc, host, keeper>>
  BY DEF ClientStep, ResumeRead, ResumeWrite, ResumePublish, redis, tasks, sweeps
<1>2. \A r \in Runs : pc'[r] = pc[r] \/ (pc[r] = "parked" /\ pc'[r] = "hydrated")
  BY DEF ClientStep, ResumeRead, ResumeWrite, ResumePublish, tasks
<1>3. \A r \in Runs : /\ pc'[r] \in Live => pc[r] \in Live
                      /\ pc'[r] \in {"idle", "accepted"} => pc[r] \in {"idle", "accepted"}
  BY <1>2 DEF Live, Working
<1> QED BY <1>1, <1>3, NobodyGains DEF Keeping, LeaseKept

\* A token somebody keeps does not expire; one dies with its process, and with
\* it the run that kept it.
LEMMA WorldStepKeeping ==
  ASSUME Prompt, TypeOK, Keeping,
         \/ \E w \in Workers, r \in Runs : Submit(w, r)
         \/ \E w \in Workers : Crash(w) \/ Shutdown(w) \/ CancelTasks(w) \/ Restart(w)
         \/ LeaseExpire \/ LockExpire \/ TtlLapse,
         faults' >= faults, faults' \in Nat
  PROVE  LeaseKept' /\ OneKeeper' /\ ClaimKept'
<1>0. spc \in [Workers -> SweepPc] /\ pc \in [Runs -> RunPc] /\ host \in [Runs -> Workers \cup {NoOne}]
      /\ faults \in Nat
  BY DEF TypeOK, SweepsOK, TasksOK, BoundsOK
<1>a. Claiming \subseteq Deciding /\ "idle" \notin Deciding
  BY DEF Claiming, Deciding, Handling
<1>b. \A v \in Workers : spc[v] \in Deciding => faults' > 0 \/ lease = ClaimToken(v)
  BY <1>0 DEF Keeping, ClaimKept
<1>c. \A r \in Runs : pc[r] \in Live /\ keeper[r] = "held" => lease = RunToken(host[r])
  BY DEF Keeping, LeaseKept
<1>1. ASSUME NEW w \in Workers, NEW r \in Runs, Submit(w, r)
      PROVE  LeaseKept' /\ OneKeeper' /\ ClaimKept'
  <2>1. /\ pc[r] = "idle" /\ pc' = [pc EXCEPT ![r] = "accepted"] /\ host' = [host EXCEPT ![r] = w]
        /\ keeper[r] = "none" /\ UNCHANGED <<lease, keeper, spc>>
    BY <1>1 DEF Submit, Spawn, Goto, sweeps, Keeping, LeaseKept
  <2>2. \A q \in Runs : q # r => pc'[q] = pc[q] /\ host'[q] = host[q]
    BY <1>0, <2>1
  <2>3. pc'[r] = "accepted"
    BY <1>0, <2>1
  <2> QED BY <2>1, <2>2, <2>3, NobodyGains DEF Keeping, LeaseKept
<1>2. ASSUME NEW w \in Workers, Crash(w)
      PROVE  LeaseKept' /\ OneKeeper' /\ ClaimKept'
  <2>1. /\ host' = host /\ spc' = [spc EXCEPT ![w] = "idle"] /\ lease' = Orphan(lease, w)
        /\ \A r \in Runs : pc'[r] = IF r \in Of(w) THEN "done" ELSE pc[r]
        /\ \A r \in Runs : keeper'[r] = IF r \in Of(w) THEN "none" ELSE keeper[r]
    BY <1>2 DEF Crash, SweepGoto
  <2>2. \A r \in Runs : pc'[r] \in Live =>
          pc[r] \in Live /\ pc'[r] = pc[r] /\ keeper'[r] = keeper[r] /\ host[r] # w
    BY <2>1 DEF Of, Live, Working, Ending
  <2>3. \A r \in Runs : pc'[r] \in {"idle", "accepted"} => keeper'[r] = "none"
    BY <2>1 DEF Keeping, LeaseKept
  <2>4. \A r \in Runs : pc'[r] \in Live /\ keeper'[r] = "held" => lease' = lease
    BY <1>c, <2>1, <2>2 DEF Orphan, RunToken
  <2>5. \A v \in Workers : v # w => spc'[v] = spc[v] /\ (lease = ClaimToken(v) => lease' = lease)
    BY <1>0, <2>1 DEF Orphan, ClaimToken
  <2>6. spc'[w] = "idle"
    BY <1>0, <2>1
  <2>7. \A v \in Workers : spc'[v] \in Claiming => spc[v] \in Claiming /\ lease' = lease
    BY <1>a, <2>5, <2>6 DEF Keeping, ClaimKept
  <2>8. \A v \in Workers : spc'[v] \in Deciding => faults' > 0 \/ (spc[v] \in Deciding /\ lease' = lease)
    BY <1>a, <1>b, <2>5, <2>6
  <2> QED BY <2>1, <2>2, <2>3, <2>4, <2>7, <2>8, NobodyGains DEF Keeping, LeaseKept
<1>3. ASSUME NEW w \in Workers, Shutdown(w)
      PROVE  LeaseKept' /\ OneKeeper' /\ ClaimKept'
  <2>1. UNCHANGED <<lease, pc, host, keeper>> /\ spc' = [spc EXCEPT ![w] = SweepCancelled(spc[w])]
    BY <1>3 DEF Shutdown, SweepGoto, redis, tasks
  <2>2. SweepCancelled(spc[w]) \notin Deciding
    BY DEF SweepCancelled, Deciding, Handling
  <2>3. \A v \in Workers : spc'[v] \in Deciding => spc'[v] = spc[v]
    BY <1>0, <2>1, <2>2
  <2> QED BY <1>a, <2>1, <2>3, NobodyGains DEF Keeping, LeaseKept
<1>4. ASSUME NEW w \in Workers, CancelTasks(w)
      PROVE  LeaseKept' /\ OneKeeper' /\ ClaimKept'
  <2>1. /\ UNCHANGED <<lease, spc, host>>
        /\ \A r \in Runs : pc'[r] = IF r \in Of(w) THEN Interrupted(pc[r]) ELSE pc[r]
        /\ \A r \in Runs : keeper'[r] =
             IF r \in Of(w) /\ Interrupted(pc[r]) = "done" THEN "none" ELSE keeper[r]
    BY <1>4 DEF CancelTasks, redis, sweeps
  <2>2. \A p \in Live : Interrupted(p) \in {"done", "release", "persist"}
    BY DEF Interrupted, Live, Working, Ending
  <2>3. \A r \in Runs : /\ pc'[r] \in Live => pc[r] \in Live /\ keeper'[r] = keeper[r]
                        /\ pc'[r] \in {"idle", "accepted"} => keeper'[r] = keeper[r] /\ pc'[r] = pc[r]
    BY <2>1, <2>2 DEF Of, Live, Working, Ending
  <2> QED BY <2>1, <2>3, NobodyGains DEF Keeping, LeaseKept
<1>5. ASSUME NEW w \in Workers, Restart(w)
      PROVE  LeaseKept' /\ OneKeeper' /\ ClaimKept'
  <2>1. /\ UNCHANGED <<spc, pc, host, keeper>> /\ up[w] = "stopped" /\ Of(w) = {}
        /\ lease' = Orphan(lease, w)
    BY <1>5 DEF Restart, tasks, sweeps
  <2>2. spc[w] = "idle" /\ \A r \in Runs : pc[r] \in Live => host[r] # w
    BY <2>1 DEF Keeping, LockHeld, Of
  <2>3. \A r \in Runs : pc[r] \in Live /\ keeper[r] = "held" => lease' = lease
    BY <1>c, <2>1, <2>2 DEF Orphan, RunToken
  <2>4. \A v \in Workers : spc[v] # "idle" /\ lease = ClaimToken(v) => lease' = lease
    BY <2>1, <2>2 DEF Orphan, ClaimToken
  <2>5. \A v \in Workers : /\ spc[v] \in Claiming => lease' = lease
                           /\ spc[v] \in Deciding => faults' > 0 \/ lease' = lease
    BY <1>a, <1>b, <2>4 DEF Keeping, ClaimKept
  <2> QED BY <2>1, <2>3, <2>5, NobodyGains DEF Keeping, LeaseKept
<1>6. ASSUME LeaseExpire
      PROVE  LeaseKept' /\ OneKeeper' /\ ClaimKept'
  <2>1. ~Kept(lease) /\ UNCHANGED <<spc, pc, host, keeper>>
    BY <1>6 DEF LeaseExpire, tasks, sweeps
  <2>2. \A r \in Runs : ~(pc[r] \in Live /\ keeper[r] = "held")
    BY <1>c, <2>1 DEF Kept, Of, RunToken
  <2>3. \A v \in Workers : spc[v] \in Deciding => lease # ClaimToken(v)
    BY <2>1 DEF Kept, Deciding, ClaimToken
  <2>4. \A v \in Workers : /\ spc[v] \notin Claiming
                           /\ spc[v] \in Deciding => faults' > 0
    BY <1>a, <1>b, <2>3 DEF Keeping, ClaimKept
  <2> QED BY <2>1, <2>2, <2>4, NobodyGains DEF Keeping, LeaseKept
<1>7. ASSUME LockExpire
      PROVE  LeaseKept' /\ OneKeeper' /\ ClaimKept'
  <2>1. UNCHANGED <<lease, spc, pc, host, keeper>>
    BY <1>7 DEF LockExpire, tasks, sweeps
  <2> QED BY <2>1, NobodyGains DEF Keeping, LeaseKept
<1>8. ~TtlLapse
  BY NoStall DEF TtlLapse, TypeOK
<1> QED BY <1>1, <1>2, <1>3, <1>4, <1>5, <1>6, <1>7, <1>8

\* The invariant behind a lease that is held, in every fleet where nobody
\* stalls: a sweep may overtake a run that has no lease, and never one that has.
LEMMA Keeps == ASSUME Prompt PROVE Spec => []Keeping
<1>1. Init => Keeping
  BY DEF Init, Keeping, LockHeld, LeaseKept, OneKeeper, ClaimKept, Claiming, Deciding,
     Handling, Live, Working, Ending
<1>2. TypeOK /\ TypeOK' /\ Keeping /\ [Next]_vars => Keeping'
  <2>1. ASSUME TypeOK, TypeOK', Keeping, Next PROVE Keeping'
    <3>1. faults' >= faults /\ faults' \in Nat
      BY <2>1, HistoryGrows DEF TypeOK, BoundsOK
    <3>2. LockHeld'
      BY <2>1, LockStep DEF Keeping
    <3>3. LeaseKept' /\ OneKeeper' /\ ClaimKept'
      BY <2>1, <3>1, RunStepKeeping, SweepStepKeeping, ClientStepKeeping, WorldStepKeeping DEF Next
    <3> QED BY <3>2, <3>3 DEF Keeping
  <2>2. ASSUME Keeping, UNCHANGED vars PROVE Keeping'
    BY <2>2 DEF vars, redis, memory, tasks, sweeps, bounds, Keeping, LockHeld, LeaseKept,
       OneKeeper, ClaimKept, SweepToken, RunToken, ClaimToken
  <2> QED BY <2>1, <2>2
<1> QED BY <1>1, <1>2, TypeCorrect, PTL DEF Spec

\* Nothing takes the lease from a run that keeps it, whatever sweeps overtake
\* other runs: neither a claim, nor an expiry, nor another run's release.
THEOREM KeptLeasesStay == ASSUME Prompt PROVE Spec => []KeptLeaseStays
<1>1. Keeping => KeptLeaseStays
  BY DEF Keeping, LeaseKept, KeptLeaseStays
<1> QED BY <1>1, Keeps, PTL

\* Two runs of the job live together only after an overtaking, which the code
\* does not prevent, and even then only one of them has the lease.
THEOREM RunsExcludeEachOther == ASSUME Prompt PROVE Spec => []OneRunner
<1>1. (overtaken \/ Exclusion) /\ Keeping => OneRunner
  BY DEF Exclusion, Alone, Keeping, OneKeeper, OneRunner
<1> QED BY <1>1, Excludes, Keeps, PTL

\* A sweep that decides about the job is alone in doing so, and a run that is
\* alive meanwhile is there by an overtaking and has no lease, unless the
\* release of a claim has raised.
THEOREM SweepsActOnOrphans == ASSUME Prompt PROVE Spec => []ReclaimsOrphansOnly
<1>1. ASSUME overtaken \/ Exclusion, Keeping PROVE ReclaimsOrphansOnly
  <2> SUFFICES ASSUME NEW w \in Workers, spc[w] \in Deciding
               PROVE  /\ \A v \in Workers \ {w} : spc[v] \notin Deciding
                      /\ \A r \in Runs : pc[r] \in Live =>
                           overtaken /\ (keeper[r] = "held" => faults > 0)
    BY DEF ReclaimsOrphansOnly, Deciding
  <2>1. "idle" \notin Deciding
    BY DEF Deciding, Handling
  <2>2. \A v \in Workers \ {w} : spc[v] \notin Deciding
    BY <1>1, <2>1, OneSweep DEF Keeping
  <2>3. ASSUME NEW r \in Runs, pc[r] \in Live PROVE overtaken
    BY <1>1, <2>3 DEF Exclusion, ClaimHeld
  <2>4. ASSUME NEW r \in Runs, pc[r] \in Live, keeper[r] = "held" PROVE faults > 0
    BY <1>1, <2>4 DEF Keeping, LeaseKept, ClaimKept, RunToken, ClaimToken
  <2> QED BY <2>2, <2>3, <2>4
<1> QED BY <1>1, Excludes, Keeps, PTL

-----------------------------------------------------------------------------
(* A reclaim never replaces an outcome.                                    *)

\* Under the default policy a sweep gets from its re-read straight to the
\* compare-and-set, and what it compares with is not an outcome.
Compares ==
  \A w \in Workers :
    /\ spc[w] \notin {"bump", "requeue", "handoff"}
    /\ spc[w] = "cas" => ~IsTerminal(seen[w])

\* Steps that are not a sweep's own leave the sweeps alone or stop one.
LEMMA OtherSteps ==
  ASSUME Next, \A w \in Workers : ~(SweepStart(w) \/ SweepStep(w) \/ SweepTimeout(w))
  PROVE  \/ UNCHANGED <<spc, seen>>
         \/ \E w \in Workers : Crash(w) \/ Shutdown(w)
<1>1. ASSUME NEW r \in Runs, RunStep(r) PROVE UNCHANGED <<spc, seen>>
  BY <1>1 DEF RunStep, AcquireLease, RetryAcquire, LeaseLost, TakePermit, StartWrite, Pause,
     ParkWrite, Subscribe, Wake, ParkTimeout, UnparkWrite, Finish, JobTimeout, PersistCheck,
     PersistWrite, PersistGiveUp, FrameCheck, FramePublish, ReleaseLease, NonTerminalWrite, sweeps
<1>2. ASSUME NEW c \in Clients, ClientStep(c) PROVE UNCHANGED <<spc, seen>>
  BY <1>2 DEF ClientStep, ResumeRead, ResumeWrite, ResumePublish, sweeps
<1>3. ASSUME \/ \E w \in Workers, r \in Runs : Submit(w, r)
             \/ \E w \in Workers : CancelTasks(w) \/ Restart(w)
             \/ LeaseExpire \/ LockExpire \/ TtlLapse
      PROVE  UNCHANGED <<spc, seen>>
  BY <1>3 DEF Submit, CancelTasks, Restart, LeaseExpire, LockExpire, TtlLapse, sweeps
<1> QED BY <1>1, <1>2, <1>3 DEF Next

\* A sweep decides, compares or ends.
LEMMA ComparesStep ==
  ASSUME ~RequeuePending, TypeOK, Compares, [Next]_vars
  PROVE  Compares'
<1>0. spc \in [Workers -> SweepPc] /\ seen \in [Workers -> JobStatus \cup {"none"}]
  BY DEF TypeOK, SweepsOK
<1>1. ASSUME NEW w \in Workers, SweepStart(w) \/ SweepStep(w) \/ SweepTimeout(w)
      PROVE  Compares'
  <2> DEFINE Elsewhere == \E p \in {"idle", "scan", "claim", "reread", "frame", "publishing", "drop", "unlock"} :
                            spc' = [spc EXCEPT ![w] = p]
             Others == \A v \in Workers \ {w} : seen'[v] = seen[v]
  <2>1. ASSUME Elsewhere, Others PROVE Compares'
    BY <1>0, <2>1 DEF Compares
  <2>2. ASSUME SweepStart(w) \/ SweepScan(w) \/ SweepClaim(w) \/ SweepCas(w) \/ SweepFrameCheck(w)
               \/ SweepFramePublish(w) \/ SweepUnlock(w)
        PROVE  Elsewhere /\ Others
    BY <2>2 DEF SweepStart, SweepScan, SweepClaim, SweepCas, SweepFrameCheck, SweepFramePublish,
       SweepUnlock, SweepGoto, sweeps
  <2>3. ASSUME SweepDrop(w) \/ SweepTimeout(w)
        PROVE  Elsewhere /\ Others
    BY <1>0, <2>3 DEF SweepDrop, SweepTimeout, SweepCancelled, ForgetSweep, SweepGoto
  <2>4. ASSUME SweepReread(w)
        PROVE  Compares'
    <3>1. CASE Elsewhere /\ UNCHANGED seen
      BY <2>1, <3>1
    <3>2. CASE ~IsTerminal(View(w)) /\ Condemn(w, ViewObj(w), View(w), FALSE)
      BY <1>0, <3>2 DEF Compares, Condemn, SweepGoto
    <3> QED BY <2>4, <3>1, <3>2 DEF SweepReread, SweepGoto
  <2>5. ~(SweepBump(w) \/ SweepRequeue(w) \/ \E r \in Runs : SweepHandoff(w, r))
    BY DEF Compares, SweepBump, SweepRequeue, SweepHandoff
  <2> QED BY <1>1, <2>1, <2>2, <2>3, <2>4, <2>5 DEF SweepStep
<1>2. ASSUME NEW w \in Workers, Crash(w) \/ Shutdown(w) PROVE Compares'
  BY <1>0, <1>2 DEF Crash, Shutdown, SweepCancelled, ForgetSweep, SweepGoto, Compares
<1>3. ASSUME UNCHANGED <<spc, seen>> PROVE Compares'
  BY <1>3 DEF Compares, IsTerminal
<1>4. CASE UNCHANGED vars
  BY <1>3, <1>4 DEF vars, sweeps
<1>5. CASE Next
  BY <1>1, <1>2, <1>3, <1>5, OtherSteps
<1> QED BY <1>4, <1>5

\* Whatever a sweep has read, and however long ago, its step leaves a stored
\* outcome as it is: update_if_status compares with a status that is none.
\* No promptness is assumed: leases may lapse and sweeps may overlap.
THEOREM ReclaimsSpareOutcomes == ASSUME ~RequeuePending PROVE Spec => ReclaimSparesOutcome
<1>1. Init => Compares
  BY DEF Init, Compares
<1>2. TypeOK /\ Compares /\ [Next]_vars => Compares'
  BY ComparesStep
<1>3. TypeOK /\ Compares /\ [Next]_vars =>
        [IsTerminal(row) /\ (\E w \in Workers : spc'[w] # spc[w]) => row' = row]_vars
  <2> SUFFICES ASSUME TypeOK, Compares, Next, IsTerminal(row), NEW w \in Workers, spc'[w] # spc[w]
               PROVE  row' = row
    OBVIOUS
  <2>1. ASSUME NEW v \in Workers, SweepStart(v) \/ SweepStep(v) \/ SweepTimeout(v) PROVE row' = row
    <3>1. CASE SweepCas(v)
      BY <3>1 DEF SweepCas, Compares, IsTerminal
    <3>2. ~(SweepBump(v) \/ SweepRequeue(v) \/ \E r \in Runs : SweepHandoff(v, r))
      BY DEF Compares, SweepBump, SweepRequeue, SweepHandoff
    <3>3. ASSUME SweepStart(v) \/ SweepScan(v) \/ SweepClaim(v) \/ SweepReread(v)
                 \/ SweepFrameCheck(v) \/ SweepFramePublish(v) \/ SweepDrop(v) \/ SweepUnlock(v)
                 \/ SweepTimeout(v)
          PROVE  row' = row
      BY <3>3 DEF SweepStart, SweepScan, SweepClaim, SweepReread, SweepFrameCheck,
         SweepFramePublish, SweepDrop, SweepUnlock, SweepTimeout, redis
    <3> QED BY <2>1, <3>1, <3>2, <3>3 DEF SweepStep
  <2>2. ASSUME NEW v \in Workers, Crash(v) \/ Shutdown(v) PROVE row' = row
    BY <2>2 DEF Crash, Shutdown, redis
  <2> QED BY <2>1, <2>2, OtherSteps
<1> QED BY <1>1, <1>2, <1>3, TypeCorrect, PTL DEF Spec, ReclaimSparesOutcome

-----------------------------------------------------------------------------
(* An outcome is final.                                                     *)

\* Nobody stalls, and nothing lands between a resume endpoint's get and its
\* update.  Any write of the row may fail, executed or not.
Steady == Prompt /\ AtomicResume

\* What a run does after its outcome was stored.
Announcing == {"frame", "publishing", "release"}

\* The part of a sweep that may still change the row.
Pending == {"bump", "requeue", "handoff"}

\* A worker that serves answers from its own instance only while it runs the
\* job and has not stored the outcome.
Cached ==
  \A w \in Workers : up[w] # "stopped" /\ local[w] # NoOne =>
    host[local[w]] = w /\ pc[local[w]] \in Live \ Announcing

\* What a sweep goes by is not an outcome, and is no live instance.
Decided ==
  \A w \in Workers :
    /\ spc[w] \in Pending \cup {"cas"} => ~IsTerminal(seen[w])
    /\ spc[w] \in Pending => tgt[w] = NoOne

\* Once there is an outcome, runs only announce it and no sweep requeues.
Settled ==
  IsTerminal(row) =>
    /\ \A r \in Runs : pc[r] \in Live => pc[r] \in Announcing
    /\ \A w \in Workers : spc[w] \notin Pending

Whole == \A c \in Clients : cpc[c] # "writing"

Finality == Cached /\ Decided /\ Settled /\ Whole

\* Outside a sweep that decides, nothing is read from a worker's own instance.
LEMMA Unserved ==
  ASSUME TypeOK, Exclusion, Cached, NEW w \in Workers, spc[w] \in Deciding
  PROVE  /\ View(w) = row /\ ViewObj(w) = NoOne
         /\ \A v \in Workers : up[v] # "stopped" => local[v] = NoOne
<1>1. \A r \in Runs : pc[r] \notin Live
  BY DEF Exclusion, ClaimHeld
<1>2. \A v \in Workers : up[v] # "stopped" => local[v] = NoOne
  BY <1>1 DEF Cached, TypeOK, MemoryOK
<1>3. up[w] # "stopped"
  BY DEF Exclusion, LockHeld, Deciding, Handling
<1> QED BY <1>2, <1>3 DEF View, ViewObj, Serves

\* A run that has not stored its outcome, and a sweep that may requeue, act on
\* a job that has none.
LEMMA StillOpen ==
  ASSUME Settled,
         \/ \E r \in Runs : pc[r] \in Live \ Announcing
         \/ \E w \in Workers : spc[w] \in Pending
  PROVE  ~IsTerminal(row)
  BY DEF Settled

\* What a step of the one live run has to show: it ends with the row, and the
\* worker forgets its instance when it does.
LEMMA LoneEnds ==
  ASSUME TypeOK, Exclusion, Finality, NEW r \in Runs, pc[r] \in Live,
         \A q \in Runs \ {r} : pc'[q] = pc[q],
         UNCHANGED <<up, spc, seen, tgt, host, cpc>>,
         IsTerminal(row') => pc'[r] \in Announcing \cup {"done"},
         \/ local' = local /\ (pc'[r] \in Live \ Announcing \/ pc[r] \in Announcing)
         \/ local' = [local EXCEPT ![host[r]] = NoOne]
  PROVE  Finality'
<1>1. \A q \in Runs : pc[q] \in Live => q = r
  BY RunHolds
<1>2. Cached'
  <2> SUFFICES ASSUME NEW w \in Workers, up[w] # "stopped", local'[w] # NoOne
               PROVE  host[local'[w]] = w /\ pc'[local'[w]] \in Live \ Announcing
    BY DEF Cached
  <2>1. local'[w] = local[w] /\ (local' = local \/ w # host[r])
    BY DEF TypeOK, MemoryOK
  <2>2. host[local[w]] = w /\ pc[local[w]] \in Live \ Announcing /\ local[w] \in Runs
    BY <2>1 DEF Finality, Cached, TypeOK, MemoryOK
  <2>3. local[w] = r
    BY <1>1, <2>2
  <2> QED BY <2>1, <2>2, <2>3 DEF TypeOK, MemoryOK, TasksOK
<1>3. Settled'
  <2>1. \A w \in Workers : spc'[w] \notin Pending
    BY RunHolds DEF Deciding, Handling, Pending
  <2>2. \A q \in Runs : pc'[q] \in Live => q = r
    BY <1>1
  <2>3. "done" \notin Live
    BY DEF Live, Working, Ending
  <2> QED BY <2>1, <2>2, <2>3 DEF Settled
<1>4. Decided' /\ Whole'
  BY DEF Finality, Decided, Whole
<1> QED BY <1>2, <1>3, <1>4 DEF Finality

\* Runs store one outcome, and afterwards announce it.
LEMMA RunStepFinal ==
  ASSUME Steady, TypeOK, Exclusion, Finality, NEW r \in Runs, RunStep(r)
  PROVE  Finality' /\ (IsTerminal(row) => row' = row)
<1>0. pc \in [Runs -> RunPc]
  BY DEF TypeOK, TasksOK
<1>b. ~IsTerminal("running") /\ ~IsTerminal(Parked)
  BY DEF IsTerminal, TERMINAL_STATUSES, Parked
<1>1. ASSUME \/ AcquireLease(r) \/ TakePermit(r) \/ StartWrite(r) \/ Pause(r) \/ ParkWrite(r)
             \/ Subscribe(r) \/ Wake(r) \/ ParkTimeout(r) \/ UnparkWrite(r) \/ Finish(r)
             \/ JobTimeout(r) \/ PersistCheck(r)
      PROVE  Finality' /\ (IsTerminal(row) => row' = row)
  <2>1. pc[r] \in {"accepted", "queued", "persist"} \cup Working
    <3>1. CASE StartWrite(r) \/ ParkWrite(r) \/ UnparkWrite(r)
      BY <3>1 DEF StartWrite, ParkWrite, UnparkWrite, NonTerminalWrite, Working
    <3>2. CASE \/ AcquireLease(r) \/ TakePermit(r) \/ Pause(r) \/ Subscribe(r) \/ Wake(r)
               \/ ParkTimeout(r) \/ Finish(r) \/ JobTimeout(r) \/ PersistCheck(r)
      BY <3>2 DEF AcquireLease, TakePermit, Pause, Subscribe, Wake, ParkTimeout, Finish,
         JobTimeout, PersistCheck, Working
    <3> QED BY <1>1, <3>1, <3>2
  <2>2. pc[r] \in Live \ Announcing
    BY <2>1 DEF Live, Working, Ending, Announcing
  <2>3. ~IsTerminal(row)
    BY <2>2, StillOpen DEF Finality
  <2>4. /\ row' \in {row, "running", Parked}
        /\ \E p \in Live \ Announcing : pc' = [pc EXCEPT ![r] = p]
        /\ UNCHANGED <<up, local, spc, seen, tgt, host, cpc>>
    <3>a. {"queued", "starting", "stream", "parking", "subscribing", "parked", "unparking",
           "persist", "persisting"} \subseteq Live \ Announcing
      BY DEF Live, Working, Ending, Announcing
    <3>1. CASE StartWrite(r) \/ ParkWrite(r) \/ UnparkWrite(r)
      BY <3>a, <3>1 DEF StartWrite, ParkWrite, UnparkWrite, NonTerminalWrite, End, Goto,
         sweeps, clients
    <3>2. CASE AcquireLease(r) \/ TakePermit(r) \/ Pause(r)
      BY <3>a, <3>2 DEF AcquireLease, TakePermit, Pause, Goto, redis, memory, sweeps, clients
    <3>3. CASE Subscribe(r) \/ Wake(r) \/ ParkTimeout(r) \/ Finish(r) \/ JobTimeout(r)
      BY <3>a, <3>3 DEF Subscribe, Wake, ParkTimeout, Finish, JobTimeout, End, Goto,
         redis, sweeps, clients
    <3>4. CASE PersistCheck(r)
      BY <2>3, <3>a, <3>4 DEF PersistCheck, Goto, redis, sweeps, clients
    <3> QED BY <1>1, <3>1, <3>2, <3>3, <3>4
  <2>5. ~IsTerminal(row')
    BY <1>b, <2>3, <2>4
  <2>6. pc'[r] \in Live \ Announcing /\ \A q \in Runs \ {r} : pc'[q] = pc[q]
    BY <1>0, <2>4
  <2> QED BY <2>2, <2>3, <2>4, <2>5, <2>6, LoneEnds
<1>2. CASE PersistWrite(r) \/ PersistGiveUp(r)
  <2>1. /\ pc[r] \in {"persist", "persisting"} /\ pc' = [pc EXCEPT ![r] = "frame"]
        /\ local' = [local EXCEPT ![host[r]] = NoOne]
        /\ UNCHANGED <<up, spc, seen, tgt, host, cpc>>
    BY <1>2 DEF PersistWrite, PersistGiveUp, Goto, Evict, sweeps, clients
  <2>2. pc[r] \in Live \ Announcing
    BY <2>1 DEF Live, Ending, Announcing
  <2>3. ~IsTerminal(row)
    BY <2>2, StillOpen DEF Finality
  <2>4. pc'[r] \in Announcing /\ \A q \in Runs \ {r} : pc'[q] = pc[q]
    BY <1>0, <2>1 DEF Announcing
  <2> QED BY <2>1, <2>2, <2>3, <2>4, LoneEnds
<1>3. ASSUME FrameCheck(r) \/ FramePublish(r) \/ ReleaseLease(r)
      PROVE  Finality' /\ (IsTerminal(row) => row' = row)
  <2>1. /\ pc[r] \in Announcing
        /\ \E p \in Announcing \cup {"done"} : pc' = [pc EXCEPT ![r] = p]
        /\ UNCHANGED <<row, up, local, spc, seen, tgt, host, cpc>>
    BY <1>3 DEF FrameCheck, FramePublish, ReleaseLease, Goto, Announcing, redis, memory,
       sweeps, clients
  <2>2. pc'[r] \in Announcing \cup {"done"} /\ \A q \in Runs \ {r} : pc'[q] = pc[q]
    BY <1>0, <2>1
  <2>3. pc[r] \in Live
    BY <2>1 DEF Live, Ending, Announcing
  <2> QED BY <2>1, <2>2, <2>3, LoneEnds
<1>4. ~(RetryAcquire(r) \/ LeaseLost(r))
  <2>1. pc[r] \in Live => \/ keeper[r] = "none"
                          \/ keeper[r] = "held" /\ lease = RunToken(host[r])
    BY RunHolds
  <2> QED BY <2>1 DEF RetryAcquire, LeaseLost
<1> QED BY <1>1, <1>2, <1>3, <1>4 DEF RunStep

\* What a step of a sweep has to show when it leaves the row and the runs
\* alone: it does not come to requeue or to condemn.
LEMMA LoneSweepEnds ==
  ASSUME Finality, NEW w \in Workers,
         \A v \in Workers \ {w} : spc'[v] = spc[v] /\ seen'[v] = seen[v] /\ tgt'[v] = tgt[v],
         spc'[w] \notin Pending \cup {"cas"},
         UNCHANGED <<row, pc, up, local, host, cpc>>
  PROVE  Finality'
<1>1. Cached' /\ Whole'
  BY DEF Finality, Cached, Whole
<1>2. Decided'
  BY DEF Finality, Decided
<1>3. Settled'
  BY DEF Finality, Settled
<1> QED BY <1>1, <1>2, <1>3 DEF Finality

\* What one has to show when it does: the job is open, and it will write with
\* nobody's instance what it compares with a status that is no outcome.
LEMMA LoneSweepDecides ==
  ASSUME Exclusion, Finality, NEW w \in Workers, spc[w] \in Deciding,
         \A v \in Workers \ {w} : spc'[v] = spc[v] /\ seen'[v] = seen[v] /\ tgt'[v] = tgt[v],
         ~IsTerminal(row'), ~IsTerminal(seen'[w]), tgt'[w] = NoOne,
         UNCHANGED <<pc, up, local, host, cpc>>
  PROVE  Finality'
<1>1. Cached' /\ Whole'
  BY DEF Finality, Cached, Whole
<1>2. Decided'
  BY DEF Finality, Decided
<1> QED BY <1>1, <1>2 DEF Finality, Settled

\* Sweeps requeue or fail only a job without an outcome.
LEMMA SweepStepFinal ==
  ASSUME Steady, TypeOK, Exclusion, Finality, NEW w \in Workers,
         SweepStart(w) \/ SweepStep(w) \/ SweepTimeout(w)
  PROVE  Finality' /\ (IsTerminal(row) => row' = row)
<1>0. /\ spc \in [Workers -> SweepPc] /\ seen \in [Workers -> JobStatus \cup {"none"}]
      /\ tgt \in [Workers -> Runs \cup {NoOne}] /\ local \in [Workers -> Runs \cup {NoOne}]
      /\ pc \in [Runs -> RunPc] /\ host \in [Runs -> Workers \cup {NoOne}]
  BY DEF TypeOK, SweepsOK, MemoryOK, TasksOK
<1>b. ~IsTerminal("pending")
  BY DEF IsTerminal, TERMINAL_STATUSES
<1>c. spc[w] \in Pending => ~IsTerminal(row) /\ ~IsTerminal(seen[w]) /\ tgt[w] = NoOne
  BY StillOpen DEF Finality, Decided
<1>1. ASSUME SweepStart(w) \/ SweepScan(w) \/ SweepClaim(w) \/ SweepFrameCheck(w)
             \/ SweepFramePublish(w) \/ SweepUnlock(w)
      PROVE  Finality' /\ (IsTerminal(row) => row' = row)
  <2>1. /\ \E p \in {"scan", "unlock", "claim", "reread", "drop", "publishing", "idle"} :
             spc' = [spc EXCEPT ![w] = p]
        /\ UNCHANGED <<row, pc, up, local, host, cpc, seen, tgt>>
    BY <1>1 DEF SweepStart, SweepScan, SweepClaim, SweepFrameCheck, SweepFramePublish,
       SweepUnlock, SweepGoto, redis, memory, tasks, clients
  <2> QED BY <1>0, <2>1, LoneSweepEnds DEF Pending
<1>2. CASE SweepDrop(w)
  <2>1. /\ spc' = [spc EXCEPT ![w] = "unlock"] /\ UNCHANGED <<row, pc, up, local, host, cpc>>
        /\ seen' = [seen EXCEPT ![w] = "pending"] /\ tgt' = [tgt EXCEPT ![w] = NoOne]
    BY <1>2 DEF SweepDrop, ForgetSweep, SweepGoto, memory, tasks, clients
  <2> QED BY <1>0, <2>1, LoneSweepEnds DEF Pending
<1>3. CASE SweepReread(w)
  <2>1. spc[w] \in Deciding /\ UNCHANGED <<row, pc, up, local, host, cpc>>
    BY <1>3 DEF SweepReread, Deciding, Handling, redis, tasks, clients
  <2>2. View(w) = row /\ ViewObj(w) = NoOne
    BY <2>1, Unserved DEF Finality
  <2>3. CASE (SweepGoto(w, "drop") \/ SweepGoto(w, "unlock")) /\ UNCHANGED <<seen, tgt>>
    BY <1>0, <2>1, <2>3, LoneSweepEnds DEF SweepGoto, Pending
  <2>4. CASE /\ ~IsTerminal(row) /\ UNCHANGED <<row, pc, up, local, host, cpc>>
             /\ tgt' = [tgt EXCEPT ![w] = NoOne]
             /\ seen' \in {[seen EXCEPT ![w] = row], [seen EXCEPT ![w] = "pending"]}
             /\ \A v \in Workers \ {w} : spc'[v] = spc[v]
    BY <1>0, <1>b, <2>1, <2>4, LoneSweepDecides
  <2>5. \/ (SweepGoto(w, "drop") \/ SweepGoto(w, "unlock")) /\ UNCHANGED <<seen, tgt>>
        \/ /\ ~IsTerminal(row)
           /\ tgt' = [tgt EXCEPT ![w] = NoOne]
           /\ seen' \in {[seen EXCEPT ![w] = row], [seen EXCEPT ![w] = "pending"]}
           /\ \E p \in {"bump", "cas"} : spc' = [spc EXCEPT ![w] = p]
    BY <1>b, <1>3, <2>2 DEF SweepReread, Condemn, SweepGoto
  <2> QED BY <1>0, <2>1, <2>3, <2>4, <2>5
<1>4. ASSUME SweepBump(w) \/ SweepRequeue(w)
      PROVE  Finality' /\ (IsTerminal(row) => row' = row)
  <2>1. /\ spc[w] \in Pending /\ spc[w] \in Deciding
        /\ UNCHANGED <<pc, up, local, host, cpc>> /\ row' \in {row, "pending"}
    BY <1>4 DEF SweepBump, SweepRequeue, Pending, Deciding, Handling, tasks, clients
  <2>2. SweepStatus(w) = seen[w]
    BY <1>c, <2>1 DEF SweepStatus
  <2>3. /\ tgt' \in {tgt, [tgt EXCEPT ![w] = NoOne]}
        /\ seen' \in {seen, [seen EXCEPT ![w] = seen[w]]}
        /\ \E p \in {"cas", "requeue", "handoff"} : spc' = [spc EXCEPT ![w] = p]
    BY <1>4, <1>c, <2>1, <2>2 DEF SweepBump, SweepRequeue, Condemn, SweepGoto
  <2> QED BY <1>0, <1>b, <1>c, <2>1, <2>3, LoneSweepDecides
<1>5. CASE \E r \in Runs : SweepHandoff(w, r)
  <2> PICK r \in Runs : SweepHandoff(w, r)
    BY <1>5
  <2>1. /\ spc[w] \in Pending /\ spc[w] \in Deciding
        /\ UNCHANGED <<row, up, local, cpc>>
    BY DEF SweepHandoff, Pending, Deciding, Handling, clients
  <2>2. SweepStatus(w) = seen[w]
    BY <1>c, <2>1 DEF SweepStatus
  <2>3. CASE Condemn(w, tgt[w], SweepStatus(w), FALSE) /\ UNCHANGED tasks
    <3>1. /\ tgt' = [tgt EXCEPT ![w] = NoOne] /\ seen' = [seen EXCEPT ![w] = seen[w]]
          /\ spc' = [spc EXCEPT ![w] = "cas"] /\ UNCHANGED <<pc, host>>
      BY <1>c, <2>1, <2>2, <2>3 DEF Condemn, SweepGoto, tasks
    <3> QED BY <1>0, <1>c, <2>1, <3>1, LoneSweepDecides
  <2>4. CASE SweepGoto(w, "drop") /\ UNCHANGED <<seen, tgt>>
    <3>1. \A v \in Workers : up[v] # "stopped" => local[v] = NoOne
      BY <2>1, Unserved DEF Finality
    <3>2. Cached' /\ Whole'
      BY <2>1, <3>1 DEF Finality, Cached, Whole
    <3>3. \A v \in Workers : spc'[v] = IF v = w THEN "drop" ELSE spc[v]
      BY <1>0, <2>4 DEF SweepGoto
    <3>4. Decided' /\ Settled'
      BY <1>c, <2>1, <2>4, <3>3 DEF Finality, Decided, Settled, Pending
    <3> QED BY <2>1, <3>2, <3>4 DEF Finality
  <2> QED BY <2>3, <2>4 DEF SweepHandoff
<1>6. CASE SweepCas(w)
  <2>1. /\ spc[w] = "cas" /\ UNCHANGED <<pc, up, host, cpc, seen, tgt>>
    BY <1>6 DEF SweepCas, tasks, clients
  <2>2. spc[w] \in Deciding
    BY <2>1 DEF Deciding, Handling
  <2>3. CASE row' = row /\ local' = local /\ SweepGoto(w, "drop")
    BY <1>0, <2>1, <2>3, LoneSweepEnds DEF SweepGoto, Pending
  <2>4. CASE /\ row = seen[w] /\ (Evict(w) \/ local' = local)
             /\ \E p \in {"frame", "drop"} : SweepGoto(w, p)
    <3>0. PICK p \in {"frame", "drop"} : SweepGoto(w, p)
      BY <2>4
    <3>1. ~IsTerminal(row)
      BY <2>1, <2>4 DEF Finality, Decided
    <3>2. \A v \in Workers : spc'[v] = IF v = w THEN p ELSE "idle"
      BY <1>0, <2>2, <3>0, SweepHolds DEF SweepGoto, Deciding
    <3>3. Cached' /\ Whole'
      BY <1>0, <2>1, <2>2, <2>4, Unserved DEF Finality, Cached, Whole, Evict
    <3>4. Decided'
      BY <3>2 DEF Decided, Pending
    <3>5. Settled'
      BY <2>1, <2>2, <3>2, SweepHolds DEF Settled, Pending, Deciding
    <3> QED BY <3>1, <3>3, <3>4, <3>5 DEF Finality
  <2> QED BY <1>6, <2>3, <2>4 DEF SweepCas
<1>7. ~SweepTimeout(w)
  BY NoStall DEF SweepTimeout, TypeOK, Steady
<1> QED BY <1>1, <1>2, <1>3, <1>4, <1>5, <1>6, <1>7 DEF SweepStep

\* A resume request finds the job parked, so it finds it open.
LEMMA ClientStepFinal ==
  ASSUME Steady, TypeOK, Exclusion, Finality, NEW c \in Clients, ClientStep(c)
  PROVE  Finality' /\ (IsTerminal(row) => row' = row)
<1>0. cpc \in [Clients -> ClientPc] /\ pc \in [Runs -> RunPc]
  BY DEF TypeOK, ClientsOK, TasksOK
<1>b. ~IsTerminal(Parked)
  BY DEF IsTerminal, TERMINAL_STATUSES, Parked
<1>1. ASSUME NEW w \in Workers, ResumeRead(c, w)
      PROVE  Finality' /\ (IsTerminal(row) => row' = row)
  <2>1. /\ up[w] = "serving" /\ View(w) = Parked
        /\ row' = Parked /\ cpc' = [cpc EXCEPT ![c] = "publishing"]
        /\ UNCHANGED <<up, local, pc, host, spc, seen, tgt>>
    BY <1>1 DEF ResumeRead, Steady, tasks, sweeps
  <2>2. ASSUME Serves(w) PROVE ~IsTerminal(row)
    <3>1. local[w] \in Runs /\ pc[local[w]] \in Live \ Announcing
      BY <2>1, <2>2 DEF Serves, Finality, Cached, TypeOK, MemoryOK
    <3> QED BY <3>1, StillOpen DEF Finality
  <2>3. ~IsTerminal(row)
    BY <1>b, <2>1, <2>2 DEF View
  <2>4. Cached' /\ Decided'
    BY <2>1 DEF Finality, Cached, Decided
  <2>5. Settled' /\ Whole'
    BY <1>0, <1>b, <2>1 DEF Finality, Settled, Whole
  <2> QED BY <2>3, <2>4, <2>5 DEF Finality
<1>2. ~ResumeWrite(c)
  BY DEF ResumeWrite, Finality, Whole
<1>3. CASE ResumePublish(c)
  <2>1. /\ UNCHANGED <<row, up, local, host, spc, seen, tgt>>
        /\ cpc' = [cpc EXCEPT ![c] = "done"]
        /\ \A r \in Runs : pc'[r] = pc[r] \/ (pc[r] = "parked" /\ pc'[r] = "hydrated")
    BY <1>3 DEF ResumePublish, ClientDone, redis, sweeps
  <2>2. \A r \in Runs : /\ pc'[r] \in Live <=> pc[r] \in Live
                        /\ pc'[r] \in Announcing <=> pc[r] \in Announcing
    BY <2>1 DEF Live, Working, Announcing
  <2>3. Cached'
    BY <2>1, <2>2 DEF Finality, Cached, TypeOK, MemoryOK
  <2>4. Decided' /\ Settled'
    BY <2>1, <2>2 DEF Finality, Decided, Settled
  <2>5. Whole'
    BY <1>0, <2>1 DEF Finality, Whole
  <2> QED BY <2>1, <2>3, <2>4, <2>5 DEF Finality
<1> QED BY <1>1, <1>2, <1>3 DEF ClientStep

\* Losing a process loses its instances, and no stop writes the row.
LEMMA WorldStepFinal ==
  ASSUME Steady, TypeOK, Exclusion, Finality,
         \/ \E w \in Workers, r \in Runs : Submit(w, r)
         \/ \E w \in Workers : Crash(w) \/ Shutdown(w) \/ CancelTasks(w) \/ Restart(w)
         \/ LeaseExpire \/ LockExpire \/ TtlLapse
  PROVE  Finality' /\ (IsTerminal(row) => row' = row)
<1>0. /\ spc \in [Workers -> SweepPc] /\ seen \in [Workers -> JobStatus \cup {"none"}]
      /\ tgt \in [Workers -> Runs \cup {NoOne}] /\ local \in [Workers -> Runs \cup {NoOne}]
      /\ pc \in [Runs -> RunPc] /\ host \in [Runs -> Workers \cup {NoOne}]
      /\ up \in [Workers -> {"serving", "stopping", "stopped"}]
      /\ NoOne \notin Runs
  BY ConstantsAssumption DEF TypeOK, SweepsOK, MemoryOK, TasksOK
<1>1. ASSUME NEW w \in Workers, NEW r \in Runs, Submit(w, r)
      PROVE  Finality' /\ (IsTerminal(row) => row' = row)
  <2>1. /\ row = "none" /\ row' = "pending" /\ pc' = [pc EXCEPT ![r] = "accepted"]
        /\ host' = [host EXCEPT ![r] = w] /\ local' = [local EXCEPT ![w] = r]
        /\ UNCHANGED <<up, spc, seen, tgt, cpc>>
    BY <1>1 DEF Submit, Spawn, Goto, sweeps, clients
  <2>2. \A v \in Workers : up[v] # "stopped" => local[v] = NoOne
    BY <1>0, <2>1 DEF Exclusion, Unborn, Finality, Cached
  <2>3. Cached'
    <3>1. ASSUME NEW v \in Workers, up[v] # "stopped", local'[v] # NoOne
          PROVE  v = w /\ local'[v] = r
      BY <1>0, <2>1, <2>2, <3>1
    <3>2. host'[r] = w /\ pc'[r] \in Live \ Announcing
      BY <1>0, <2>1 DEF Live, Announcing
    <3> QED BY <2>1, <3>1, <3>2 DEF Cached
  <2>4. ~IsTerminal(row) /\ ~IsTerminal(row')
    BY <2>1 DEF IsTerminal, TERMINAL_STATUSES
  <2> QED BY <2>1, <2>3, <2>4 DEF Finality, Decided, Settled, Whole
<1>2. ASSUME NEW w \in Workers, Crash(w) \/ Shutdown(w) \/ CancelTasks(w) \/ Restart(w)
      PROVE  Finality' /\ row' = row
  <2>1. row' = row /\ host' = host
    BY <1>2 DEF Crash, Shutdown, CancelTasks, Restart, redis, tasks
  <2>2. \A v \in Workers \ {w} : /\ up'[v] = up[v] /\ local'[v] = local[v] /\ spc'[v] = spc[v]
                                 /\ seen'[v] = seen[v] /\ tgt'[v] = tgt[v]
    BY <1>0, <1>2 DEF Crash, Shutdown, CancelTasks, Restart, ForgetSweep, SweepGoto, sweeps
  <2>3. \A r \in Runs : \/ pc'[r] = pc[r]
                        \/ host[r] = w /\ pc[r] \in Live /\ pc'[r] = "done"
                        \/ host[r] = w /\ pc[r] \in Live /\ pc'[r] = Interrupted(pc[r])
    BY <1>2 DEF Crash, Shutdown, CancelTasks, Restart, Of, tasks
  <2>4. \/ up'[w] # "stopped" /\ local'[w] = NoOne
        \/ up'[w] = "stopped"
        \/ up[w] # "stopped" /\ local' = local /\ pc' = pc
    BY <1>0, <1>2 DEF Crash, Shutdown, CancelTasks, Restart, tasks
  <2>5. \/ spc'[w] = spc[w] /\ seen'[w] = seen[w] /\ tgt'[w] = tgt[w]
        \/ spc'[w] \notin Pending \cup {"cas"}
    BY <1>0, <1>2 DEF Crash, Shutdown, CancelTasks, Restart, SweepCancelled, SweepGoto, Pending, sweeps
  <2>6. \A d \in Clients : cpc'[d] # "writing"
    <3>1. \A d \in Clients : cpc'[d] \in {cpc[d], "done"}
      BY <1>2 DEF Crash, Shutdown, CancelTasks, Restart, DropClients, clients
    <3> QED BY <3>1 DEF Finality, Whole
  <2>7. Cached'
    <3>1. ASSUME NEW v \in Workers, up'[v] # "stopped", local'[v] # NoOne
          PROVE  host[local'[v]] = v /\ pc'[local'[v]] \in Live \ Announcing
      <4>1. CASE v = w
        BY <2>4, <3>1, <4>1 DEF Finality, Cached
      <4>2. CASE v # w
        <5>1. host[local[v]] = v /\ pc[local[v]] \in Live \ Announcing /\ local[v] \in Runs
          BY <1>0, <2>2, <3>1, <4>2 DEF Finality, Cached
        <5> QED BY <2>2, <2>3, <4>2, <5>1
      <4> QED BY <4>1, <4>2
    <3> QED BY <2>1, <3>1 DEF Cached
  <2>8. Decided'
    BY <2>2, <2>5 DEF Finality, Decided
  <2>9. Settled'
    <3>1. \A p \in Announcing : Interrupted(p) \in {"release", "done"}
      BY DEF Interrupted, Announcing, Working, Ending
    <3>2. "done" \notin Live /\ "release" \in Announcing
      BY DEF Live, Working, Ending, Announcing
    <3>3. ASSUME IsTerminal(row), NEW r \in Runs, pc'[r] \in Live PROVE pc'[r] \in Announcing
      BY <2>3, <3>1, <3>2, <3>3 DEF Finality, Settled
    <3>4. ASSUME IsTerminal(row), NEW v \in Workers PROVE spc'[v] \notin Pending
      BY <2>2, <2>5, <3>4 DEF Finality, Settled
    <3> QED BY <2>1, <3>3, <3>4 DEF Settled
  <2> QED BY <2>1, <2>6, <2>7, <2>8, <2>9 DEF Finality, Whole
<1>3. ASSUME LeaseExpire \/ LockExpire PROVE Finality' /\ row' = row
  <2>1. UNCHANGED <<row, pc, host, up, local, spc, seen, tgt, cpc>>
    BY <1>3 DEF LeaseExpire, LockExpire, memory, tasks, sweeps, clients
  <2> QED BY <2>1 DEF Finality, Cached, Decided, Settled, Whole
<1>4. ~TtlLapse
  BY NoStall DEF TtlLapse, TypeOK, Steady
<1> QED BY <1>1, <1>2, <1>3, <1>4

\* What a step of an orderly fleet does to the invariant and to an outcome.
LEMMA StepFinal ==
  ASSUME Steady
  PROVE  TypeOK /\ Exclusion /\ Finality /\ [Next]_vars =>
           Finality' /\ [IsTerminal(row) => row' = row]_vars
<1>1. ASSUME TypeOK, Exclusion, Finality, Next
      PROVE  Finality' /\ (IsTerminal(row) => row' = row)
  BY <1>1, RunStepFinal, SweepStepFinal, ClientStepFinal, WorldStepFinal DEF Next
<1>2. ASSUME Finality, UNCHANGED vars PROVE Finality'
  BY <1>2 DEF vars, redis, memory, tasks, sweeps, clients, Finality, Cached, Decided,
     Settled, Whole
<1> QED BY <1>1, <1>2

\* The invariant behind the finality of outcomes.
THEOREM FinalityHolds == ASSUME Steady PROVE Spec => [](overtaken \/ Finality)
<1>1. Init => Finality
  BY DEF Init, Finality, Cached, Decided, Settled, Whole, Pending, IsTerminal, TERMINAL_STATUSES
<1>2. Spec => [](overtaken \/ Exclusion)
  BY Excludes DEF Steady
<1> QED BY <1>1, <1>2, StepFinal, HistoryGrows, TypeCorrect, PTL DEF Spec

\* Until a sweep overtakes a run, nothing changes the outcome of a job again: not
\* a late write of its run, not a requeue, not the answer of a human, not a crash
\* in between.
THEOREM OutcomesAreFinal == ASSUME Steady PROVE Spec => OutcomeStays
<1>1. Spec => [](overtaken \/ Exclusion)
  BY Excludes DEF Steady
<1>2. TypeOK /\ (overtaken \/ Exclusion) /\ (overtaken \/ Finality) /\ [Next]_vars =>
        [IsTerminal(row) /\ ~overtaken => row' = row]_vars
  BY StepFinal
<1> QED BY <1>1, <1>2, FinalityHolds, TypeCorrect, PTL DEF Spec, OutcomeStays

-----------------------------------------------------------------------------
(* JobRuntime implements JobOutcome.                                       *)

\* The store takes every write of the row.
Writable == "update" \notin FaultyOps

\* What the fleet run assumes; when a sweep claims is restricted nowhere.
Orderly == Steady /\ Writable

\* How far a run is determines what its instance and the row say.
Tracks(r) ==
  /\ obj[r] = r
  /\ pc[r] \in {"idle", "accepted", "queued"} => mem[r] = "pending"
  /\ pc[r] \in {"starting", "stream", "unparking"} => mem[r] = "running"
  /\ pc[r] \in {"parking", "subscribing", "parked", "hydrated"} => mem[r] = Parked
  /\ pc[r] \in {"persist", "persisting"} =>
       mem[r] = out[r] /\ (out[r] = "succeeded" => row = "running")
  /\ pc[r] = "persisting" => buf[r] = out[r]
  /\ pc[r] \in {"accepted", "queued", "starting"} => row = "pending"
  /\ pc[r] = "stream" => row = "running"
  /\ pc[r] = "parking" => row \in {"running", Parked}
  /\ pc[r] \in {"subscribing", "parked", "hydrated", "unparking"} => row = Parked
  /\ Writable /\ pc[r] \in {"frame", "publishing"} => row = out[r]

\* A sweep requeues what is pending and announces what it failed.
SweepTracks(w) ==
  /\ spc[w] \in Pending => row = "pending"
  /\ spc[w] \in {"frame", "publishing"} => row = "failed"

\* Streams were told nothing, or the outcome in the row: a run whose terminal
\* write raised announces an outcome that the row does not have.
ToldTracks == Writable /\ told # {} => IsTerminal(row) /\ told = {row}

Tracking ==
  /\ \A r \in Runs : Tracks(r)
  /\ \A w \in Workers : SweepTracks(w)
  /\ ToldTracks

\* What a step shows to those who poll the row, and where the row can be
\* written to those who also follow the frames.
Observed ==
  /\ [Polls!Next]_row
  /\ Writable => [Outcome!Next]_<<row, told>>

\* The steps a caller can see, in terms of the row and the frames.
LEMMA Observes ==
  ASSUME RedisOK,
         \/ row' = row
         \/ row = "none" /\ row' = "pending"
         \/ row = "pending" /\ row' = "running"
         \/ row \in {"running", Parked} /\ row' \in {"running", Parked}
         \/ row = "running" /\ row' = "succeeded"
         \/ row # "none" /\ ~IsTerminal(row) /\ row' \in {"failed", "cancelled"},
         Writable => told' = told \/ (row' = row /\ IsTerminal(row) /\ told' = {row})
  PROVE  Observed
<1>1. Parked \in {"pending_review", "awaiting_learner"}
  BY DEF Parked
<1>2. row # "none" /\ ~IsTerminal(row) => row \in Outcome!Open /\ row \in Polls!Open
  BY DEF RedisOK, JobStatus, IsTerminal, PARKED_STATUSES, TERMINAL_STATUSES,
     Outcome!Open, Outcome!Parked, Polls!Open, Polls!Parked
<1>3. [Polls!Next]_row
  BY <1>1, <1>2 DEF Polls!Next, Polls!Accept, Polls!Start, Polls!Park, Polls!Resume,
     Polls!Succeed, Polls!Fail, Polls!Cancel, Polls!Parked
<1>4. ASSUME Writable PROVE [Outcome!Next]_<<row, told>>
  BY <1>1, <1>2, <1>4 DEF Outcome!Next, Outcome!Accept, Outcome!Start, Outcome!Park, Outcome!Resume,
     Outcome!Succeed, Outcome!Fail, Outcome!Cancel, Outcome!Tell, Outcome!Parked,
     Outcome!Terminal, IsTerminal, TERMINAL_STATUSES
<1> QED BY <1>3, <1>4 DEF Observed

\* A run that is not under way is none to keep track of.
LEMMA IdleTracks ==
  ASSUME TypeOK, Tracking, NEW q \in Runs, pc[q] \notin Live,
         pc'[q] = pc[q], mem'[q] = mem[q], obj'[q] = obj[q]
  PROVE  Tracks(q)'
<1>1. pc[q] \in {"idle", "done"}
  BY DEF TypeOK, TasksOK, RunPc
<1> QED BY <1>1 DEF Tracking, Tracks

\* What a step of the one live run has to show.
LEMMA LoneTracks ==
  ASSUME TypeOK, Exclusion, Tracking, NEW r \in Runs, pc[r] \in Live,
         \A q \in Runs \ {r} : pc'[q] = pc[q] /\ mem'[q] = mem[q] /\ obj'[q] = obj[q],
         UNCHANGED spc, Tracks(r)', ToldTracks'
  PROVE  Tracking'
<1>1. \A q \in Runs \ {r} : Tracks(q)'
  BY RunHolds, IdleTracks
<1>2. \A w \in Workers : SweepTracks(w)'
  BY RunHolds DEF SweepTracks, Deciding, Handling, Pending
<1> QED BY <1>1, <1>2 DEF Tracking

\* The terminal branch of run_job that ends in status s.
LEMMA EndTracks ==
  ASSUME TypeOK, Exclusion, Tracking, NEW r \in Runs, pc[r] \in Live,
         NEW s \in TERMINAL_STATUSES, s = "succeeded" => row' = "running",
         End(r, s), UNCHANGED spc, ToldTracks'
  PROVE  Tracking'
<1>1. obj[r] = r
  BY DEF Tracking, Tracks
<1>2. /\ pc'[r] = "persist" /\ mem'[r] = s /\ out'[r] = s /\ obj' = obj
      /\ \A q \in Runs \ {r} : pc'[q] = pc[q] /\ mem'[q] = mem[q] /\ obj'[q] = obj[q]
  BY <1>1 DEF End, Goto, TypeOK, TasksOK, MemoryOK
<1>3. Tracks(r)'
  BY <1>1, <1>2 DEF Tracks
<1> QED BY <1>2, <1>3, LoneTracks

-----------------------------------------------------------------------------
(* The steps.                                                              *)

\* A run shows its caller what JobOutcome promises.
LEMMA RunStepTracks ==
  ASSUME Steady, TypeOK, Exclusion, Finality, Tracking, NEW r \in Runs, RunStep(r)
  PROVE  Tracking' /\ Observed
<1>0. /\ pc \in [Runs -> RunPc] /\ mem \in [Runs -> JobStatus] /\ obj \in [Runs -> Runs]
      /\ buf \in [Runs -> JobStatus] /\ out \in [Runs -> TERMINAL_STATUSES]
      /\ RedisOK
  BY DEF TypeOK, TasksOK, MemoryOK
<1>a. Fault("update") => ~Writable
  BY DEF Writable, Fault
<1>b. Tracks(r) /\ ToldTracks /\ obj[r] = r
  BY DEF Tracking, Tracks
<1>c. Live = {"accepted", "queued", "starting", "stream", "parking", "subscribing", "parked",
              "hydrated", "unparking", "persist", "persisting", "frame", "publishing", "release"}
  BY DEF Live, Working, Ending
<1>d. UNCHANGED <<row, told>> => ToldTracks' /\ Observed
  BY <1>0, <1>b, Observes DEF ToldTracks, IsTerminal
<1>e. pc[r] \in Live \ Announcing => ~IsTerminal(row) /\ row # "none" /\ (Writable => told = {})
  BY <1>b, StillOpen, RunHolds DEF Finality, ToldTracks
<1>f. "failed" \in TERMINAL_STATUSES /\ "cancelled" \in TERMINAL_STATUSES
      /\ "succeeded" \in TERMINAL_STATUSES
  BY DEF TERMINAL_STATUSES
<1>1. CASE AcquireLease(r)
  <2>1. /\ pc[r] = "accepted" /\ pc' = [pc EXCEPT ![r] = "queued"]
        /\ UNCHANGED <<row, told, mem, obj, spc>>
    BY <1>1 DEF AcquireLease, Goto, memory, sweeps
  <2>2. Tracks(r)'
    BY <1>0, <1>b, <2>1 DEF Tracks
  <2>3. \A q \in Runs \ {r} : pc'[q] = pc[q]
    BY <1>0, <2>1
  <2> QED BY <1>c, <1>d, <2>1, <2>2, <2>3, LoneTracks
<1>2. CASE TakePermit(r)
  <2>1. /\ pc[r] = "queued" /\ pc' = [pc EXCEPT ![r] = "starting"]
        /\ mem' = [mem EXCEPT ![r] = "running"] /\ UNCHANGED <<row, told, obj, spc>>
    BY <1>b, <1>2 DEF TakePermit, Goto, redis, sweeps
  <2>2. Tracks(r)'
    BY <1>0, <1>b, <2>1 DEF Tracks
  <2>3. \A q \in Runs \ {r} : pc'[q] = pc[q] /\ mem'[q] = mem[q]
    BY <1>0, <2>1
  <2> QED BY <1>c, <1>d, <2>1, <2>2, <2>3, LoneTracks
<1>3. ASSUME NEW s \in {"running", Parked}, NEW to \in {"stream", "subscribing"},
             pc[r] \in {"starting", "parking", "unparking"},
             row' = s, pc' = [pc EXCEPT ![r] = to], UNCHANGED <<told, mem, obj, spc>>,
             pc[r] = "parking" => s = Parked /\ to = "subscribing",
             pc[r] # "parking" => s = "running" /\ to = "stream"
      PROVE  Tracking' /\ Observed
  <2>1. pc'[r] = to /\ \A q \in Runs \ {r} : pc'[q] = pc[q]
    BY <1>0, <1>3
  <2>2. Tracks(r)'
    BY <1>b, <1>3, <2>1 DEF Tracks
  <2>3. pc[r] \in Live /\ (Writable => told = {})
    BY <1>3, <1>c, <1>e DEF Announcing
  <2>4. ToldTracks'
    BY <1>3, <2>3 DEF ToldTracks
  <2>5. Observed
    BY <1>0, <1>b, <1>3, Observes DEF Tracks
  <2> QED BY <1>3, <2>1, <2>2, <2>3, <2>4, <2>5, LoneTracks
<1>4. ASSUME StartWrite(r) \/ ParkWrite(r) \/ UnparkWrite(r)
      PROVE  Tracking' /\ Observed
  <2>1. /\ UNCHANGED <<told, obj, spc>>
        /\ \/ /\ pc[r] \in {"starting", "unparking"} /\ row' = "running"
              /\ pc' = [pc EXCEPT ![r] = "stream"] /\ UNCHANGED mem
           \/ /\ pc[r] = "parking" /\ row' = Parked
              /\ pc' = [pc EXCEPT ![r] = "subscribing"] /\ UNCHANGED mem
           \/ /\ ~Writable /\ End(r, "failed")
              /\ \/ pc[r] \in {"starting", "unparking"} /\ row' \in {row, "running"}
                 \/ pc[r] = "parking" /\ row' \in {row, Parked}
    BY <1>4, <1>a DEF StartWrite, ParkWrite, UnparkWrite, NonTerminalWrite, End, Goto, sweeps
  <2>2. CASE /\ ~Writable /\ End(r, "failed")
             /\ \/ pc[r] \in {"starting", "unparking"} /\ row' \in {row, "running"}
                \/ pc[r] = "parking" /\ row' \in {row, Parked}
    <3>1. pc[r] \in Live /\ ToldTracks'
      BY <1>c, <2>2 DEF ToldTracks
    <3>2. Observed
      BY <1>0, <1>b, <2>2, Observes DEF Tracks
    <3> QED BY <1>f, <2>1, <2>2, <3>1, <3>2, EndTracks
  <2> QED BY <1>3, <2>1, <2>2
<1>5. CASE Pause(r)
  <2>1. /\ pc[r] = "stream" /\ pc' = [pc EXCEPT ![r] = "parking"]
        /\ mem' = [mem EXCEPT ![r] = Parked] /\ UNCHANGED <<row, told, obj, spc>>
    BY <1>b, <1>5 DEF Pause, Goto, redis, sweeps
  <2>2. Tracks(r)'
    BY <1>0, <1>b, <2>1 DEF Tracks
  <2>3. \A q \in Runs \ {r} : pc'[q] = pc[q] /\ mem'[q] = mem[q]
    BY <1>0, <2>1
  <2> QED BY <1>c, <1>d, <2>1, <2>2, <2>3, LoneTracks
<1>6. CASE Subscribe(r)
  <2>1. pc[r] = "subscribing" /\ UNCHANGED <<row, told, spc>>
    BY <1>6 DEF Subscribe, redis, sweeps
  <2>2. CASE End(r, "failed")
    BY <1>c, <1>d, <1>f, <2>1, <2>2, EndTracks
  <2>3. CASE Goto(r, "parked") /\ UNCHANGED <<mem, obj>>
    <3>1. Tracks(r)' /\ \A q \in Runs \ {r} : pc'[q] = pc[q]
      BY <1>0, <1>b, <2>1, <2>3 DEF Tracks, Goto
    <3> QED BY <1>c, <1>d, <2>1, <2>3, <3>1, LoneTracks
  <2> QED BY <1>6, <2>2, <2>3 DEF Subscribe
<1>7. CASE Wake(r)
  <2>1. pc[r] \in {"parked", "hydrated"} /\ UNCHANGED <<row, told, spc>>
    BY <1>7 DEF Wake, redis, sweeps
  <2>2. CASE End(r, "cancelled")
    BY <1>c, <1>d, <1>f, <2>1, <2>2, EndTracks
  <2>3. CASE Goto(r, "unparking") /\ mem' = [mem EXCEPT ![r] = "running"] /\ UNCHANGED obj
    <3>1. Tracks(r)' /\ \A q \in Runs \ {r} : pc'[q] = pc[q] /\ mem'[q] = mem[q]
      BY <1>0, <1>b, <2>1, <2>3 DEF Tracks, Goto
    <3> QED BY <1>c, <1>d, <2>1, <2>3, <3>1, LoneTracks
  <2> QED BY <1>7, <1>b, <2>2, <2>3 DEF Wake
<1>8. ASSUME ParkTimeout(r) \/ Finish(r) \/ JobTimeout(r)
      PROVE  Tracking' /\ Observed
  <2>1. /\ pc[r] \in Live /\ UNCHANGED <<row, told, spc>>
        /\ \E s \in {"succeeded", "failed"} : End(r, s) /\ (s = "succeeded" => pc[r] = "stream")
    BY <1>8, <1>c DEF ParkTimeout, Finish, JobTimeout, Working, redis, sweeps
  <2>2. pc[r] = "stream" => row = "running"
    BY <1>b DEF Tracks
  <2> QED BY <1>d, <1>f, <2>1, <2>2, EndTracks
<1>9. CASE PersistCheck(r)
  <2>1. ~IsTerminal(row)
    BY <1>9, <1>c, <1>e DEF PersistCheck, Announcing
  <2>2. /\ pc[r] = "persist" /\ pc' = [pc EXCEPT ![r] = "persisting"]
        /\ buf' = [buf EXCEPT ![r] = mem[r]] /\ UNCHANGED <<row, told, mem, obj, out, spc>>
    BY <1>9, <1>b, <2>1 DEF PersistCheck, Goto, redis, sweeps
  <2>3. Tracks(r)' /\ \A q \in Runs \ {r} : pc'[q] = pc[q]
    BY <1>0, <1>b, <2>2 DEF Tracks
  <2> QED BY <1>c, <1>d, <2>2, <2>3, LoneTracks
<1>10. CASE PersistWrite(r)
  <2>1. /\ pc[r] = "persisting" /\ pc' = [pc EXCEPT ![r] = "frame"] /\ row' = buf[r]
        /\ UNCHANGED <<told, mem, obj, out, spc>>
    BY <1>10 DEF PersistWrite, Goto, sweeps
  <2>2. row' = out[r] /\ (out[r] = "succeeded" => row = "running")
    BY <1>b, <2>1 DEF Tracks
  <2>3. ~IsTerminal(row) /\ row # "none" /\ pc[r] \in Live /\ (Writable => told = {})
    BY <2>1, <1>c, <1>e DEF Announcing
  <2>4. Tracks(r)' /\ \A q \in Runs \ {r} : pc'[q] = pc[q]
    BY <1>0, <1>b, <2>1, <2>2 DEF Tracks
  <2>5. ToldTracks'
    BY <2>1, <2>3 DEF ToldTracks
  <2>6. out[r] \in {"succeeded", "failed", "cancelled"}
    BY <1>0 DEF TERMINAL_STATUSES
  <2>7. Observed
    BY <1>0, <2>1, <2>2, <2>3, <2>6, Observes
  <2> QED BY <2>1, <2>3, <2>4, <2>5, <2>7, LoneTracks
<1>11. CASE FrameCheck(r)
  <2>1. /\ pc[r] = "frame" /\ UNCHANGED <<row, told, mem, obj, out, spc>>
        /\ \E p \in {"release", "publishing"} : pc' = [pc EXCEPT ![r] = p]
    BY <1>11 DEF FrameCheck, Goto, redis, memory, sweeps
  <2>2. Tracks(r)' /\ \A q \in Runs \ {r} : pc'[q] = pc[q]
    BY <1>0, <1>b, <2>1 DEF Tracks
  <2> QED BY <1>c, <1>d, <2>1, <2>2, LoneTracks
<1>12. CASE FramePublish(r)
  <2>1. /\ pc[r] = "publishing" /\ pc' = [pc EXCEPT ![r] = "release"]
        /\ told' \in {told, told \cup {out[r]}} /\ UNCHANGED <<row, mem, obj, spc>>
    BY <1>12 DEF FramePublish, Goto, memory, sweeps
  <2>2. Writable => row = out[r] /\ IsTerminal(row)
    BY <1>0, <1>b, <2>1 DEF Tracks, IsTerminal
  <2>3. Writable => told' = told \/ told' = {row}
    BY <1>b, <2>1, <2>2 DEF ToldTracks
  <2>4. Tracks(r)' /\ \A q \in Runs \ {r} : pc'[q] = pc[q]
    BY <1>0, <1>b, <2>1 DEF Tracks
  <2>5. ToldTracks'
    BY <1>b, <2>1, <2>2, <2>3 DEF ToldTracks, IsTerminal
  <2>6. Observed
    BY <1>0, <2>1, <2>2, <2>3, Observes
  <2> QED BY <1>c, <2>1, <2>4, <2>5, <2>6, LoneTracks
<1>13. CASE ReleaseLease(r)
  <2>1. /\ pc[r] = "release" /\ pc' = [pc EXCEPT ![r] = "done"]
        /\ UNCHANGED <<row, told, mem, obj, spc>>
    BY <1>13 DEF ReleaseLease, Goto, memory, sweeps
  <2>2. Tracks(r)' /\ \A q \in Runs \ {r} : pc'[q] = pc[q]
    BY <1>0, <1>b, <2>1 DEF Tracks
  <2> QED BY <1>c, <1>d, <2>1, <2>2, LoneTracks
<1>14. CASE PersistGiveUp(r)
  <2>1. /\ ~Writable /\ pc[r] \in {"persist", "persisting"} /\ pc' = [pc EXCEPT ![r] = "frame"]
        /\ row' \in {row, IF pc[r] = "persisting" THEN buf[r] ELSE row}
        /\ UNCHANGED <<told, mem, obj, out, spc>>
    BY <1>14, <1>a DEF PersistGiveUp, Goto, sweeps
  <2>2. ~IsTerminal(row) /\ row # "none" /\ pc[r] \in Live
    BY <2>1, <1>c, <1>e DEF Announcing
  <2>3. Tracks(r)' /\ ToldTracks' /\ \A q \in Runs \ {r} : pc'[q] = pc[q]
    BY <1>0, <1>b, <2>1 DEF Tracks, ToldTracks
  <2>4. \/ row' = row
        \/ row' = out[r] /\ (out[r] = "succeeded" => row = "running")
    BY <1>b, <2>1 DEF Tracks
  <2>5. out[r] \in {"succeeded", "failed", "cancelled"}
    BY <1>0 DEF TERMINAL_STATUSES
  <2>6. Observed
    BY <1>0, <2>1, <2>2, <2>4, <2>5, Observes
  <2> QED BY <2>1, <2>2, <2>3, <2>6, LoneTracks
<1>15. ~(RetryAcquire(r) \/ LeaseLost(r))
  <2>1. pc[r] \in Live => \/ keeper[r] = "none"
                          \/ keeper[r] = "held" /\ lease = RunToken(host[r])
    BY RunHolds
  <2> QED BY <2>1 DEF RetryAcquire, LeaseLost
<1> QED
  BY <1>1, <1>2, <1>4, <1>5, <1>6, <1>7, <1>8, <1>9, <1>10, <1>11, <1>12, <1>13, <1>14, <1>15
  DEF RunStep

\* What a step has to show of the runs when it takes none of them anywhere.
LEMMA RunsStay ==
  ASSUME TypeOK, Tracking, UNCHANGED <<pc, mem, obj, out, buf>>,
         row' = row \/ \A r \in Runs : pc[r] \notin Live
  PROVE  \A r \in Runs : Tracks(r)'
<1>1. CASE row' = row
  BY <1>1 DEF Tracking, Tracks
<1>2. CASE \A r \in Runs : pc[r] \notin Live
  BY <1>2, IdleTracks
<1> QED BY <1>1, <1>2

\* A sweep shows the caller of an orphaned job at most one failure.
LEMMA SweepStepTracks ==
  ASSUME Steady, TypeOK, Exclusion, Finality, Tracking, NEW w \in Workers,
         SweepStart(w) \/ SweepStep(w) \/ SweepTimeout(w)
  PROVE  Tracking' /\ Observed
<1>0. /\ spc \in [Workers -> SweepPc] /\ pc \in [Runs -> RunPc] /\ obj \in [Runs -> Runs]
      /\ RedisOK
  BY DEF TypeOK, SweepsOK, TasksOK
<1>a. Fault("update") => ~Writable
  BY DEF Writable, Fault
<1>b. ToldTracks /\ \A v \in Workers : SweepTracks(v)
  BY DEF Tracking
<1>c. spc[w] \in Pending => row = "pending" /\ tgt[w] = NoOne
  BY <1>b, StillOpen DEF Finality, Decided, SweepTracks, ToldTracks
<1>d. UNCHANGED <<row, told>> => ToldTracks' /\ Observed
  BY <1>0, <1>b, Observes DEF ToldTracks, IsTerminal
<1>e. \A i, s : i = NoOne => Mutated(i, s) = mem
  BY DEF Mutated
<1>1. ASSUME NEW p \in SweepPc, spc' = [spc EXCEPT ![w] = p], UNCHANGED <<row, told>>,
             UNCHANGED <<pc, mem, obj, out, buf>>,
             p \in Pending => row = "pending",
             p \in {"frame", "publishing"} => row = "failed"
      PROVE  Tracking' /\ Observed
  <2>1. \A v \in Workers : spc'[v] = IF v = w THEN p ELSE spc[v]
    BY <1>0, <1>1
  <2>2. \A v \in Workers : SweepTracks(v)'
    BY <1>b, <1>1, <2>1 DEF SweepTracks
  <2> QED BY <1>d, <1>1, <2>2, RunsStay DEF Tracking
<1>f. {"scan", "claim", "reread", "drop", "unlock", "idle", "cas", "bump", "requeue", "handoff",
       "publishing", "frame"} \subseteq SweepPc
  BY DEF SweepPc, Handling
<1>2. ASSUME SweepStart(w) \/ SweepScan(w) \/ SweepClaim(w) \/ SweepDrop(w) \/ SweepUnlock(w)
      PROVE  Tracking' /\ Observed
  <2>1. /\ UNCHANGED <<row, told>> /\ UNCHANGED <<pc, mem, obj, out, buf>>
        /\ \E p \in {"scan", "claim", "reread", "unlock", "idle"} : spc' = [spc EXCEPT ![w] = p]
    BY <1>2 DEF SweepStart, SweepScan, SweepClaim, SweepDrop, SweepUnlock, SweepGoto,
       redis, memory, tasks
  <2> QED BY <1>1, <1>f, <2>1 DEF Pending
<1>3. CASE SweepFrameCheck(w)
  <2>1. /\ UNCHANGED <<row, told>> /\ UNCHANGED <<pc, mem, obj, out, buf>>
        /\ spc[w] = "frame"
        /\ \E p \in {"drop", "publishing"} : spc' = [spc EXCEPT ![w] = p]
    BY <1>3 DEF SweepFrameCheck, SweepGoto, redis, memory, tasks
  <2>2. row = "failed"
    BY <1>b, <2>1 DEF SweepTracks
  <2> QED BY <1>1, <1>f, <2>1, <2>2 DEF Pending
<1>4. CASE SweepReread(w)
  <2>1. spc[w] \in Deciding /\ UNCHANGED <<row, told>> /\ UNCHANGED <<pc, obj, out, buf>>
    BY <1>4 DEF SweepReread, Deciding, Handling, redis, tasks
  <2>2. View(w) = row /\ ViewObj(w) = NoOne
    BY <2>1, Unserved DEF Finality
  <2>3. /\ mem' = mem
        /\ \E p \in {"drop", "bump", "cas", "unlock"} :
             spc' = [spc EXCEPT ![w] = p] /\ (p = "bump" => row = "pending")
    BY <1>4, <1>e, <2>2 DEF SweepReread, Condemn, SweepGoto
  <2> QED BY <1>1, <1>f, <2>1, <2>3 DEF Pending
<1>5. ASSUME SweepBump(w) \/ SweepRequeue(w)
      PROVE  Tracking' /\ Observed
  <2>1. spc[w] \in Pending /\ row' \in {row, "pending"} /\ told' = told
        /\ UNCHANGED <<pc, obj, out, buf>>
    BY <1>5 DEF SweepBump, SweepRequeue, Pending, tasks
  <2>2. mem' = mem /\ \E p \in {"cas", "requeue", "handoff"} : spc' = [spc EXCEPT ![w] = p]
    BY <1>5, <1>c, <1>e, <2>1 DEF SweepBump, SweepRequeue, Condemn, SweepGoto
  <2> QED BY <1>1, <1>c, <1>f, <2>1, <2>2 DEF Pending
<1>6. CASE \E r \in Runs : SweepHandoff(w, r)
  <2> PICK r \in Runs : SweepHandoff(w, r)
    BY <1>6
  <2>1. spc[w] \in Pending /\ UNCHANGED <<row, told>>
    BY DEF SweepHandoff, Pending
  <2>2. CASE Condemn(w, tgt[w], SweepStatus(w), FALSE) /\ UNCHANGED tasks
    <3>1. spc' = [spc EXCEPT ![w] = "cas"] /\ UNCHANGED <<pc, mem, obj, out, buf>>
      BY <1>c, <1>e, <2>1, <2>2 DEF Condemn, SweepGoto, tasks
    <3> QED BY <1>1, <1>f, <2>1, <3>1 DEF Pending
  <2>3. CASE /\ Spawn(r, w, IF tgt[w] = NoOne THEN r ELSE tgt[w])
             /\ SweepGoto(w, "drop") /\ UNCHANGED mem
    <3>1. /\ pc[r] = "idle" /\ pc' = [pc EXCEPT ![r] = "accepted"]
          /\ obj' = [obj EXCEPT ![r] = r] /\ UNCHANGED mem
          /\ spc' = [spc EXCEPT ![w] = "drop"]
      BY <1>c, <2>1, <2>3 DEF Spawn, Goto, SweepGoto
    <3>2. Tracks(r)'
      BY <1>0, <1>c, <2>1, <3>1 DEF Tracking, Tracks
    <3>3. \A q \in Runs : pc[q] \notin Live
      BY <2>1, SweepHolds DEF Deciding, Handling, Pending
    <3>4. \A q \in Runs \ {r} : Tracks(q)'
      BY <1>0, <3>1, <3>3, IdleTracks
    <3>5. \A v \in Workers : spc'[v] = IF v = w THEN "drop" ELSE spc[v]
      BY <1>0, <3>1
    <3>6. \A v \in Workers : SweepTracks(v)'
      BY <1>b, <2>1, <3>5 DEF SweepTracks, Pending
    <3> QED BY <1>d, <2>1, <3>2, <3>4, <3>6 DEF Tracking
  <2> QED BY <2>2, <2>3 DEF SweepHandoff
<1>7. CASE SweepCas(w)
  <2>1. spc[w] = "cas" /\ told' = told /\ UNCHANGED <<pc, mem, obj, out, buf>>
    BY <1>7 DEF SweepCas, tasks
  <2>2. CASE row' = row /\ SweepGoto(w, "drop")
    BY <1>1, <1>f, <2>1, <2>2 DEF SweepGoto, Pending
  <2>3. CASE row = seen[w] /\ row' = "failed" /\ SweepGoto(w, "frame")
    <3>1. ~IsTerminal(row) /\ (Writable => told = {})
      BY <1>b, <2>1, <2>3 DEF Finality, Decided, ToldTracks
    <3>2. /\ row # "none" /\ \A r \in Runs : pc[r] \notin Live
          /\ \A v \in Workers \ {w} : spc[v] = "idle"
      BY <2>1, SweepHolds DEF Deciding, Handling
    <3>3. \A v \in Workers : spc'[v] = IF v = w THEN "frame" ELSE "idle"
      BY <1>0, <2>3, <3>2 DEF SweepGoto
    <3>4. \A v \in Workers : SweepTracks(v)'
      BY <2>3, <3>3 DEF SweepTracks, Pending
    <3>5. ToldTracks'
      BY <2>1, <3>1 DEF ToldTracks
    <3>6. Observed
      BY <1>0, <2>1, <2>3, <3>1, <3>2, Observes
    <3> QED BY <2>1, <3>2, <3>4, <3>5, <3>6, RunsStay DEF Tracking
  <2>4. CASE ~Writable /\ row = seen[w] /\ row' = "failed" /\ SweepGoto(w, "drop")
    <3>1. ~IsTerminal(row)
      BY <2>1, <2>4 DEF Finality, Decided
    <3>2. /\ row # "none" /\ \A r \in Runs : pc[r] \notin Live
          /\ \A v \in Workers \ {w} : spc[v] = "idle"
      BY <2>1, SweepHolds DEF Deciding, Handling
    <3>3. \A v \in Workers : spc'[v] = IF v = w THEN "drop" ELSE "idle"
      BY <1>0, <2>4, <3>2 DEF SweepGoto
    <3>4. ToldTracks' /\ \A v \in Workers : SweepTracks(v)'
      BY <2>4, <3>3 DEF SweepTracks, Pending, ToldTracks
    <3>5. Observed
      BY <1>0, <2>4, <3>1, <3>2, Observes
    <3> QED BY <2>1, <3>2, <3>4, <3>5, RunsStay DEF Tracking
  <2> QED BY <1>7, <1>a, <2>2, <2>3, <2>4 DEF SweepCas
<1>8. CASE SweepFramePublish(w)
  <2>1. /\ spc[w] = "publishing" /\ spc' = [spc EXCEPT ![w] = "drop"]
        /\ told' \in {told, told \cup {"failed"}} /\ UNCHANGED row
        /\ UNCHANGED <<pc, mem, obj, out, buf>>
    BY <1>8 DEF SweepFramePublish, SweepGoto, memory, tasks
  <2>2. row = "failed" /\ IsTerminal(row)
    BY <1>b, <2>1 DEF SweepTracks, IsTerminal, TERMINAL_STATUSES
  <2>3. Writable => told' = told \/ told' = {row}
    BY <1>b, <2>1, <2>2 DEF ToldTracks
  <2>4. \A v \in Workers : spc'[v] = IF v = w THEN "drop" ELSE spc[v]
    BY <1>0, <2>1
  <2>5. \A v \in Workers : SweepTracks(v)'
    BY <1>b, <2>1, <2>4 DEF SweepTracks, Pending
  <2>6. ToldTracks'
    BY <1>b, <2>1, <2>2, <2>3 DEF ToldTracks, IsTerminal
  <2>7. Observed
    BY <1>0, <2>1, <2>2, <2>3, Observes
  <2> QED BY <2>1, <2>5, <2>6, <2>7, RunsStay DEF Tracking
<1>9. ~SweepTimeout(w)
  BY NoStall DEF SweepTimeout, TypeOK, Steady
<1> QED BY <1>2, <1>3, <1>4, <1>5, <1>6, <1>7, <1>8, <1>9 DEF SweepStep

\* A resume request shows a parked job parked, at most early.
LEMMA ClientStepTracks ==
  ASSUME Steady, TypeOK, Exclusion, Finality, Tracking, NEW c \in Clients, ClientStep(c)
  PROVE  Tracking' /\ Observed
<1>0. RedisOK /\ pc \in [Runs -> RunPc]
  BY DEF TypeOK, TasksOK
<1>b. ~IsTerminal(Parked) /\ Parked \notin {"none", "pending", "running", "failed"}
  BY DEF IsTerminal, TERMINAL_STATUSES, Parked
<1>1. ASSUME NEW w \in Workers, ResumeRead(c, w) PROVE Tracking' /\ Observed
  <2>1. /\ up[w] = "serving" /\ View(w) = Parked /\ row' = Parked
        /\ UNCHANGED <<told, spc>> /\ UNCHANGED <<pc, mem, obj, out, buf>>
    BY <1>1 DEF ResumeRead, Steady, tasks, sweeps
  <2>2. CASE row = Parked
    <3>1. \A v \in Workers : SweepTracks(v)'
      BY <2>1, <2>2 DEF Tracking, SweepTracks
    <3>2. ToldTracks'
      BY <2>1, <2>2 DEF Tracking, ToldTracks
    <3>3. Observed
      BY <1>0, <2>1, <2>2, Observes
    <3> QED BY <2>1, <2>2, <3>1, <3>2, <3>3, RunsStay DEF Tracking
  <2>3. CASE row # Parked
    <3>1. PICK q \in Runs : pc[q] \in Live \ Announcing /\ mem[q] = Parked
      BY <2>1, <2>3 DEF View, Serves, Finality, Cached, TypeOK, MemoryOK
    <3>2. ~IsTerminal(row) /\ (Writable => told = {})
      BY <3>1, StillOpen DEF Finality, Tracking, ToldTracks
    <3>3. /\ pc[q] \notin {"accepted", "queued", "starting", "stream", "unparking", "persist",
                           "persisting", "frame", "publishing", "release"}
          /\ pc[q] \in {"accepted", "queued", "starting", "stream", "parking", "subscribing",
                        "parked", "hydrated", "unparking", "persist", "persisting"}
      <4>1. pc[q] \in {"accepted", "queued", "starting", "stream", "parking", "subscribing",
                       "parked", "hydrated", "unparking", "persist", "persisting"}
        BY <3>1 DEF Live, Working, Ending, Announcing
      <4>2. Tracks(q) /\ out[q] \in TERMINAL_STATUSES
        BY <3>1 DEF Tracking, TypeOK, TasksOK
      <4>3. out[q] # Parked
        BY <4>2, <1>b DEF IsTerminal
      <4> QED BY <1>b, <3>1, <4>1, <4>2, <4>3 DEF Tracks
    <3>4. pc[q] = "parking" /\ row = "running"
      BY <2>3, <3>1, <3>3 DEF Tracking, Tracks
    <3>5. Tracks(q)'
      BY <2>1, <3>1, <3>4 DEF Tracking, Tracks
    <3>6. \A r \in Runs \ {q} : Tracks(r)'
      BY <2>1, <3>1, RunHolds, IdleTracks
    <3>7. \A v \in Workers : SweepTracks(v)'
      BY <2>1, <3>1, RunHolds DEF SweepTracks, Deciding, Handling, Pending
    <3>8. ToldTracks'
      BY <2>1, <3>2 DEF ToldTracks
    <3>9. Observed
      BY <1>0, <2>1, <3>4, Observes
    <3> QED BY <3>5, <3>6, <3>7, <3>8, <3>9 DEF Tracking
  <2> QED BY <2>2, <2>3
<1>2. ~ResumeWrite(c)
  BY DEF ResumeWrite, Finality, Whole
<1>3. CASE ResumePublish(c)
  <2>1. /\ UNCHANGED <<row, told, spc>> /\ UNCHANGED <<mem, obj, out, buf>>
        /\ \A r \in Runs : pc'[r] = pc[r] \/ (pc[r] = "parked" /\ pc'[r] = "hydrated")
    BY <1>3 DEF ResumePublish, redis, sweeps
  <2>2. \A r \in Runs : Tracks(r)'
    BY <2>1 DEF Tracking, Tracks
  <2>3. ToldTracks' /\ \A v \in Workers : SweepTracks(v)'
    BY <2>1 DEF Tracking, ToldTracks, SweepTracks, IsTerminal
  <2>4. Observed
    BY <1>0, <2>1, Observes
  <2> QED BY <2>2, <2>3, <2>4 DEF Tracking
<1> QED BY <1>1, <1>2, <1>3 DEF ClientStep

\* What stops a process shows nothing by itself.
LEMMA WorldStepTracks ==
  ASSUME Steady, TypeOK, Exclusion, Finality, Tracking,
         \/ \E w \in Workers, r \in Runs : Submit(w, r)
         \/ \E w \in Workers : Crash(w) \/ Shutdown(w) \/ CancelTasks(w) \/ Restart(w)
         \/ LeaseExpire \/ LockExpire \/ TtlLapse
  PROVE  Tracking' /\ Observed
<1>0. /\ spc \in [Workers -> SweepPc] /\ pc \in [Runs -> RunPc] /\ obj \in [Runs -> Runs]
      /\ mem \in [Runs -> JobStatus] /\ out \in [Runs -> TERMINAL_STATUSES]
      /\ RedisOK
  BY DEF TypeOK, SweepsOK, TasksOK, MemoryOK
<1>b. ToldTracks /\ \A r \in Runs : Tracks(r)
  BY DEF Tracking
<1>d. UNCHANGED <<row, told>> => ToldTracks' /\ Observed
  BY <1>0, <1>b, Observes DEF ToldTracks, IsTerminal
<1>1. ASSUME NEW w \in Workers, NEW r \in Runs, Submit(w, r) PROVE Tracking' /\ Observed
  <2>1. /\ row = "none" /\ row' = "pending" /\ pc[r] = "idle"
        /\ pc' = [pc EXCEPT ![r] = "accepted"] /\ obj' = [obj EXCEPT ![r] = r]
        /\ UNCHANGED <<told, mem, spc>>
    BY <1>1 DEF Submit, Spawn, Goto, sweeps
  <2>2. Tracks(r)'
    BY <1>0, <1>b, <2>1 DEF Tracks
  <2>3. \A q \in Runs : pc[q] \notin Live
    BY <2>1 DEF Exclusion, Unborn
  <2>4. \A q \in Runs \ {r} : Tracks(q)'
    BY <1>0, <2>1, <2>3, IdleTracks
  <2>5. \A v \in Workers : SweepTracks(v)'
    BY <2>1 DEF Exclusion, Unborn, SweepTracks, Pending, Handling
  <2>6. Writable => told = {}
    BY <1>b, <2>1 DEF ToldTracks, IsTerminal, TERMINAL_STATUSES
  <2>7. ToldTracks'
    BY <2>1, <2>6 DEF ToldTracks
  <2>8. Observed
    BY <1>0, <2>1, Observes
  <2> QED BY <2>2, <2>4, <2>5, <2>7, <2>8 DEF Tracking
<1>2. ASSUME NEW w \in Workers, Crash(w) \/ Shutdown(w) \/ CancelTasks(w) \/ Restart(w)
      PROVE  Tracking' /\ Observed
  <2>1. UNCHANGED <<row, told, obj, buf>>
    BY <1>2 DEF Crash, Shutdown, CancelTasks, Restart, redis, tasks
  <2>2. ASSUME NEW r \in Runs
        PROVE  \/ pc'[r] = pc[r] /\ mem'[r] = mem[r] /\ out'[r] = out[r]
               \/ pc'[r] \in {"done", "release"}
               \/ pc'[r] = "persist" /\ mem'[r] = "cancelled" /\ out'[r] = "cancelled"
    <3>1. CASE Shutdown(w) \/ Restart(w)
      BY <3>1 DEF Shutdown, Restart, tasks
    <3>2. CASE Crash(w)
      BY <3>2 DEF Crash
    <3>3. CASE CancelTasks(w)
      <4>1. /\ pc'[r] = IF r \in Of(w) THEN Interrupted(pc[r]) ELSE pc[r]
            /\ out'[r] = IF r \in Of(w) /\ pc[r] \in Working THEN "cancelled" ELSE out[r]
            /\ mem'[r] = IF r \in Of(w) /\ pc[r] \in Working THEN "cancelled" ELSE mem[r]
        <5>1. (\E q \in Of(w) : pc[q] \in Working /\ obj[q] = r)
                <=> (r \in Of(w) /\ pc[r] \in Working)
          BY <1>b DEF Tracks, Of
        <5> QED BY <3>3, <5>1 DEF CancelTasks
      <4>2. CASE r \in Of(w) /\ pc[r] \in Working
        BY <4>1, <4>2 DEF Interrupted, Working
      <4>3. CASE r \in Of(w) /\ pc[r] \notin Working
        BY <4>1, <4>3 DEF Interrupted, Working, Ending, Of, Live
      <4> QED BY <4>1, <4>2, <4>3
    <3> QED BY <1>2, <3>1, <3>2, <3>3
  <2>3. \A r \in Runs : Tracks(r)'
    BY <1>b, <2>1, <2>2 DEF Tracks
  <2>4. \A v \in Workers : spc'[v] = spc[v] \/ spc'[v] \in {"idle", "unlock", "drop"}
    BY <1>0, <1>2 DEF Crash, Shutdown, CancelTasks, Restart, SweepCancelled, SweepGoto, sweeps
  <2>5. \A v \in Workers : SweepTracks(v)'
    BY <2>1, <2>4 DEF Tracking, SweepTracks, Pending
  <2> QED BY <1>d, <2>1, <2>3, <2>5 DEF Tracking
<1>3. ASSUME LeaseExpire \/ LockExpire PROVE Tracking' /\ Observed
  <2>1. UNCHANGED <<row, told, spc>> /\ UNCHANGED <<pc, mem, obj, out, buf>>
    BY <1>3 DEF LeaseExpire, LockExpire, memory, tasks, sweeps
  <2>2. \A v \in Workers : SweepTracks(v)'
    BY <2>1 DEF Tracking, SweepTracks
  <2> QED BY <1>d, <2>1, <2>2, RunsStay DEF Tracking
<1>4. ~TtlLapse
  BY NoStall DEF TtlLapse, TypeOK, Steady
<1> QED BY <1>1, <1>2, <1>3, <1>4

-----------------------------------------------------------------------------
\* What a step of a steady fleet does to the invariant, and shows.
LEMMA StepTracks ==
  ASSUME Steady
  PROVE  TypeOK /\ Exclusion /\ Finality /\ Tracking /\ [Next]_vars => Tracking' /\ Observed
<1>1. ASSUME TypeOK, Exclusion, Finality, Tracking, Next PROVE Tracking' /\ Observed
  BY <1>1, RunStepTracks, SweepStepTracks, ClientStepTracks, WorldStepTracks DEF Next
<1>2. ASSUME Tracking, UNCHANGED vars PROVE Tracking' /\ Observed
  BY <1>2 DEF vars, redis, memory, tasks, sweeps, Tracking, Tracks, SweepTracks, ToldTracks,
     IsTerminal, Observed
<1> QED BY <1>1, <1>2

\* The invariant behind the refinement.
THEOREM TrackingHolds == ASSUME Steady PROVE Spec => [](overtaken \/ Tracking)
<1>1. Init => Tracking
  BY DEF Init, Tracking, Tracks, SweepTracks, ToldTracks, Pending
<1>2. Spec => [](overtaken \/ Exclusion) /\ [](overtaken \/ Finality)
  BY Excludes, FinalityHolds DEF Steady
<1> QED BY <1>1, <1>2, StepTracks, HistoryGrows, TypeCorrect, PTL DEF Spec

\* Whatever crashes, is requeued or is answered, polls and streams of a job show
\* a run of JobOutcome for as long as no sweep overtakes a run: one life from
\* accepted to one outcome, and no frame that contradicts it.
THEOREM RuntimeImplementsOutcome == ASSUME Orderly PROVE Spec => OutcomeSpec
<1>1. Init => Outcome!Init
  BY DEF Init, Outcome!Init
<1>2. Spec => [](overtaken \/ Exclusion) /\ [](overtaken \/ Finality) /\ [](overtaken \/ Tracking)
  BY Excludes, FinalityHolds, TrackingHolds DEF Orderly, Steady
<1>3. TypeOK /\ (overtaken \/ Exclusion) /\ (overtaken \/ Finality) /\ (overtaken \/ Tracking) /\
        [Next]_vars => [Outcome!Next \/ overtaken]_(Outcome!vars)
  BY StepTracks DEF Orderly, Observed, Outcome!vars
<1> QED BY <1>1, <1>2, <1>3, TypeCorrect, PTL DEF Spec, OutcomeSpec

\* Whatever crashes, and whichever commands raise, the writes of the row
\* included: until a sweep overtakes a run, polls show one life of the job, from
\* accepted to one outcome, in which it succeeds only out of running and nothing
\* follows the outcome.
THEOREM PollsImplementOutcome == ASSUME Steady PROVE Spec => PollSpec
<1>1. Init => Polls!Init
  BY DEF Init, Polls!Init
<1>2. Spec => [](overtaken \/ Exclusion) /\ [](overtaken \/ Finality) /\ [](overtaken \/ Tracking)
  BY Excludes, FinalityHolds, TrackingHolds DEF Steady
<1>3. TypeOK /\ (overtaken \/ Exclusion) /\ (overtaken \/ Finality) /\ (overtaken \/ Tracking) /\
        [Next]_vars => [Polls!Next \/ overtaken]_(Polls!vars)
  <2>1. [Polls!Next]_row => [Polls!Next]_(Polls!vars)
    BY DEF Polls!vars
  <2> QED BY <2>1, StepTracks DEF Observed
<1> QED BY <1>1, <1>2, <1>3, TypeCorrect, PTL DEF Spec, PollSpec
-----------------------------------------------------------------------------
(* Requeues are bounded.                                                   *)

Started == {r \in Runs : pc[r] # "idle"}

\* A sweep that has counted a requeue and not made it yet.
Owing == {"requeue", "handoff"}
Owed  == IF \E w \in Workers : spc[w] \in Owing THEN 1 ELSE 0

\* A sweep acts on the row it has read, which is pending when it requeues, and
\* forgets the counter only of a job that has ended.
SweepsCounted ==
  \A w \in Workers :
    /\ spc[w] \in Pending \cup {"cas"} => seen[w] = row
    /\ spc[w] \in Pending => row = "pending"
    /\ dead[w] /\ spc[w] # "cas" => IsTerminal(row)

Counted ==
  /\ IsFiniteSet(Started)
  /\ row = "none" => Started = {} /\ Owed = 0
  /\ Cardinality(Started) + Owed <= 1 + MaxAttempts + faults
  /\ IsTerminal(row) \/ Cardinality(Started) + Owed <= 1 + attempts + faults
  /\ SweepsCounted

\* A row is never taken back.
Listed == row' = "none" => row = "none"

LEMMA RowsStayListed == ASSUME TypeOK, Next PROVE Listed
<1>0. "none" \notin JobStatus /\ buf \in [Runs -> JobStatus]
  BY DEF TypeOK, TasksOK, JobStatus, PARKED_STATUSES, TERMINAL_STATUSES
<1>1. ASSUME NEW r \in Runs, RunStep(r) PROVE Listed
  <2>1. CASE StartWrite(r) \/ ParkWrite(r) \/ UnparkWrite(r)
    <3>1. Parked # "none"
      BY DEF Parked
    <3> QED BY <2>1, <3>1 DEF StartWrite, ParkWrite, UnparkWrite, NonTerminalWrite, Listed
  <2>2. CASE PersistWrite(r) \/ PersistGiveUp(r)
    BY <1>0, <2>2 DEF PersistWrite, PersistGiveUp, Listed
  <2>3. CASE \/ AcquireLease(r) \/ RetryAcquire(r) \/ LeaseLost(r) \/ TakePermit(r) \/ Pause(r)
             \/ Subscribe(r) \/ Wake(r) \/ ParkTimeout(r) \/ Finish(r) \/ JobTimeout(r)
             \/ PersistCheck(r) \/ FrameCheck(r) \/ FramePublish(r) \/ ReleaseLease(r)
    BY <2>3 DEF AcquireLease, RetryAcquire, LeaseLost, TakePermit, Pause, Subscribe, Wake,
       ParkTimeout, Finish, JobTimeout, PersistCheck, FrameCheck, FramePublish, ReleaseLease,
       redis, Listed
  <2> QED BY <1>1, <2>1, <2>2, <2>3 DEF RunStep
<1>2. ASSUME NEW w \in Workers, SweepStart(w) \/ SweepStep(w) \/ SweepTimeout(w) PROVE Listed
  <2>1. CASE SweepRequeue(w) \/ SweepCas(w)
    BY <2>1 DEF SweepRequeue, SweepCas, Listed
  <2>2. CASE \/ SweepStart(w) \/ SweepScan(w) \/ SweepClaim(w) \/ SweepReread(w) \/ SweepBump(w)
             \/ (\E r \in Runs : SweepHandoff(w, r)) \/ SweepFrameCheck(w) \/ SweepFramePublish(w)
             \/ SweepDrop(w) \/ SweepUnlock(w) \/ SweepTimeout(w)
    BY <2>2 DEF SweepStart, SweepScan, SweepClaim, SweepReread, SweepBump, SweepHandoff,
       SweepFrameCheck, SweepFramePublish, SweepDrop, SweepUnlock, SweepTimeout, redis, Listed
  <2> QED BY <1>2, <2>1, <2>2 DEF SweepStep
<1>3. ASSUME NEW c \in Clients, ClientStep(c) PROVE Listed
  BY <1>3 DEF ClientStep, ResumeRead, ResumeWrite, ResumePublish, redis, Parked, Listed
<1>4. ASSUME \/ \E w \in Workers, r \in Runs : Submit(w, r)
             \/ \E w \in Workers : Crash(w) \/ Shutdown(w) \/ CancelTasks(w) \/ Restart(w)
             \/ LeaseExpire \/ LockExpire \/ TtlLapse
      PROVE  Listed
  BY <1>4 DEF Submit, Crash, Shutdown, CancelTasks, Restart, LeaseExpire, LockExpire, TtlLapse,
     redis, Listed
<1> QED BY <1>1, <1>2, <1>3, <1>4 DEF Next

\* What a step has to show when it starts no run and counts no requeue.
LEMMA CountStays ==
  ASSUME TypeOK, TypeOK', Counted, Listed, IsTerminal(row) => row' = row,
         \A r \in Runs : pc'[r] = "idle" <=> pc[r] = "idle",
         \A w \in Workers : spc'[w] \in Owing => spc[w] \in Owing,
         faults' >= faults, attempts' >= attempts \/ IsTerminal(row'), SweepsCounted'
  PROVE  Counted'
<1>1. Started' = Started
  BY DEF Started
<1>2. Owed' <= Owed /\ Owed \in {0, 1} /\ Owed' \in {0, 1}
  BY DEF Owed
<1>3. Cardinality(Started) \in Nat
  BY FS_CardinalityType DEF Counted
<1>4. row' = "none" => row = "none"
  BY DEF Listed
<1>5. /\ {faults, faults', attempts, attempts', MaxAttempts} \subseteq Nat
  BY ConstantsAssumption DEF TypeOK, BoundsOK, RedisOK
<1> DEFINE n == Cardinality(Started)
<1>6. n + Owed' <= 1 + MaxAttempts + faults'
  BY <1>2, <1>3, <1>5 DEF Counted
<1>7. IsTerminal(row') \/ n + Owed' <= 1 + attempts' + faults'
  <2>1. CASE IsTerminal(row')
    BY <2>1
  <2>2. CASE ~IsTerminal(row')
    <3>1. ~IsTerminal(row)
      BY <2>2
    <3> QED BY <1>2, <1>3, <1>5, <2>2, <3>1 DEF Counted
  <2> QED BY <2>1, <2>2
<1> QED BY <1>1, <1>2, <1>4, <1>6, <1>7 DEF Counted

\* A fault is counted, and nothing else about the bounds goes back.
LEMMA FaultCounts ==
  ASSUME BoundsOK, UNCHANGED bounds \/ \E op \in Ops : Fault(op) \/ Stall
  PROVE  faults' >= faults
  BY DEF BoundsOK, Fault, Stall, bounds

\* No step of a run starts another.
LEMMA RunStepCounts ==
  ASSUME Steady, TypeOK, TypeOK', Exclusion, Counted, Listed,
         IsTerminal(row) => row' = row, NEW r \in Runs, RunStep(r)
  PROVE  Counted'
<1>1. /\ UNCHANGED <<spc, seen, dead, attempts>> /\ pc[r] \in Live
      /\ \E p \in Live \cup {"done"} : pc' = [pc EXCEPT ![r] = p]
  <2>0. pc = [pc EXCEPT ![r] = pc[r]]
    BY DEF TypeOK, TasksOK
  <2>1. CASE AcquireLease(r) \/ RetryAcquire(r) \/ LeaseLost(r) \/ TakePermit(r) \/ Pause(r)
    BY <2>0, <2>1 DEF AcquireLease, RetryAcquire, LeaseLost, TakePermit, Pause, Goto, sweeps, redis,
       Live, Working, Ending
  <2>2. CASE StartWrite(r) \/ ParkWrite(r) \/ UnparkWrite(r)
    BY <2>2 DEF StartWrite, ParkWrite, UnparkWrite, NonTerminalWrite, End, Goto, sweeps,
       Live, Working, Ending
  <2>3. CASE Subscribe(r) \/ Wake(r) \/ ParkTimeout(r) \/ Finish(r) \/ JobTimeout(r)
    BY <2>3 DEF Subscribe, Wake, ParkTimeout, Finish, JobTimeout, End, Goto, sweeps, redis,
       Live, Working, Ending
  <2>4. CASE PersistCheck(r) \/ PersistWrite(r) \/ PersistGiveUp(r) \/ FrameCheck(r)
             \/ FramePublish(r) \/ ReleaseLease(r)
    BY <2>4 DEF PersistCheck, PersistWrite, PersistGiveUp, FrameCheck, FramePublish,
       ReleaseLease, Goto, sweeps, redis, Live, Ending
  <2> QED BY <2>1, <2>2, <2>3, <2>4 DEF RunStep
<1>2. \A q \in Runs : pc'[q] = "idle" <=> pc[q] = "idle"
  BY <1>1 DEF TypeOK, TasksOK, Live, Working, Ending
<1>3. UNCHANGED bounds \/ \E op \in Ops : Fault(op)
  BY DEF RunStep, AcquireLease, RetryAcquire, LeaseLost, TakePermit, StartWrite, Pause, ParkWrite,
     Subscribe, Wake, ParkTimeout, UnparkWrite, Finish, JobTimeout, PersistCheck, PersistWrite,
     PersistGiveUp, FrameCheck, FramePublish, ReleaseLease, NonTerminalWrite, Ops, bounds
<1>4. faults' >= faults
  BY <1>3, FaultCounts DEF TypeOK
<1>5. SweepsCounted'
  <2>1. \A w \in Workers : spc[w] \notin Pending \cup {"cas"}
    BY <1>1, RunHolds DEF Deciding, Handling, Pending
  <2> QED BY <1>1, <2>1 DEF Counted, SweepsCounted
<1>6. attempts' >= attempts
  BY <1>1 DEF TypeOK, RedisOK
<1> QED BY <1>1, <1>2, <1>4, <1>5, <1>6, CountStays

\* A sweep starts a run only for a requeue that was counted.
LEMMA SweepStepCounts ==
  ASSUME Steady, TypeOK, TypeOK', Exclusion, Finality, Counted, Listed,
         IsTerminal(row) => row' = row, NEW w \in Workers,
         SweepStart(w) \/ SweepStep(w) \/ SweepTimeout(w)
  PROVE  Counted'
<1>0. /\ spc \in [Workers -> SweepPc] /\ seen \in [Workers -> JobStatus \cup {"none"}]
      /\ dead \in [Workers -> BOOLEAN] /\ pc \in [Runs -> RunPc]
      /\ {attempts, attempts', faults, faults', MaxAttempts} \subseteq Nat
  BY ConstantsAssumption DEF TypeOK, SweepsOK, TasksOK, RedisOK, BoundsOK
<1>b. SweepsCounted
  BY DEF Counted
<1>c. spc[w] \in Pending =>
        row = "pending" /\ tgt[w] = NoOne /\ SweepStatus(w) = row /\ ~IsTerminal(row)
  BY <1>b, StillOpen DEF Finality, Decided, SweepStatus, SweepsCounted
<1>d. UNCHANGED bounds \/ (\E op \in Ops : Fault(op) \/ Stall) => faults' >= faults
  BY FaultCounts DEF TypeOK
<1>1. ASSUME NEW p \in SweepPc, spc' = [spc EXCEPT ![w] = p], UNCHANGED pc,
             p \in Owing => spc[w] \in Owing,
             faults' >= faults, attempts' >= attempts \/ IsTerminal(row'),
             \A v \in Workers \ {w} : seen'[v] = seen[v] /\ dead'[v] = dead[v],
             row' = row \/ spc[w] # "idle",
             p \in Pending \cup {"cas"} => seen'[w] = row',
             p \in Pending => row' = "pending",
             dead'[w] /\ p # "cas" => IsTerminal(row')
      PROVE  Counted'
  <2>1. \A v \in Workers : spc'[v] = IF v = w THEN p ELSE spc[v]
    BY <1>0, <1>1
  <2>2. ASSUME NEW v \in Workers, v # w
        PROVE  /\ spc'[v] \in Pending \cup {"cas"} => seen'[v] = row'
               /\ spc'[v] \in Pending => row' = "pending"
               /\ dead'[v] /\ spc'[v] # "cas" => IsTerminal(row')
    <3>1. spc[v] \in Pending \cup {"cas"} => \A u \in Workers \ {v} : spc[u] = "idle"
      BY SweepHolds DEF Handling, Pending
    <3>2. /\ spc'[v] = spc[v] /\ seen'[v] = seen[v] /\ dead'[v] = dead[v]
          /\ spc[v] \in Pending \cup {"cas"} => seen[v] = row
          /\ spc[v] \in Pending => row = "pending"
          /\ dead[v] /\ spc[v] # "cas" => IsTerminal(row)
      BY <1>b, <1>1, <2>1, <2>2 DEF SweepsCounted
    <3>3. spc[v] \in Pending \cup {"cas"} => row' = row
      BY <1>1, <2>2, <3>1
    <3>4. IsTerminal(row) => IsTerminal(row')
      OBVIOUS
    <3> QED BY <3>2, <3>3, <3>4
  <2>3. SweepsCounted'
    BY <1>1, <2>1, <2>2 DEF SweepsCounted
  <2> QED BY <1>1, <2>1, <2>3, CountStays
<1>f. {"scan", "claim", "reread", "drop", "unlock", "idle", "cas", "bump", "requeue", "handoff",
       "publishing", "frame"} \subseteq SweepPc
  BY DEF SweepPc, Handling
<1>g. dead[w] /\ spc[w] # "cas" => IsTerminal(row)
  BY <1>b DEF SweepsCounted
<1>2. ASSUME SweepStart(w) \/ SweepScan(w) \/ SweepClaim(w) \/ SweepFrameCheck(w)
             \/ SweepFramePublish(w) \/ SweepUnlock(w)
      PROVE  Counted'
  <2>1. /\ spc[w] # "cas" /\ UNCHANGED <<row, attempts, pc, seen, dead>>
        /\ UNCHANGED faults \/ \E op \in Ops : Fault(op) \/ Stall
        /\ \E p \in {"scan", "claim", "reread", "unlock", "idle", "drop", "publishing"} :
             spc' = [spc EXCEPT ![w] = p]
    BY <1>2 DEF SweepStart, SweepScan, SweepClaim, SweepFrameCheck, SweepFramePublish, SweepUnlock,
       SweepGoto, redis, tasks, bounds, Ops
  <2>2. PICK p \in {"scan", "claim", "reread", "unlock", "idle", "drop", "publishing"} :
          spc' = [spc EXCEPT ![w] = p]
    BY <2>1
  <2>3. p \in SweepPc /\ p \notin Owing /\ p \notin Pending \cup {"cas"}
    BY <1>f DEF Owing, Pending
  <2>4. faults' >= faults /\ attempts' >= attempts
    BY <1>0, <1>d, <2>1 DEF TypeOK, BoundsOK
  <2>5. dead'[w] => IsTerminal(row')
    BY <1>g, <2>1
  <2> QED BY <1>1, <2>1, <2>2, <2>3, <2>4, <2>5
<1>3. CASE SweepDrop(w)
  <2>1. /\ spc[w] = "drop" /\ spc' = [spc EXCEPT ![w] = "unlock"] /\ UNCHANGED <<row, pc>>
        /\ attempts' = (IF dead[w] THEN 0 ELSE attempts)
        /\ seen' = [seen EXCEPT ![w] = "pending"] /\ dead' = [dead EXCEPT ![w] = FALSE]
        /\ UNCHANGED bounds \/ \E op \in Ops : Fault(op) \/ Stall
    BY <1>3 DEF SweepDrop, ForgetSweep, SweepGoto, tasks, Ops
  <2>2. attempts' >= attempts \/ IsTerminal(row')
    BY <1>0, <1>g, <2>1
  <2>3. dead'[w] = FALSE /\ \A v \in Workers \ {w} : seen'[v] = seen[v] /\ dead'[v] = dead[v]
    BY <1>0, <2>1
  <2> QED BY <1>1, <1>d, <1>f, <2>1, <2>2, <2>3 DEF Pending, Owing
<1>4. CASE SweepReread(w)
  <2>1. /\ spc[w] = "reread" /\ UNCHANGED <<row, attempts, pc>>
        /\ UNCHANGED bounds \/ \E op \in Ops : Fault(op) \/ Stall
    BY <1>4 DEF SweepReread, redis, tasks, Ops
  <2>2. View(w) = row
    BY <2>1, Unserved DEF Finality, Deciding, Handling
  <2>3. \/ \E p \in {"drop", "unlock"} : spc' = [spc EXCEPT ![w] = p] /\ UNCHANGED <<seen, dead>>
        \/ /\ spc' = [spc EXCEPT ![w] = "bump"] /\ row = "pending"
           /\ seen' = [seen EXCEPT ![w] = row] /\ UNCHANGED dead
        \/ /\ spc' = [spc EXCEPT ![w] = "cas"]
           /\ seen' = [seen EXCEPT ![w] = row] /\ dead' = [dead EXCEPT ![w] = FALSE]
    BY <1>4, <2>2 DEF SweepReread, Condemn, SweepGoto
  <2>a. faults' >= faults /\ attempts' >= attempts
    BY <1>0, <1>d, <2>1
  <2>b. ~dead[w] \/ IsTerminal(row')
    BY <1>g, <2>1
  <2>4. ASSUME NEW p \in {"drop", "unlock"}, spc' = [spc EXCEPT ![w] = p], UNCHANGED <<seen, dead>>
        PROVE  Counted'
    <3>1. p \in SweepPc /\ p \notin Owing /\ p \notin Pending \cup {"cas"}
      BY <1>f DEF Owing, Pending
    <3> QED BY <1>1, <2>1, <2>a, <2>b, <2>4, <3>1
  <2>5. CASE /\ spc' = [spc EXCEPT ![w] = "bump"] /\ row = "pending"
             /\ seen' = [seen EXCEPT ![w] = row] /\ UNCHANGED dead
    <3>1. seen'[w] = row /\ \A v \in Workers \ {w} : seen'[v] = seen[v]
      BY <1>0, <2>5
    <3>2. "bump" \in SweepPc /\ "bump" \notin Owing
      BY <1>f DEF Owing
    <3> QED BY <1>1, <2>1, <2>a, <2>b, <2>5, <3>1, <3>2
  <2>6. CASE /\ spc' = [spc EXCEPT ![w] = "cas"]
             /\ seen' = [seen EXCEPT ![w] = row] /\ dead' = [dead EXCEPT ![w] = FALSE]
    <3>1. seen'[w] = row /\ \A v \in Workers \ {w} : seen'[v] = seen[v] /\ dead'[v] = dead[v]
      BY <1>0, <2>6
    <3>2. "cas" \in SweepPc /\ "cas" \notin Owing \cup Pending
      BY <1>f DEF Owing, Pending
    <3> QED BY <1>1, <2>1, <2>a, <2>6, <3>1, <3>2
  <2> QED BY <2>3, <2>4, <2>5, <2>6
<1>5. CASE SweepBump(w)
  <2>1. /\ spc[w] = "bump" /\ UNCHANGED <<row, pc>>
        /\ attempts' \in {attempts, attempts + 1}
        /\ UNCHANGED bounds \/ \E op \in Ops : Fault(op) \/ Stall
    BY <1>5 DEF SweepBump, tasks, Ops
  <2>2. seen[w] = row /\ spc[w] \in Pending
    BY <1>b, <2>1 DEF SweepsCounted, Pending
  <2>3. CASE Condemn(w, tgt[w], SweepStatus(w), TRUE)
    <3>1. /\ spc' = [spc EXCEPT ![w] = "cas"] /\ seen' = [seen EXCEPT ![w] = row]
          /\ dead' = [dead EXCEPT ![w] = TRUE]
      BY <1>c, <2>2, <2>3 DEF Condemn, SweepGoto
    <3>2. seen'[w] = row /\ \A v \in Workers \ {w} : seen'[v] = seen[v] /\ dead'[v] = dead[v]
      BY <1>0, <3>1
    <3>3. "cas" \in SweepPc /\ "cas" \notin Owing \cup Pending
      BY <1>f DEF Owing, Pending
    <3>4. faults' >= faults /\ attempts' >= attempts
      BY <1>0, <1>d, <2>1
    <3> QED BY <1>1, <2>1, <3>1, <3>2, <3>3, <3>4
  <2>4. CASE /\ \/ attempts' = attempts + 1 /\ attempts' <= MaxAttempts /\ UNCHANGED bounds
                \/ Fault("bump") /\ attempts' \in {attempts, attempts + 1}
             /\ SweepGoto(w, "requeue") /\ UNCHANGED <<seen, tgt, dead>>
    <3>1. \A v \in Workers : spc'[v] = IF v = w THEN "requeue" ELSE "idle"
      BY <1>0, <2>1, <2>4, SweepHolds DEF SweepGoto, Handling
    <3>2. Owed = 0 /\ Owed' = 1
      <4>1. \A v \in Workers : spc[v] \notin Owing
        BY <2>1, SweepHolds DEF Handling, Owing
      <4>2. spc'[w] \in Owing
        BY <3>1 DEF Owing
      <4> QED BY <4>1, <4>2 DEF Owed
    <3>3. Started' = Started
      BY <2>1 DEF Started
    <3> DEFINE n == Cardinality(Started)
    <3>4. n \in Nat /\ row # "none" /\ ~IsTerminal(row)
      BY <1>c, <2>2, FS_CardinalityType DEF Counted
    <3>5. n <= 1 + attempts + faults /\ n <= 1 + MaxAttempts + faults
      BY <1>0, <3>2, <3>4 DEF Counted
    <3>6. \/ attempts' = attempts + 1 /\ attempts' <= MaxAttempts /\ faults' = faults
          \/ faults' = faults + 1 /\ attempts' >= attempts
      BY <1>0, <2>4 DEF Fault, bounds
    <3>7. n + 1 <= 1 + MaxAttempts + faults' /\ n + 1 <= 1 + attempts' + faults'
      BY <1>0, <3>4, <3>5, <3>6
    <3>8. SweepsCounted'
      <4>1. ASSUME NEW v \in Workers, spc'[v] \in Pending \cup {"cas"}
            PROVE  seen'[v] = row' /\ row' = "pending"
        BY <1>c, <2>1, <2>2, <2>4, <3>1, <4>1 DEF Pending
      <4>2. ASSUME NEW v \in Workers, dead'[v] PROVE IsTerminal(row')
        <5>1. spc[v] # "cas"
          BY <2>1, SweepHolds DEF Handling
        <5> QED BY <1>b, <2>1, <2>4, <3>4, <4>2, <5>1 DEF SweepsCounted
      <4> QED BY <4>1, <4>2 DEF SweepsCounted
    <3> QED BY <2>1, <3>2, <3>3, <3>4, <3>7, <3>8 DEF Counted
  <2> QED BY <1>5, <2>3, <2>4 DEF SweepBump
<1>6. CASE SweepRequeue(w)
  <2>1. /\ spc[w] = "requeue" /\ row' \in {row, "pending"} /\ UNCHANGED <<attempts, pc>>
        /\ UNCHANGED bounds \/ \E op \in Ops : Fault(op) \/ Stall
        /\ \/ spc' = [spc EXCEPT ![w] = "handoff"] /\ UNCHANGED <<seen, dead>>
           \/ Condemn(w, tgt[w], SweepStatus(w), FALSE)
    BY <1>6 DEF SweepRequeue, SweepGoto, tasks, Ops
  <2>2. row' = row /\ seen[w] = row /\ row = "pending" /\ spc[w] \in Owing
    BY <1>b, <1>c, <2>1 DEF SweepsCounted, Pending, Owing
  <2>3. faults' >= faults /\ attempts' >= attempts
    BY <1>0, <1>d, <2>1
  <2>4. CASE spc' = [spc EXCEPT ![w] = "handoff"] /\ UNCHANGED <<seen, dead>>
    <3>1. dead'[w] => IsTerminal(row')
      BY <1>g, <2>1, <2>2, <2>4
    <3> QED BY <1>1, <1>f, <2>1, <2>2, <2>3, <2>4, <3>1
  <2>5. CASE Condemn(w, tgt[w], SweepStatus(w), FALSE)
    <3>1. /\ spc' = [spc EXCEPT ![w] = "cas"] /\ seen' = [seen EXCEPT ![w] = row]
          /\ dead' = [dead EXCEPT ![w] = FALSE]
      BY <1>c, <2>1, <2>5 DEF Condemn, SweepGoto, Pending
    <3>2. seen'[w] = row /\ \A v \in Workers \ {w} : seen'[v] = seen[v] /\ dead'[v] = dead[v]
      BY <1>0, <3>1
    <3>3. "cas" \in SweepPc /\ "cas" \notin Owing \cup Pending /\ dead'[w] = FALSE
      BY <1>0, <1>f, <3>1 DEF Owing, Pending
    <3> QED BY <1>1, <2>1, <2>2, <2>3, <3>1, <3>2, <3>3
  <2> QED BY <2>1, <2>4, <2>5
<1>7. CASE \E r \in Runs : SweepHandoff(w, r)
  <2> PICK r \in Runs : SweepHandoff(w, r)
    BY <1>7
  <2>1. /\ spc[w] = "handoff" /\ spc[w] \in Pending /\ UNCHANGED <<row, attempts>>
        /\ UNCHANGED bounds \/ \E op \in Ops : Fault(op) \/ Stall
    BY DEF SweepHandoff, Pending, Ops
  <2>2. CASE Condemn(w, tgt[w], SweepStatus(w), FALSE) /\ UNCHANGED tasks
    <3>1. /\ spc' = [spc EXCEPT ![w] = "cas"] /\ seen' = [seen EXCEPT ![w] = row]
          /\ dead' = [dead EXCEPT ![w] = FALSE] /\ UNCHANGED pc
      BY <1>c, <2>1, <2>2 DEF Condemn, SweepGoto, tasks
    <3>2. seen'[w] = row /\ \A v \in Workers \ {w} : seen'[v] = seen[v] /\ dead'[v] = dead[v]
      BY <1>0, <3>1
    <3>3. "cas" \in SweepPc /\ "cas" \notin Owing \cup Pending
      BY <1>f DEF Owing, Pending
    <3>4. faults' >= faults /\ attempts' >= attempts
      BY <1>0, <1>d, <2>1
    <3> QED BY <1>1, <2>1, <3>1, <3>2, <3>3, <3>4
  <2>3. CASE /\ Spawn(r, w, IF tgt[w] = NoOne THEN r ELSE tgt[w])
             /\ SweepGoto(w, "drop") /\ UNCHANGED <<seen, dead, bounds>>
    <3>1. pc[r] = "idle" /\ pc' = [pc EXCEPT ![r] = "accepted"] /\ spc' = [spc EXCEPT ![w] = "drop"]
      BY <2>3 DEF Spawn, Goto, SweepGoto
    <3>2. \A v \in Workers : spc'[v] = IF v = w THEN "drop" ELSE "idle"
      BY <1>0, <2>1, <3>1, SweepHolds DEF Handling
    <3>3. Owed = 1 /\ Owed' = 0
      BY <2>1, <3>2 DEF Owed, Owing
    <3>4. Started' = Started \cup {r} /\ r \notin Started
      BY <1>0, <3>1 DEF Started
    <3> DEFINE n == Cardinality(Started)
    <3>5. n \in Nat /\ IsFiniteSet(Started') /\ Cardinality(Started') = n + 1
      BY <3>4, FS_AddElement, FS_CardinalityType DEF Counted
    <3>6. faults' = faults /\ attempts' = attempts /\ row # "none"
      BY <1>c, <2>1, <2>3 DEF bounds
    <3>7. SweepsCounted'
      <4>1. \A v \in Workers : spc'[v] \notin Pending \cup {"cas"}
        BY <3>2 DEF Pending
      <4>2. ASSUME NEW v \in Workers, dead'[v] PROVE IsTerminal(row')
        <5>1. spc[v] # "cas"
          BY <2>1, SweepHolds DEF Handling
        <5> QED BY <1>b, <2>1, <2>3, <4>2, <5>1 DEF SweepsCounted, IsTerminal
      <4> QED BY <4>1, <4>2 DEF SweepsCounted
    <3>8. n + 1 <= 1 + MaxAttempts + faults /\ (IsTerminal(row) \/ n + 1 <= 1 + attempts + faults)
      BY <3>3 DEF Counted
    <3>9. Cardinality(Started') + Owed' = n + 1
      BY <3>3, <3>5
    <3> QED BY <2>1, <3>5, <3>6, <3>7, <3>8, <3>9 DEF Counted, IsTerminal
  <2> QED BY <2>2, <2>3 DEF SweepHandoff
<1>8. CASE SweepCas(w)
  <2>1. /\ spc[w] = "cas" /\ UNCHANGED <<attempts, pc, seen>> /\ row = seen[w]
        /\ row' \in {row, "failed"}
        /\ UNCHANGED bounds \/ \E op \in Ops : Fault(op) \/ Stall
        /\ \/ row' = "failed" /\ spc' = [spc EXCEPT ![w] = "frame"] /\ UNCHANGED dead
           \/ spc' = [spc EXCEPT ![w] = "drop"] /\ dead' = [dead EXCEPT ![w] = FALSE]
    BY <1>8, <1>b DEF SweepCas, SweepGoto, SweepsCounted, tasks, Ops
  <2>2. faults' >= faults /\ attempts' >= attempts
    BY <1>0, <1>d, <2>1
  <2>3. /\ \A v \in Workers \ {w} : dead'[v] = dead[v]
        /\ dead'[w] => row' = "failed"
    BY <1>0, <2>1
  <2>4. {"frame", "drop"} \subseteq SweepPc \ (Owing \cup Pending \cup {"cas"}) /\ IsTerminal("failed")
    BY <1>f DEF Owing, Pending, IsTerminal, TERMINAL_STATUSES
  <2> QED BY <1>1, <2>1, <2>2, <2>3, <2>4
<1>9. ~SweepTimeout(w)
  BY NoStall DEF SweepTimeout, TypeOK, Steady
<1> QED BY <1>2, <1>3, <1>4, <1>5, <1>6, <1>7, <1>8, <1>9 DEF SweepStep

\* Answers start nothing.
LEMMA ClientStepCounts ==
  ASSUME Steady, TypeOK, TypeOK', Exclusion, Finality, Counted, Listed,
         IsTerminal(row) => row' = row, NEW c \in Clients, ClientStep(c)
  PROVE  Counted'
<1>1. UNCHANGED <<spc, seen, dead, attempts>>
  BY DEF ClientStep, ResumeRead, ResumeWrite, ResumePublish, sweeps, redis
<1>2. \A r \in Runs : pc'[r] = pc[r] \/ (pc[r] = "parked" /\ pc'[r] = "hydrated")
  BY DEF ClientStep, ResumeRead, ResumeWrite, ResumePublish, tasks
<1>3. UNCHANGED bounds \/ \E op \in Ops : Fault(op) \/ Stall
  BY DEF ClientStep, ResumeRead, ResumeWrite, ResumePublish, Ops
<1>4. faults' >= faults /\ attempts' >= attempts
  BY <1>1, <1>3, FaultCounts DEF TypeOK, RedisOK
<1>5. ASSUME NEW v \in Workers, spc[v] \in Deciding PROVE row' = row
  <2>1. \A w \in Workers : up[w] # "stopped" => View(w) = row
    BY <1>5, Unserved DEF Finality, View, Serves
  <2>2. ~ResumeWrite(c)
    BY DEF ResumeWrite, Finality, Whole
  <2> QED BY <2>1, <2>2 DEF ClientStep, ResumeRead, ResumePublish, redis, Steady
<1>6. SweepsCounted'
  <2>1. Pending \cup {"cas"} \subseteq Deciding
    BY DEF Deciding, Handling, Pending
  <2> QED BY <1>1, <1>5, <2>1 DEF Counted, SweepsCounted
<1> QED BY <1>1, <1>2, <1>4, <1>6, CountStays

\* A job is submitted once, and no stop starts a run.
LEMMA WorldStepCounts ==
  ASSUME Steady, TypeOK, TypeOK', Exclusion, Counted, Listed, IsTerminal(row) => row' = row,
         \/ \E w \in Workers, r \in Runs : Submit(w, r)
         \/ \E w \in Workers : Crash(w) \/ Shutdown(w) \/ CancelTasks(w) \/ Restart(w)
         \/ LeaseExpire \/ LockExpire \/ TtlLapse
  PROVE  Counted'
<1>0. /\ spc \in [Workers -> SweepPc] /\ seen \in [Workers -> JobStatus \cup {"none"}]
      /\ dead \in [Workers -> BOOLEAN] /\ pc \in [Runs -> RunPc]
      /\ {attempts, faults, MaxAttempts} \subseteq Nat
  BY ConstantsAssumption DEF TypeOK, SweepsOK, TasksOK, RedisOK, BoundsOK
<1>1. ASSUME NEW w \in Workers, NEW r \in Runs, Submit(w, r) PROVE Counted'
  <2>1. /\ row = "none" /\ row' = "pending" /\ pc[r] = "idle"
        /\ pc' = [pc EXCEPT ![r] = "accepted"]
        /\ UNCHANGED <<spc, seen, dead, attempts, faults>>
    BY <1>1 DEF Submit, Spawn, Goto, sweeps, bounds
  <2>2. Started = {} /\ Owed = 0 /\ Owed' = 0
    BY <2>1 DEF Counted, Owed
  <2>3. Started' = {} \cup {r}
    BY <1>0, <2>1, <2>2 DEF Started
  <2>4. IsFiniteSet(Started') /\ Cardinality(Started') = 1
    BY <2>3, FS_EmptySet, FS_AddElement
  <2>5. SweepsCounted'
    BY <2>1 DEF Counted, SweepsCounted, Exclusion, Unborn, Pending, Handling, IsTerminal,
       TERMINAL_STATUSES
  <2> QED BY <1>0, <2>1, <2>2, <2>4, <2>5 DEF Counted
<1>2. ASSUME NEW w \in Workers, Crash(w) \/ Shutdown(w) \/ CancelTasks(w) \/ Restart(w)
      PROVE  Counted'
  <2>1. UNCHANGED <<row, attempts, faults>>
    BY <1>2 DEF Crash, Shutdown, CancelTasks, Restart, redis, bounds
  <2>2. \A r \in Runs : pc'[r] = "idle" <=> pc[r] = "idle"
    <3>1. \A p \in Live : Interrupted(p) # "idle" /\ p # "idle"
      BY DEF Interrupted, Live, Working, Ending
    <3> QED BY <1>2, <3>1 DEF Crash, Shutdown, CancelTasks, Restart, Of, tasks
  <2>3. \A v \in Workers : \/ spc'[v] = spc[v] /\ seen'[v] = seen[v] /\ dead'[v] = dead[v]
                           \/ spc'[v] \in {"idle", "unlock", "drop"} /\ ~dead'[v]
    BY <1>0, <1>2 DEF Crash, Shutdown, CancelTasks, Restart, SweepCancelled, ForgetSweep, SweepGoto,
       sweeps
  <2>4. SweepsCounted'
    BY <2>1, <2>3 DEF Counted, SweepsCounted, Pending, IsTerminal
  <2>5. \A v \in Workers : spc'[v] \in Owing => spc[v] \in Owing
    BY <2>3 DEF Owing
  <2> QED BY <1>0, <2>1, <2>2, <2>4, <2>5, CountStays
<1>3. ASSUME LeaseExpire \/ LockExpire PROVE Counted'
  <2>1. UNCHANGED <<row, attempts, faults, pc, spc, seen, dead>>
    BY <1>3 DEF LeaseExpire, LockExpire, tasks, sweeps, bounds
  <2>2. SweepsCounted'
    BY <2>1 DEF Counted, SweepsCounted, IsTerminal
  <2> QED BY <1>0, <2>1, <2>2, CountStays
<1>4. ~TtlLapse
  BY NoStall DEF TtlLapse, TypeOK, Steady
<1> QED BY <1>1, <1>2, <1>3, <1>4

\* Until a sweep overtakes a run, a job that keeps killing its workers is started
\* no more often than the redriver's cap and the failures of the counter allow,
\* the start that is on its way included.
THEOREM RequeuesAreBounded == ASSUME Steady PROVE Spec => []RequeuesBounded
<1>1. Init => Counted
  <2> SUFFICES ASSUME Init PROVE Counted
    OBVIOUS
  <2>1. Started = {} /\ Owed = 0 /\ attempts = 0 /\ faults = 0 /\ MaxAttempts \in Nat
    BY ConstantsAssumption DEF Init, Started, Owed, Owing
  <2>2. SweepsCounted
    BY DEF Init, SweepsCounted, Pending
  <2> QED BY <2>1, <2>2, FS_EmptySet DEF Counted
<1>2. TypeOK /\ TypeOK' /\ Exclusion /\ Finality /\ Counted /\ [Next]_vars => Counted'
  <2>1. ASSUME TypeOK, TypeOK', Exclusion, Finality, Counted, Next PROVE Counted'
    <3>1. Listed
      BY <2>1, RowsStayListed
    <3>2. IsTerminal(row) => row' = row
      BY <2>1, StepFinal DEF vars, redis
    <3> QED BY <2>1, <3>1, <3>2, RunStepCounts, SweepStepCounts, ClientStepCounts,
            WorldStepCounts DEF Next
  <2>2. ASSUME Counted, UNCHANGED vars PROVE Counted'
    BY <2>2 DEF vars, redis, tasks, sweeps, bounds, Counted, Started, Owed, SweepsCounted, IsTerminal
  <2> QED BY <2>1, <2>2
<1>3. TypeOK /\ (overtaken \/ Exclusion) /\ (overtaken \/ Counted) => RequeuesBounded
  <2> SUFFICES ASSUME TypeOK, Exclusion, Counted PROVE RequeuesBounded
    BY DEF RequeuesBounded
  <2> DEFINE Deciders == {w \in Workers : spc[w] \in {"requeue", "handoff"}}
  <2>1. Cardinality(Deciders) = Owed
    <3>1. CASE Deciders = {}
      BY <3>1, FS_EmptySet DEF Owed, Owing
    <3>2. CASE Deciders # {}
      <4>1. PICK w \in Workers : spc[w] \in {"requeue", "handoff"}
        BY <3>2
      <4>2. Deciders = {w}
        BY <4>1, OneSweep DEF Exclusion
      <4> QED BY <4>1, <4>2, FS_Singleton DEF Owed, Owing
    <3> QED BY <3>1, <3>2
  <2>2. Cardinality(Started) + Cardinality(Deciders) <= 1 + MaxAttempts + faults
    BY <2>1 DEF Counted
  <2> QED BY <2>2 DEF RequeuesBounded, Started
<1>4. Spec => [](overtaken \/ Exclusion) /\ [](overtaken \/ Finality)
  BY Excludes, FinalityHolds DEF Steady
<1>5. Spec => [](overtaken \/ Counted)
  BY <1>1, <1>2, <1>4, HistoryGrows, TypeCorrect, PTL DEF Spec
<1> QED BY <1>3, <1>4, <1>5, TypeCorrect, PTL
=============================================================================
