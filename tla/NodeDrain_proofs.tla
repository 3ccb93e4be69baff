-------------------------- MODULE NodeDrain_proofs --------------------------
(***************************************************************************)
(* Proofs about NodeDrain: the types, the exact count of given-up threads, *)
(* and that no node runs without a permit or without being counted.        *)
(***************************************************************************)
EXTENDS NodeDrain, FiniteSetTheorems, TLAPS

\* Every variable starts in its type.
LEMMA InitType == Init => TypeOK
<1> SUFFICES ASSUME Init PROVE TypeOK
  OBVIOUS
<1>1. task \in [Jobs -> TaskPc] /\ thread \in [Jobs -> ThreadPc]
  BY DEF Init, TaskPc, ThreadPc
<1>2. nodes \in [Jobs -> Nat] /\ zombies \in Nat
  BY DEF Init
<1>3. cancelled \in [Jobs -> BOOLEAN] /\ gaveUp \in [Jobs -> BOOLEAN]
  BY DEF Init
<1>4. held \in SUBSET Jobs /\ stopping \in BOOLEAN
  BY DEF Init
<1> QED BY <1>1, <1>2, <1>3, <1>4 DEF TypeOK

\* Every step of a coroutine, of a thread or of the shutdown keeps the types.
LEMMA NextType == TypeOK /\ [Next]_vars => TypeOK'
<1> SUFFICES ASSUME TypeOK, [Next]_vars PROVE TypeOK'
  OBVIOUS
<1> USE DEF TypeOK, TaskPc, ThreadPc, TaskGoes, ThreadGoes, loop, pool
<1>1. CASE UNCHANGED vars
  BY <1>1 DEF vars
<1>2. CASE Shutdown
  <2>1. task' \in [Jobs -> TaskPc]
    BY <1>2 DEF Shutdown
  <2> QED BY <1>2, <2>1 DEF Shutdown
<1>3. ASSUME NEW j \in Jobs, TaskStep(j) PROVE TypeOK'
  <2>1. CASE Submit(j) \/ Acquire(j) \/ Dispatch(j)
    BY <2>1 DEF Submit, Acquire, Dispatch
  <2>2. CASE NodeDone(j) \/ End(j) \/ Expire(j) \/ Signal(j)
    BY <2>2 DEF NodeDone, End, Expire, Signal
  <2>3. CASE Drain(j) \/ DrainPoll(j)
    BY <2>3 DEF Drain, DrainPoll
  <2>4. CASE Abandon(j)
    BY <2>4 DEF Abandon
  <2>5. CASE Release(j)
    BY <2>5 DEF Release
  <2> QED BY <1>3, <2>1, <2>2, <2>3, <2>4, <2>5 DEF TaskStep
<1>4. ASSUME NEW j \in Jobs, ThreadStep(j) PROVE TypeOK'
  BY <1>4 DEF ThreadStep, Withdraw, Pick, Enter, Check, BodyEnds, Exit, Decremented
<1> QED BY <1>1, <1>2, <1>3, <1>4 DEF Next

\* Every variable keeps its type, for every set of jobs and any number of
\* permits: coroutines, threads and counters never leave their states.
THEOREM TypeCorrect == Spec => []TypeOK
  BY InitType, NextType, PTL DEF Spec

-----------------------------------------------------------------------------
\* Where a coroutine is when its permit is out.
Permitted == {"running", "awaiting", "expired", "writing", "draining",
              "givingup", "closing"}

\* Where it is once its token is set, if a thread is still there.
Signalled == {"writing", "draining", "givingup", "closing", "gone"}

\* The order the code relies on: the permit outlives the graph; a thread
\* belongs to a coroutine that awaits or was killed; what is left of one
\* after the token was set sees the token; and nobody passes the drain with
\* a running node uncounted.
Ordered(j) ==
  /\ task[j] \in Permitted => j \in held
  /\ thread[j] # "none" => task[j] \in {"awaiting", "expired"} \cup Signalled
  /\ thread[j] # "none" /\ task[j] \in Signalled => cancelled[j]
  /\ task[j] \in {"writing", "draining", "givingup"} => cancelled[j]
  /\ gaveUp[j] => task[j] \in {"closing", "gone"}
  /\ thread[j] = "body" /\ task[j] \in {"closing", "gone"} => gaveUp[j] \/ stopping

\* Nothing runs yet.
LEMMA InitOrdered == Init => \A j \in Jobs : Ordered(j)
  BY DEF Init, Ordered, Permitted, Signalled

\* A step of one job keeps the order of that job, and is no concern of the
\* others.
LEMMA StepOrdered ==
  ASSUME TypeOK, NEW i \in Jobs, Ordered(i),
         NEW j \in Jobs, TaskStep(j) \/ ThreadStep(j)
  PROVE Ordered(i)'
<1> USE DEF TypeOK, TaskPc, ThreadPc, Ordered, Permitted, Signalled, TaskGoes,
            ThreadGoes, Registered, loop, pool
<1>1. CASE Submit(j) \/ Acquire(j)
  BY <1>1 DEF Submit, Acquire
<1>2. CASE Dispatch(j)
  BY <1>2 DEF Dispatch
<1>3. CASE NodeDone(j)
  BY <1>3 DEF NodeDone
<1>4. CASE End(j)
  BY <1>4 DEF End
<1>5. CASE Expire(j)
  BY <1>5 DEF Expire
<1>6. CASE Signal(j)
  BY <1>6 DEF Signal
<1>7. CASE Drain(j)
  BY <1>7 DEF Drain
<1>8. CASE DrainPoll(j)
  BY <1>8 DEF DrainPoll
<1>9. CASE Abandon(j)
  BY <1>9 DEF Abandon
<1>10. CASE Release(j)
  BY <1>10 DEF Release
<1>11. CASE Withdraw(j) \/ Pick(j)
  BY <1>11 DEF Withdraw, Pick
<1>12. CASE Enter(j) \/ Exit(j) \/ BodyEnds(j)
  BY <1>12 DEF Enter, Exit, BodyEnds
<1>13. CASE Check(j)
  BY <1>13 DEF Check
<1> QED BY <1>1, <1>2, <1>3, <1>4, <1>5, <1>6, <1>7, <1>8, <1>9, <1>10,
           <1>11, <1>12, <1>13 DEF TaskStep, ThreadStep

\* The shutdown kills coroutines and drops the rest of their endings.
LEMMA ShutdownOrdered ==
  ASSUME TypeOK, NEW i \in Jobs, Ordered(i), Shutdown PROVE Ordered(i)'
<1>1. CASE task[i] \in {"running", "awaiting"}
  BY <1>1 DEF TypeOK, TaskPc, ThreadPc, Ordered, Permitted, Signalled, Shutdown
<1>2. CASE task[i] \in {"writing", "draining", "givingup"}
  BY <1>2 DEF TypeOK, TaskPc, ThreadPc, Ordered, Permitted, Signalled, Shutdown
<1>3. CASE task[i] \notin {"running", "awaiting", "writing", "draining", "givingup"}
  BY <1>3 DEF TypeOK, TaskPc, ThreadPc, Ordered, Permitted, Signalled, Shutdown
<1> QED BY <1>1, <1>2, <1>3

\* The order holds along every behaviour of the worker.
LEMMA AlwaysOrdered == Spec => [](\A j \in Jobs : Ordered(j))
<1>1. TypeOK /\ (\A j \in Jobs : Ordered(j)) /\ [Next]_vars => (\A j \in Jobs : Ordered(j))'
  <2> SUFFICES ASSUME TypeOK, \A j \in Jobs : Ordered(j), [Next]_vars,
                      NEW i \in Jobs
               PROVE Ordered(i)'
    OBVIOUS
  <2>1. CASE UNCHANGED vars
    BY <2>1 DEF vars, loop, pool, Ordered
  <2>2. CASE Shutdown
    BY <2>2, ShutdownOrdered
  <2>3. CASE \E j \in Jobs : TaskStep(j) \/ ThreadStep(j)
    BY <2>3, StepOrdered
  <2> QED BY <2>1, <2>2, <2>3 DEF Next
<1> QED BY <1>1, InitOrdered, TypeCorrect, PTL DEF Spec

\* No node runs without a permit and uncounted, except one whose drain the
\* shutdown cut short: the claim of ADR 0047 that a permit is not handed on
\* while the thread of its last job still runs unseen.
THEOREM NodesAreAccounted == Spec => []Accounted
<1>1. TypeOK /\ (\A j \in Jobs : Ordered(j)) => Accounted
  BY DEF TypeOK, TaskPc, ThreadPc, Ordered, Permitted, Signalled, Accounted, Bodies
<1> QED BY <1>1, AlwaysOrdered, TypeCorrect, PTL

\* A node's body starts only while its job holds its permit: registering
\* before checking leaves no window for a late start.
THEOREM NodesStartUnderPermit == Spec => StartsUnderPermit
<1>1. ASSUME TypeOK, \A j \in Jobs : Ordered(j), [Next]_vars, NEW i \in Jobs,
             thread[i] # "body", thread'[i] = "body"
      PROVE i \in held
  <2>1. \E j \in Jobs : Check(j)
    BY <1>1 DEF Next, vars, loop, pool, TypeOK, Shutdown, TaskStep, ThreadStep, Submit,
         Acquire, Dispatch, NodeDone, End, Expire, Signal, Drain, DrainPoll, Abandon,
         Release, Withdraw, Pick, Enter, BodyEnds, Exit, TaskGoes, ThreadGoes
  <2>2. thread[i] = "entered" /\ ~cancelled[i]
    BY <1>1, <2>1 DEF Check, ThreadGoes, TypeOK
  <2> QED BY <1>1, <2>2 DEF Ordered, Permitted, Signalled, TypeOK
<1>2. TypeOK /\ (\A j \in Jobs : Ordered(j)) /\ [Next]_vars =>
        [\A j \in Jobs : thread[j] # "body" /\ thread'[j] = "body" => j \in held]_vars
  BY <1>1
<1> QED BY <1>2, AlwaysOrdered, TypeCorrect, PTL DEF Spec, StartsUnderPermit

-----------------------------------------------------------------------------
\* The given-up threads are finitely many, and counting one in or out changes
\* their number by one.
LEMMA ZombieCount ==
  ASSUME NEW S \in SUBSET Jobs, NEW j \in Jobs
  PROVE  /\ IsFiniteSet(S) /\ Cardinality(S) \in Nat
         /\ j \notin S => Cardinality(S \cup {j}) = Cardinality(S) + 1
         /\ j \in S => /\ Cardinality(S) # 0
                       /\ Cardinality(S \ {j}) = Cardinality(S) - 1
<1>1. IsFiniteSet(S)
  BY FS_Subset, ConstantsAssumption
<1>2. Cardinality(S) \in Nat
  BY <1>1, FS_CardinalityType
<1>3. j \notin S => Cardinality(S \cup {j}) = Cardinality(S) + 1
  BY <1>1, FS_AddElement
<1>4. j \in S => Cardinality(S) # 0 /\ Cardinality(S \ {j}) = Cardinality(S) - 1
  BY <1>1, <1>2, FS_RemoveElement, FS_EmptySet
<1> QED BY <1>1, <1>2, <1>3, <1>4

\* A step of a coroutine counts a thread in exactly when it gives up on one.
LEMMA TaskStepCounts ==
  ASSUME TypeOK, ZombiesExact, NEW j \in Jobs, Ordered(j), TaskStep(j)
  PROVE ZombiesExact'
<1> USE DEF TypeOK, TaskPc, ThreadPc, TaskGoes, ThreadGoes, pool
<1>1. CASE Abandon(j) /\ Registered(j)
  <2>1. Zombies' = Zombies \cup {j}
    BY <1>1 DEF Abandon, Zombies, Registered
  <2>2. j \notin Zombies
    BY <1>1 DEF Abandon, Zombies, Ordered
  <2>3. Zombies \in SUBSET Jobs
    BY DEF Zombies
  <2> QED BY <1>1, <2>1, <2>2, <2>3, ZombieCount DEF Abandon, ZombiesExact
<1>2. CASE ~(Abandon(j) /\ Registered(j))
  <2>1. Zombies' = Zombies /\ zombies' = zombies
    <3>1. CASE Abandon(j)
      BY <1>2, <3>1 DEF Abandon, Zombies, Registered
    <3>2. CASE Submit(j) \/ Acquire(j) \/ Release(j) \/ Signal(j) \/ Drain(j) \/ DrainPoll(j) \/ End(j)
      BY <3>2 DEF Submit, Acquire, Release, Signal, Drain, DrainPoll, End, Zombies, Registered
    <3>3. CASE Dispatch(j) \/ NodeDone(j) \/ Expire(j)
      BY <3>3 DEF Dispatch, NodeDone, Expire, Zombies, Registered
    <3> QED BY <3>1, <3>2, <3>3 DEF TaskStep
  <2> QED BY <2>1 DEF ZombiesExact
<1> QED BY <1>1, <1>2

\* A thread counts itself in when it registers after a give-up, and out when
\* it returns.
LEMMA ThreadStepCounts ==
  ASSUME TypeOK, ZombiesExact, NEW j \in Jobs, ThreadStep(j)
  PROVE ZombiesExact'
<1> USE DEF TypeOK, ThreadPc, ThreadGoes, loop
<1>0. Zombies \in SUBSET Jobs
  BY DEF Zombies
<1>1. CASE Enter(j) /\ gaveUp[j]
  <2>1. Zombies' = Zombies \cup {j} /\ j \notin Zombies
    BY <1>1 DEF Enter, Zombies, Registered
  <2> QED BY <1>0, <1>1, <2>1, ZombieCount DEF Enter, ZombiesExact
<1>2. CASE Exit(j) /\ gaveUp[j]
  <2>1. Zombies' = Zombies \ {j} /\ j \in Zombies
    BY <1>2 DEF Exit, Zombies, Registered
  <2> QED BY <1>0, <1>2, <2>1, ZombieCount DEF Exit, ZombiesExact, Decremented
<1>3. CASE ~((Enter(j) \/ Exit(j)) /\ gaveUp[j])
  <2>1. Zombies' = Zombies /\ zombies' = zombies
    <3>1. CASE Enter(j) \/ Exit(j)
      BY <1>3, <3>1 DEF Enter, Exit, Zombies, Registered
    <3>2. CASE Withdraw(j) \/ Pick(j) \/ Check(j) \/ BodyEnds(j)
      BY <3>2 DEF Withdraw, Pick, Check, BodyEnds, Zombies, Registered
    <3> QED BY <3>1, <3>2 DEF ThreadStep
  <2> QED BY <2>1 DEF ZombiesExact
<1> QED BY <1>1, <1>2, <1>3

\* The counter /healthz adds to its active jobs is exactly the number of
\* threads the worker gave up on and that still run: no double count around
\* abandon, and the clamp at zero is never needed.
THEOREM ZombiesAreExact == Spec => []ZombiesExact
<1>1. Init => ZombiesExact
  <2>1. Init => Zombies = {}
    BY DEF Init, Zombies
  <2> QED BY <2>1, FS_EmptySet DEF Init, ZombiesExact
<1>2. ASSUME TypeOK, \A j \in Jobs : Ordered(j), ZombiesExact, [Next]_vars
      PROVE ZombiesExact'
  <2>1. CASE UNCHANGED vars
    BY <1>2, <2>1 DEF vars, loop, pool, ZombiesExact, Zombies, Registered
  <2>2. CASE Shutdown
    <3>1. Zombies' = Zombies
      BY <1>2, <2>2 DEF Shutdown, Zombies, Registered, TypeOK, ThreadPc
    <3> QED BY <1>2, <2>2, <3>1 DEF Shutdown, ZombiesExact
  <2>3. CASE \E j \in Jobs : TaskStep(j) \/ ThreadStep(j)
    BY <1>2, <2>3, TaskStepCounts, ThreadStepCounts
  <2> QED BY <1>2, <2>1, <2>2, <2>3 DEF Next
<1> QED BY <1>1, <1>2, AlwaysOrdered, TypeCorrect, PTL DEF Spec

\* A worker that /readyz calls ready has a thread for one more job: every
\* running node belongs to a task or is one of the counted zombies.
THEOREM ReadyWorkersHaveThreads == Spec => []ReadyFindsThread
<1>1. ASSUME TypeOK, \A j \in Jobs : Ordered(j), ZombiesExact PROVE ReadyFindsThread
  <2> SUFFICES ASSUME ~stopping, Active < Permits PROVE Cardinality(Bodies) < Permits
    BY DEF ReadyFindsThread
  <2>1. /\ IsFiniteSet(Tasks) /\ Cardinality(Tasks) \in Nat
        /\ IsFiniteSet(Zombies) /\ Cardinality(Zombies) \in Nat
    BY FS_Subset, FS_CardinalityType, ConstantsAssumption DEF Tasks, Zombies
  <2>2. Bodies \subseteq Tasks \cup Zombies
    BY <1>1 DEF TypeOK, TaskPc, ThreadPc, Ordered, Signalled, Bodies, Tasks, Zombies, Registered
  <2>3. /\ IsFiniteSet(Tasks \cup Zombies)
        /\ Cardinality(Tasks \cup Zombies) =
             Cardinality(Tasks) + Cardinality(Zombies) - Cardinality(Tasks \cap Zombies)
    BY <2>1, FS_Union
  <2>4. Cardinality(Tasks \cap Zombies) \in Nat
    BY <2>1, FS_Intersection, FS_CardinalityType
  <2>5. /\ IsFiniteSet(Bodies) /\ Cardinality(Bodies) \in Nat
        /\ Cardinality(Bodies) <= Cardinality(Tasks \cup Zombies)
    BY <2>2, <2>3, FS_Subset, FS_CardinalityType
  <2> QED BY <1>1, <2>1, <2>3, <2>4, <2>5, ConstantsAssumption DEF Active, ZombiesExact
<1> QED BY <1>1, ZombiesAreExact, AlwaysOrdered, TypeCorrect, PTL
=============================================================================
