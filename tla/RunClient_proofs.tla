--------------------------- MODULE RunClient_proofs ---------------------------
(***************************************************************************)
(* Proofs about RunClient, for every set of jobs and every bound: types and   *)
(* checkpoints always, the open stream on a page that only attaches, and the  *)
(* settle callback on a page with one run.                                   *)
(***************************************************************************)
EXTENDS RunClient, TLAPS

Screens == [phase : JobPhase, job : JobOrNone, suspended : BOOLEAN,
            connection : {"closed", "opening", "open", "reconnecting"},
            checkpoint : {"none", "current", "stale"}]

\* A screen the reducer may produce: only a run that is on its stream has an
\* open connection, and what it shows was observed on it.
Sound(s) ==
  /\ s \in Screens
  /\ s.connection = "open" => s.phase \in OnStream /\ s.checkpoint # "stale"

IInv ==
  /\ TypeOK
  /\ Sound(screen)
  /\ post.pc = "answered" => post.job \in Jobs
  /\ review.pc # "none" => review.job \in Jobs

-----------------------------------------------------------------------------
(* The reducer keeps a screen sound.                                        *)

LEMMA IdleSound == Sound(Idle) /\ \A j \in Jobs : Sound(Attaching(j))
BY DEF Sound, Screens, Idle, Attaching, JobPhase, JobOrNone

LEMMA ConnectionSound ==
  ASSUME NEW s, Sound(s), s.phase \in OnStream
  PROVE  /\ Sound(BeginConnection(s)) /\ BeginConnection(s).phase = s.phase
         /\ Sound(EnsureOpen(s)) /\ EnsureOpen(s).phase = s.phase
BY DEF Sound, Screens, BeginConnection, EnsureOpen

LEMMA AdoptSound ==
  ASSUME NEW s, Sound(s), NEW j \in Jobs, NEW status
  PROVE  Sound(Adopt(s, j, status))
<1>1. PhaseOf(status) \in {"settled", "awaiting_review", "live"} /\ (PhaseOf(status) = "settled" <=> status = "done")
  BY DEF PhaseOf
<1>2. CASE s.phase \in {"idle", "submitting", "submit_failed"}
  BY <1>2 DEF Adopt
<1>3. CASE s.phase \notin {"idle", "submitting", "submit_failed"}
  BY <1>1, <1>3 DEF Adopt, Sound, Screens, JobPhase, JobOrNone, OnStream
<1> QED
  BY <1>2, <1>3

LEMMA LearntSound ==
  ASSUME NEW s, Sound(s), NEW r \in Read
  PROVE  Sound(Learnt(s, r))
<1>1. r.job \in Jobs
  BY DEF Read
<1>2. Sound(Adopt(s, r.job, r.answer))
  BY <1>1, AdoptSound
<1>3. Sound(Missing(s))
  BY DEF Missing, Sound, Screens, JobPhase, OnStream
<1>4. Sound(Unreachable(s))
  BY DEF Unreachable, Sound, Screens, JobPhase, OnStream
<1> QED
  BY <1>2, <1>3, <1>4 DEF Learnt

LEMMA ReadOfTyped ==
  ASSUME NEW j \in Jobs
  PROVE  ReadOf(j) \in Read /\ [ReadOf(j) EXCEPT !.kind = "preflight"] \in Read
BY DEF ReadOf, Read

\* Superseding a request keeps it one.
LEMMA SupersededTyped ==
  ASSUME reads \in SUBSET Read
  PROVE  {IF r.kind = "preflight" THEN [r EXCEPT !.fresh = FALSE] ELSE r : r \in reads} \in SUBSET Read
BY DEF Read

-----------------------------------------------------------------------------
LEMMA InitHolds == Init => IInv
<1> SUFFICES ASSUME Init PROVE IInv
  OBVIOUS
<1>1. Sound(screen)
  BY IdleSound DEF Init
<1>2. fails \in 0 .. MaxFails
  BY ConstantsAssumption DEF Init
<1>3. server \in [Jobs -> ServerStatus]
  BY DEF Init, ServerStatus
<1> QED
  BY <1>1, <1>2, <1>3 DEF Init, IInv, TypeOK, Sound, Screens, JobOrNone

\* The server's side and the user's waits leave the screen alone.
LEMMA ServerKeeps ==
  ASSUME IInv, \/ \E j \in Jobs : Advance(j)
               \/ PostServed \/ ReviewServed
               \/ \E r \in reads : ReadServed(r)
  PROVE  IInv'
<1> USE DEF IInv
<1>0. UNCHANGED <<screen, refs, source, told>>
  BY DEF Advance, PostServed, ReviewServed, ReadServed
<1>1. Sound(screen')
  BY <1>0
<1>2. ASSUME NEW j \in Jobs, Advance(j) PROVE IInv'
  <2>1. server' \in [Jobs -> ServerStatus]
    BY <1>2 DEF Advance, TypeOK, ServerStatus, Over
  <2> QED
    BY <1>1, <1>2, <2>1 DEF Advance, TypeOK
<1>3. CASE PostServed
  <2>1. server' \in [Jobs -> ServerStatus]
    BY <1>3 DEF PostServed, TypeOK, ServerStatus
  <2>2. fails' \in 0 .. MaxFails
    <3>1. fails' = fails \/ (fails < MaxFails /\ fails' = fails + 1)
      BY <1>3 DEF PostServed, Failing
    <3>2. fails \in 0 .. MaxFails
      BY DEF TypeOK
    <3> HIDE DEF IInv
    <3> QED
      BY <3>1, <3>2, ConstantsAssumption
  <2>3. post' \in [pc : {"none", "sent", "answered", "failed"}, job : JobOrNone, current : BOOLEAN]
    BY <1>3 DEF PostServed, TypeOK, JobOrNone
  <2>4. post'.pc = "answered" => post'.job \in Jobs
    BY <1>3 DEF PostServed, TypeOK
  <2> QED
    BY <1>1, <1>3, <2>1, <2>2, <2>3, <2>4 DEF PostServed, TypeOK
<1>4. CASE ReviewServed
  <2>1. fails' \in 0 .. MaxFails
    BY <1>4, ConstantsAssumption DEF ReviewServed, Failing, TypeOK
  <2>2. review' \in [pc : {"none", "sent", "accepted", "conflict", "failed"}, job : JobOrNone] /\ review'.job = review.job
    BY <1>4 DEF ReviewServed, TypeOK
  <2> QED
    BY <1>1, <1>4, <2>1, <2>2 DEF ReviewServed, TypeOK
<1>5. ASSUME NEW r \in reads, ReadServed(r) PROVE IInv'
  <2>1. fails' \in 0 .. MaxFails
    BY <1>5, ConstantsAssumption DEF ReadServed, Failing, TypeOK
  <2>2. r \in Read /\ server[r.job] \in ServerStatus
    BY DEF TypeOK, Read
  <2>3. [r EXCEPT !.answer = server[r.job]] \in Read /\ [r EXCEPT !.answer = "unreachable"] \in Read
    BY <2>2 DEF Read
  <2>4. reads' \in SUBSET Read
    BY <1>5, <2>3 DEF ReadServed, TypeOK
  <2> QED
    BY <1>1, <1>5, <2>1, <2>4 DEF ReadServed, TypeOK
<1> QED
  BY <1>2, <1>3, <1>4, <1>5

\* What an attach makes of the state.
LEMMA BeginAttachKeeps ==
  ASSUME IInv, NEW j \in Jobs, BeginAttach(j)
  PROVE  /\ Sound(screen') /\ told' \in Nat /\ reads' \in SUBSET Read
         /\ refs' \in [attached : JobOrNone, current : JobOrNone, notified : JobOrNone, suspended : JobOrNone]
<1>1. Sound(screen')
  BY IdleSound DEF BeginAttach
<1>2. reads' \in SUBSET Read
  <2>1. reads \in SUBSET Read
    BY DEF IInv, TypeOK
  <2> QED
    BY <2>1, ReadOfTyped, SupersededTyped DEF BeginAttach
<1>3. refs' \in [attached : JobOrNone, current : JobOrNone, notified : JobOrNone, suspended : JobOrNone]
  BY DEF BeginAttach, IInv, TypeOK, JobOrNone
<1> QED
  BY <1>1, <1>2, <1>3 DEF BeginAttach

LEMMA UserKeeps ==
  ASSUME IInv, \/ Submit \/ Reset \/ SendReview \/ PageHide \/ PageShow \/ Poll
               \/ \E j \in Jobs : Attach(j)
  PROVE  IInv'
<1> USE DEF IInv
<1>1. ASSUME NEW j \in Jobs, Attach(j) PROVE IInv'
  BY <1>1, BeginAttachKeeps DEF Attach, TypeOK, Sound, Screens, JobOrNone
<1>2. CASE Submit
  <2>1. Sound(screen')
    BY <1>2 DEF Submit, Idle, Sound, Screens, JobPhase, JobOrNone
  <2> QED
    BY <1>2, <2>1 DEF Submit, TypeOK, Sound, Screens, JobOrNone
<1>3. CASE Reset
  <2>1. post' \in [pc : {"none", "sent", "answered", "failed"}, job : JobOrNone, current : BOOLEAN]
        /\ post'.pc = post.pc /\ post'.job = post.job
    BY <1>3 DEF Reset, TypeOK
  <2> QED
    BY <1>3, <2>1, IdleSound DEF Reset, TypeOK, Sound, Screens, JobOrNone
<1>4. CASE SendReview
  BY <1>4 DEF SendReview, TypeOK, JobOrNone
<1>5. CASE PageHide
  <2>1. Sound(screen')
    BY <1>5 DEF PageHide, Sound, Screens
  <2> QED
    BY <1>5, <2>1 DEF PageHide, TypeOK, Sound, Screens, JobOrNone
<1>6. CASE PageShow
  <2>1. refs.suspended \in Jobs
    BY <1>6 DEF PageShow, TypeOK, JobOrNone
  <2>2. CASE refs.attached = refs.suspended
    <3>1. Sound(screen')
      BY <1>6, <2>2 DEF PageShow, Sound, Screens
    <3> QED
      BY <1>6, <2>2, <3>1 DEF PageShow, TypeOK, Sound, Screens, JobOrNone
  <2>3. CASE refs.attached # refs.suspended
    <3>1. Sound(screen')
      BY <1>6, <2>1, <2>3, IdleSound DEF PageShow
    <3>2. reads' \in SUBSET Read
      <4>1. reads \in SUBSET Read
        BY DEF TypeOK
      <4> QED
        BY <1>6, <2>1, <2>3, <4>1, ReadOfTyped, SupersededTyped DEF PageShow
    <3> QED
      BY <1>6, <2>1, <2>3, <3>1, <3>2 DEF PageShow, TypeOK, Sound, Screens, JobOrNone
  <2> QED
    BY <2>2, <2>3
<1>7. CASE Poll
  <2>1. refs.current \in Jobs
    BY <1>7 DEF Poll, TypeOK, JobOrNone
  <2> QED
    BY <1>7, <2>1, ReadOfTyped DEF Poll, TypeOK
<1> QED
  BY <1>1, <1>2, <1>3, <1>4, <1>5, <1>6, <1>7

\* An answer that is dispatched.
LEMMA NotifyTyped ==
  ASSUME IInv, NEW r \in Read, Notify(r)
  PROVE  /\ told' \in Nat
         /\ refs' \in [attached : JobOrNone, current : JobOrNone, notified : JobOrNone, suspended : JobOrNone]
BY DEF IInv, TypeOK, Notify, Read, JobOrNone

LEMMA ReturnedKeeps == ASSUME IInv, Returned PROVE IInv'
<1> USE DEF IInv
<1>1. CASE Submitted
  <2>1. CASE post.current
    <3>1. post.job \in Jobs /\ BeginAttach(post.job)
      BY <1>1, <2>1 DEF Submitted
    <3> QED
      BY <1>1, <3>1, BeginAttachKeeps DEF Submitted, TypeOK, Sound, Screens, JobOrNone
  <2>2. CASE ~post.current
    BY <1>1, <2>2 DEF Submitted, TypeOK, JobOrNone
  <2> QED
    BY <2>1, <2>2
<1>2. CASE SubmitRejected
  <2>1. Sound(screen')
    BY <1>2 DEF SubmitRejected, Sound, Screens, JobPhase, OnStream
  <2> QED
    BY <1>2, <2>1 DEF SubmitRejected, TypeOK, Sound, Screens, JobOrNone
<1>3. CASE ReviewReturns
  <2>1. Sound(screen')
    BY <1>3 DEF ReviewReturns, Sound, Screens, JobPhase, OnStream
  <2>2. reads' \in SUBSET Read
    <3>1. review.job \in Jobs /\ reads \in SUBSET Read
      BY <1>3 DEF ReviewReturns, TypeOK
    <3>2. ReadOf(review.job) \in Read
      BY <3>1, ReadOfTyped
    <3>3. reads' = reads \/ reads' = reads \cup {ReadOf(review.job)}
      BY <1>3 DEF ReviewReturns
    <3> HIDE DEF IInv
    <3> QED
      BY <3>1, <3>2, <3>3
  <2> QED
    BY <1>3, <2>1, <2>2 DEF ReviewReturns, TypeOK, Sound, Screens, JobOrNone
<1>4. ASSUME NEW r \in reads, ReadReturns(r) PROVE IInv'
  <2>1. r \in Read
    BY DEF TypeOK
  <2>2. Sound(screen') /\ source' \in JobOrNone
    BY <1>4, <2>1, LearntSound DEF ReadReturns, Closing, TypeOK, JobOrNone
  <2> QED
    BY <1>4, <2>1, <2>2, NotifyTyped DEF ReadReturns, TypeOK, Sound, Screens
<1>5. ASSUME NEW r \in reads, PreflightReturns(r) PROVE IInv'
  <2>1. r \in Read /\ r.job \in Jobs
    BY DEF TypeOK, Read
  <2>2. CASE r.fresh
    <3>1. Sound(screen') /\ source' \in JobOrNone
      BY <1>5, <2>1, <2>2, LearntSound DEF PreflightReturns, Closing, TypeOK, JobOrNone
    <3> QED
      BY <1>5, <2>1, <2>2, <3>1, NotifyTyped DEF PreflightReturns, TypeOK, Sound, Screens
  <2>3. CASE ~r.fresh
    BY <1>5, <2>3 DEF PreflightReturns, TypeOK
  <2> QED
    BY <2>2, <2>3
<1> QED
  BY <1>1, <1>2, <1>3, <1>4, <1>5 DEF Returned

LEMMA StreamKeeps == ASSUME IInv, Stream PROVE IInv'
<1> USE DEF IInv
<1>0. /\ Sound(screen) /\ (Sound(Reconnected(screen)) \/ screen.connection = "open")
      /\ screen \in Screens /\ Reconnected(screen) \in Screens
      /\ Reconnected(screen).phase = screen.phase /\ Reconnected(screen).connection = screen.connection
  BY DEF Sound, Screens, Reconnected
<1>1. CASE StreamOpened
  <2>1. Sound(screen')
    BY <1>0, <1>1 DEF StreamOpened, BeginConnection, Sound, Screens, JobPhase, OnStream
  <2> QED
    BY <1>1, <2>1 DEF StreamOpened, TypeOK, Sound, Screens
<1>2. CASE StreamInterrupted
  <2>1. Sound(screen')
    BY <1>2 DEF StreamInterrupted, Sound, Screens
  <2> QED
    BY <1>2, <2>1 DEF StreamInterrupted, TypeOK, Sound, Screens
<1>3. CASE StreamFailed
  <2>1. Sound(screen')
    BY <1>3 DEF StreamFailed, Sound, Screens, JobPhase
  <2> QED
    BY <1>3, <2>1 DEF StreamFailed, TypeOK, Sound, Screens, JobOrNone
<1>4. CASE NodeCompleted
  <2>1. Sound(screen')
    BY <1>4, ConnectionSound DEF NodeCompleted, Sound, Screens, JobPhase, OnStream
  <2> QED
    BY <1>4, <2>1 DEF NodeCompleted, TypeOK, Sound, Screens
<1>5. CASE PlanReady
  <2>1. Sound(screen')
    BY <1>5, ConnectionSound DEF PlanReady, Sound, Screens, JobPhase, OnStream
  <2> QED
    BY <1>5, <2>1 DEF PlanReady, TypeOK, Sound, Screens
<1>6. CASE TerminalFrame
  <2>1. Sound(screen')
    BY <1>6, ConnectionSound DEF TerminalFrame, Sound, Screens, JobPhase
  <2>2. source \in Jobs
    BY <1>6 DEF TerminalFrame, TypeOK, JobOrNone
  <2> QED
    BY <1>6, <2>1, <2>2, ReadOfTyped DEF TerminalFrame, TypeOK, Sound, Screens, JobOrNone
<1>7. CASE StreamTimeout
  <2>1. Sound(screen')
    BY <1>7, ConnectionSound DEF StreamTimeout, Sound, Screens
  <2> QED
    BY <1>7, <2>1 DEF StreamTimeout, TypeOK, Sound, Screens
<1> QED
  BY <1>1, <1>2, <1>3, <1>4, <1>5, <1>6, <1>7 DEF Stream

LEMMA StepKeeps == IInv /\ [Next]_vars => IInv'
<1> SUFFICES ASSUME IInv, [Next]_vars PROVE IInv'
  OBVIOUS
<1>1. CASE User
  BY <1>1, UserKeeps DEF User
<1>2. CASE Stream
  BY <1>2, StreamKeeps
<1>3. CASE Served \/ \E j \in Jobs : Advance(j)
  BY <1>3, ServerKeeps DEF Served
<1>4. CASE Returned
  BY <1>4, ReturnedKeeps
<1>5. CASE Poll
  BY <1>5, UserKeeps
<1>6. CASE UNCHANGED vars
  BY <1>6 DEF vars, IInv, TypeOK
<1> QED
  BY <1>1, <1>2, <1>3, <1>4, <1>5, <1>6 DEF Next

LEMMA Inductive == Spec => []IInv
<1>1. Init => IInv
  BY InitHolds
<1>2. IInv /\ [Next]_vars => IInv'
  BY StepKeeps
<1> QED
  BY <1>1, <1>2, PTL DEF Spec

\* The reducer and the hook's refs keep their types, whatever order answers
\* and frames come in.
THEOREM TypeCorrect == Spec => []TypeOK
<1>1. IInv => TypeOK
  BY DEF IInv
<1> QED
  BY <1>1, Inductive, PTL

\* beginConnection and ensureOpen: no open connection shows a checkpoint that
\* was observed on an earlier one.
THEOREM CheckpointsOfConnection == Spec => []CheckpointOfConnection
<1>1. IInv => CheckpointOfConnection
  BY DEF IInv, Sound, CheckpointOfConnection
<1> QED
  BY <1>1, Inductive, PTL

-----------------------------------------------------------------------------
(* A page whose user only attaches: submit and reset leave a pre-flight GET   *)
(* its freshness, attach does not.                                          *)

AttachesOnly == Acts \cap {"submit", "reset"} = {}

\* The pre-flight GET that may still open a stream is that of the current job.
Routed ==
  /\ post.pc = "none"
  /\ \A r \in reads : r.kind = "preflight" /\ r.fresh => r.job = refs.current
  /\ StreamOfCurrent

\* A superseded request opens nothing, and the new one is for the new job.
LEMMA OnlyNewestFresh ==
  ASSUME reads \in SUBSET Read, NEW j \in Jobs,
         NEW q \in {IF r.kind = "preflight" THEN [r EXCEPT !.fresh = FALSE] ELSE r : r \in reads}
                  \cup {[ReadOf(j) EXCEPT !.kind = "preflight"]},
         q.kind = "preflight", q.fresh
  PROVE  q.job = j
<1>1. CASE q = [ReadOf(j) EXCEPT !.kind = "preflight"]
  BY <1>1 DEF ReadOf
<1>2. ASSUME NEW r \in reads, q = IF r.kind = "preflight" THEN [r EXCEPT !.fresh = FALSE] ELSE r
      PROVE  FALSE
  BY <1>2 DEF Read
<1> QED
  BY <1>1, <1>2

\* A plain read is never the pre-flight one.
LEMMA PlainReads == \A j \in Jobs : ReadOf(j).kind = "read"
BY DEF ReadOf

LEMMA RoutedStep ==
  ASSUME AttachesOnly, IInv, Routed, [Next]_vars
  PROVE  Routed'
<1> USE DEF Routed, StreamOfCurrent
<1>0. /\ reads \in SUBSET Read /\ refs.current \in JobOrNone
      /\ refs \in [attached : JobOrNone, current : JobOrNone, notified : JobOrNone, suspended : JobOrNone]
  BY DEF IInv, TypeOK
<1>1. ASSUME NEW j \in Jobs, Attach(j) PROVE Routed'
  BY <1>0, <1>1, OnlyNewestFresh DEF Attach, BeginAttach
<1>2. CASE Submit \/ Reset
  BY <1>2 DEF Submit, Reset, AttachesOnly
<1>3. CASE SendReview
  BY <1>3 DEF SendReview
<1>4. CASE PageHide
  BY <1>0, <1>4 DEF PageHide
<1>5. CASE PageShow
  <2>1. refs.suspended \in Jobs
    BY <1>0, <1>5 DEF PageShow, JobOrNone
  <2>2. CASE refs.attached = refs.suspended
    BY <1>0, <1>5, <2>2 DEF PageShow
  <2>3. CASE refs.attached # refs.suspended
    <3>1. refs'.current = refs.suspended /\ source' = NoJob /\ post' = post
      BY <1>5, <2>3 DEF PageShow
    <3>2. reads' = {IF r.kind = "preflight" THEN [r EXCEPT !.fresh = FALSE] ELSE r : r \in reads}
                     \cup {[ReadOf(refs.suspended) EXCEPT !.kind = "preflight"]}
      BY <1>5, <2>3 DEF PageShow
    <3> QED
      BY <1>0, <2>1, <3>1, <3>2, OnlyNewestFresh
  <2> QED
    BY <2>2, <2>3
<1>6. CASE Poll
  <2>1. refs.current \in Jobs
    BY <1>0, <1>6 DEF Poll, JobOrNone
  <2> QED
    BY <1>6, <2>1, PlainReads DEF Poll
<1>7. CASE Stream
  <2>1. source' \in {source, NoJob} /\ UNCHANGED <<refs, post>>
    BY <1>7 DEF Stream, StreamOpened, StreamInterrupted, StreamFailed, NodeCompleted, PlanReady,
                TerminalFrame, StreamTimeout
  <2>2. \A r \in reads' : r \in reads \/ r.kind = "read"
    <3>1. reads' = reads \/ (source \in Jobs /\ reads' = reads \cup {ReadOf(source)})
      BY <1>7 DEF Stream, StreamOpened, StreamInterrupted, StreamFailed, NodeCompleted, PlanReady,
                  TerminalFrame, StreamTimeout, IInv, TypeOK, JobOrNone
    <3> QED
      BY <3>1, PlainReads
  <2> QED
    BY <2>1, <2>2
<1>8. CASE PostServed
  BY <1>8 DEF PostServed
<1>9. CASE ReviewServed
  BY <1>9 DEF ReviewServed
<1>10. ASSUME NEW r \in reads, ReadServed(r) PROVE Routed'
  <2>1. r \in Read
    BY <1>0
  <2>2. ASSUME NEW q \in reads', q.kind = "preflight", q.fresh PROVE q.job = refs.current
    <3>1. CASE q \in reads
      BY <2>2, <3>1
    <3>2. CASE q = [r EXCEPT !.answer = server[r.job]] \/ q = [r EXCEPT !.answer = "unreachable"]
      BY <2>1, <2>2, <3>2 DEF Read
    <3> QED
      BY <1>10, <3>1, <3>2 DEF ReadServed
  <2> QED
    BY <1>10, <2>2 DEF ReadServed
<1>11. CASE \E j \in Jobs : Advance(j)
  BY <1>11 DEF Advance
<1>12. CASE Submitted \/ SubmitRejected
  BY <1>12 DEF Submitted, SubmitRejected
<1>13. CASE ReviewReturns
  <2>1. reads' = reads \/ reads' = reads \cup {ReadOf(review.job)}
    BY <1>13 DEF ReviewReturns
  <2>2. review.job \in Jobs
    BY <1>13 DEF ReviewReturns, IInv
  <2> QED
    BY <1>13, <2>1, <2>2, PlainReads DEF ReviewReturns
<1>14. ASSUME NEW r \in reads, ReadReturns(r) PROVE Routed'
  <2>1. refs'.current = refs.current
    BY <1>0, <1>14 DEF ReadReturns, Notify
  <2> QED
    BY <1>14, <2>1 DEF ReadReturns, Closing
<1>15. ASSUME NEW r \in reads, PreflightReturns(r) PROVE Routed'
  <2>1. refs'.current = refs.current
    BY <1>0, <1>15 DEF PreflightReturns, Notify
  <2>2. source' \in {source, NoJob} \/ (r.fresh /\ source' = r.job)
    BY <1>15 DEF PreflightReturns, Closing
  <2> QED
    BY <1>15, <2>1, <2>2 DEF PreflightReturns
<1>16. CASE UNCHANGED vars
  BY <1>16 DEF vars
<1>17. CASE User
  BY <1>1, <1>2, <1>3, <1>4, <1>5, <1>17 DEF User
<1>18. CASE Served
  BY <1>8, <1>9, <1>10, <1>18 DEF Served
<1>19. CASE Returned
  BY <1>12, <1>13, <1>14, <1>15, <1>19 DEF Returned
<1> QED
  BY <1>6, <1>7, <1>11, <1>16, <1>17, <1>18, <1>19 DEF Next

\* attachGenerationRef: on a page that only attaches, whatever the order of
\* answers, the open stream is that of the run attached.
THEOREM StreamFollowsRoute == ASSUME AttachesOnly PROVE Spec => []StreamOfCurrent
<1>1. Init => Routed
  BY DEF Init, Routed, StreamOfCurrent
<1>2. IInv /\ Routed /\ [Next]_vars => Routed'
  BY RoutedStep
<1>3. Routed => StreamOfCurrent
  BY DEF Routed
<1> QED
  BY <1>1, <1>2, <1>3, Inductive, PTL DEF Spec

-----------------------------------------------------------------------------
(* A page with one run.                                                     *)

OneJob == \A i, j \in Jobs : i = j

\* After the callback the guard of notifySettled names the run.
Guarded == told = 0 \/ (told = 1 /\ refs.notified # NoJob)

LEMMA GuardedStep ==
  ASSUME OneJob, IInv, Guarded, [Next]_vars
  PROVE  Guarded'
<1> USE DEF Guarded
<1>0. refs \in [attached : JobOrNone, current : JobOrNone, notified : JobOrNone, suspended : JobOrNone]
  BY DEF IInv, TypeOK
<1>1. ASSUME NEW r \in Read, Notify(r) PROVE Guarded'
  <2>1. r.job \in Jobs /\ r.job # NoJob
    BY ConstantsAssumption DEF Read
  <2>2. CASE UNCHANGED <<refs, told>>
    BY <2>2
  <2>3. CASE refs.notified # r.job /\ refs' = [refs EXCEPT !.notified = r.job]
             /\ told' = IF r.job = refs.attached THEN told + 1 ELSE told
    <3>1. refs.notified = NoJob
      BY <1>0, <2>1, <2>3 DEF OneJob, JobOrNone
    <3> QED
      BY <1>0, <2>1, <2>3, <3>1
  <2> QED
    BY <1>1, <2>2, <2>3 DEF Notify
<1>2. ASSUME NEW r \in reads, ReadReturns(r) \/ PreflightReturns(r) PROVE Guarded'
  <2>1. r \in Read
    BY DEF IInv, TypeOK
  <2>2. Notify(r) \/ UNCHANGED <<refs, told>>
    BY <1>2 DEF ReadReturns, PreflightReturns
  <2> QED
    BY <1>1, <2>1, <2>2
<1>3. CASE User
  BY <1>0, <1>3 DEF User, Submit, Reset, SendReview, PageHide, PageShow, Attach, BeginAttach
<1>4. CASE Stream
  BY <1>4 DEF Stream, StreamOpened, StreamInterrupted, StreamFailed, NodeCompleted, PlanReady,
              TerminalFrame, StreamTimeout
<1>5. CASE Served \/ Poll \/ \E j \in Jobs : Advance(j)
  BY <1>5 DEF Served, PostServed, ReviewServed, ReadServed, Poll, Advance
<1>6. CASE Returned
  BY <1>2, <1>6 DEF Returned, Submitted, BeginAttach, SubmitRejected, ReviewReturns
<1>7. CASE UNCHANGED vars
  BY <1>7 DEF vars
<1> QED
  BY <1>3, <1>4, <1>5, <1>6, <1>7 DEF Next

\* notifySettled: with one run the settle callback fires at most once between
\* two attaches, however often its end is read.
THEOREM ToldAtMostOnce == ASSUME OneJob PROVE Spec => []ToldOnce
<1>1. Init => Guarded
  BY DEF Init, Guarded
<1>2. IInv /\ Guarded /\ [Next]_vars => Guarded'
  BY GuardedStep
<1>3. Guarded => ToldOnce
  BY DEF Guarded, ToldOnce
<1> QED
  BY <1>1, <1>2, <1>3, Inductive, PTL DEF Spec
=============================================================================
