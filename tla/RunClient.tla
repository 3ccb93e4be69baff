----------------------------- MODULE RunClient ------------------------------
(***************************************************************************)
(* The browser's side of a research run: the job machine (lib/job/          *)
(* machine.ts), the hook that drives it (lib/job/useJobStream.ts) and the   *)
(* liveness poll (lib/job/provider.tsx).                                    *)
(*                                                                         *)
(* Requests are answered by the server at one moment and reach the hook at  *)
(* a later one, in any order; the stream may drop every frame.  A dispatch  *)
(* and the effect it triggers are one step with the handler that causes it. *)
(***************************************************************************)
EXTENDS Integers, FiniteSets

CONSTANTS
  Jobs,       \* job ids
  NoJob,      \* null
  Existing,   \* jobs the server has before the page is opened
  Acts,       \* what the user may do besides attaching: "submit", "reset", "review"
  MaxReads,   \* bound on GETs in flight
  MaxFails    \* bound on requests that fail

ASSUME ConstantsAssumption ==
  /\ NoJob \notin Jobs
  /\ Existing \subseteq Jobs
  /\ Acts \subseteq {"submit", "reset", "review"}
  /\ MaxReads \in Nat \ {0} /\ MaxFails \in Nat

VARIABLES
  server,     \* status of each job, as GET /research/{id} tells it
  screen,     \* JobState: what the reducer produced
  refs,       \* attachedRef, jobIdRef, settledNotifiedRef and suspendedRef
  source,     \* job of the open EventSource, or NoJob
  reads,      \* GETs in flight
  post,       \* the POST /research in flight
  review,     \* the POST /research/{id}/review in flight
  told,       \* settle callbacks since the last attach, for the job attached
  fails       \* requests that failed

vars == <<server, screen, refs, source, reads, post, review, told, fails>>

-----------------------------------------------------------------------------
Over == {"done", "gone"}
ServerStatus == {"absent", "planning", "pending_review", "working"} \cup Over
JobPhase == {"idle", "submitting", "submit_failed", "attaching", "unavailable", "live",
             "awaiting_review", "resolving", "reconciling", "settled"}
SETTLED_PHASES == {"submit_failed", "unavailable", "settled"}
OnStream == {"attaching", "live", "awaiting_review", "resolving"}
JobOrNone == Jobs \cup {NoJob}

\* A GET before the server has seen it has the answer "pending".
Read == [kind : {"preflight", "read"}, job : Jobs, fresh : BOOLEAN,
         answer : {"pending", "unreachable"} \cup ServerStatus]

TypeOK ==
  /\ server \in [Jobs -> ServerStatus]
  /\ screen \in [phase : JobPhase, job : JobOrNone, suspended : BOOLEAN,
                 connection : {"closed", "opening", "open", "reconnecting"},
                 checkpoint : {"none", "current", "stale"}]
  /\ refs \in [attached : JobOrNone, current : JobOrNone, notified : JobOrNone,
               suspended : JobOrNone]
  /\ source \in JobOrNone
  /\ reads \in SUBSET Read
  /\ post \in [pc : {"none", "sent", "answered", "failed"}, job : JobOrNone, current : BOOLEAN]
  /\ review \in [pc : {"none", "sent", "accepted", "conflict", "failed"}, job : JobOrNone]
  /\ told \in Nat
  /\ fails \in 0 .. MaxFails

Idle == [phase |-> "idle", job |-> NoJob, suspended |-> FALSE,
         connection |-> "closed", checkpoint |-> "none"]

Init ==
  /\ server = [j \in Jobs |-> IF j \in Existing THEN "planning" ELSE "absent"]
  /\ screen = Idle
  /\ refs = [attached |-> NoJob, current |-> NoJob, notified |-> NoJob, suspended |-> NoJob]
  /\ source = NoJob
  /\ reads = {}
  /\ post = [pc |-> "none", job |-> NoJob, current |-> FALSE]
  /\ review = [pc |-> "none", job |-> NoJob]
  /\ told = 0 /\ fails = 0

\* Room for one more GET.
CanRead == Cardinality(reads) < MaxReads
ReadOf(j) == [kind |-> "read", job |-> j, fresh |-> TRUE, answer |-> "pending"]

-----------------------------------------------------------------------------
(* The server, as the page sees it.                                        *)

Advance(j) ==
  /\ \E step \in {<<"planning", "pending_review">>, <<"planning", "done">>,
                  <<"pending_review", "working">>, <<"pending_review", "done">>,
                  <<"working", "done">>, <<"done", "gone">>} :
       /\ server[j] = step[1]
       /\ server' = [server EXCEPT ![j] = step[2]]
  /\ UNCHANGED <<screen, refs, source, reads, post, review, told, fails>>

Failing == fails < MaxFails /\ fails' = fails + 1

\* The server answers a GET, or it never gets there.
ReadServed(r) ==
  /\ r.answer = "pending"
  /\ \/ reads' = (reads \ {r}) \cup {[r EXCEPT !.answer = server[r.job]]} /\ UNCHANGED fails
     \/ reads' = (reads \ {r}) \cup {[r EXCEPT !.answer = "unreachable"]} /\ Failing
  /\ UNCHANGED <<server, screen, refs, source, post, review, told>>

PostServed ==
  /\ post.pc = "sent"
  /\ \/ \E j \in Jobs :
          /\ server[j] = "absent"
          /\ server' = [server EXCEPT ![j] = "planning"]
          /\ post' = [post EXCEPT !.pc = "answered", !.job = j]
          /\ UNCHANGED fails
     \/ post' = [post EXCEPT !.pc = "failed"] /\ Failing /\ UNCHANGED server
  /\ UNCHANGED <<screen, refs, source, reads, review, told>>

\* A review is a 200 while the job is parked, a 409 afterwards.
ReviewServed ==
  /\ review.pc = "sent"
  /\ \/ /\ review' = [review EXCEPT !.pc = IF server[review.job] = "pending_review"
                                           THEN "accepted" ELSE "conflict"]
        /\ UNCHANGED fails
     \/ review' = [review EXCEPT !.pc = "failed"] /\ Failing
  /\ UNCHANGED <<server, screen, refs, source, reads, post, told>>

-----------------------------------------------------------------------------
(* The reducer.                                                            *)

\* freshRun, and the phase of a startAttach.
Attaching(j) == [Idle EXCEPT !.phase = "attaching", !.job = j]

\* Mutant: a new connection keeps what the last one observed.
BeginKeepsCheckpoint(s) == [s EXCEPT !.connection = "open", !.suspended = FALSE]

\* beginConnection: a new connection has observed nothing.
BeginConnection(s) ==
  [s EXCEPT !.connection = "open", !.checkpoint = "none", !.suspended = FALSE]

\* ensureOpen: a frame opens a connection not known to be open.
EnsureOpen(s) == IF s.connection = "open" THEN s ELSE BeginConnection(s)

\* What a physical reconnect does to a checkpoint nobody has dropped.
Reconnected(s) == IF s.checkpoint = "current" THEN [s EXCEPT !.checkpoint = "stale"] ELSE s

PhaseOf(status) ==
  CASE status = "done" -> "settled"
    [] status = "pending_review" -> "awaiting_review"
    [] OTHER -> "live"

\* adoptDetail: the job on screen becomes the one that was read.
Adopt(s, j, status) ==
  IF s.phase \in {"idle", "submitting", "submit_failed"} THEN s
  ELSE [s EXCEPT !.phase = PhaseOf(status), !.job = j,
                 !.connection = CASE status = "done" -> "closed"
                                  [] s.phase = "attaching" -> "opening"
                                  [] OTHER -> s.connection]

\* detail_not_found
Missing(s) ==
  IF s.phase \in OnStream \cup {"reconciling"}
  THEN [s EXCEPT !.phase = "unavailable", !.connection = "closed"] ELSE s

\* detail_unreachable
Unreachable(s) ==
  CASE s.phase = "attaching" -> [s EXCEPT !.phase = "live", !.connection = "opening"]
    [] s.phase = "reconciling" -> [s EXCEPT !.phase = "settled", !.connection = "closed"]
    [] OTHER -> s

\* detail_resolved, detail_not_found or detail_unreachable, by the answer.
Learnt(s, r) ==
  CASE r.answer = "unreachable" -> Unreachable(s)
    [] r.answer = "gone" -> Missing(s)
    [] OTHER -> Adopt(s, r.job, r.answer)

\* Mutant: no poll while a stream is open.
ShouldPollStreaming ==
  /\ screen.job # NoJob /\ ~screen.suspended /\ screen.connection # "open"
  /\ screen.phase \notin {"idle", "submitting"} \cup SETTLED_PHASES

\* shouldPoll
ShouldPoll ==
  /\ screen.job # NoJob /\ ~screen.suspended
  /\ screen.phase \notin {"idle", "submitting"} \cup SETTLED_PHASES

-----------------------------------------------------------------------------
(* The hook.                                                               *)

\* The effect on state.phase: a settled run has no stream.
Closing(next, src) ==
  IF next.phase \in SETTLED_PHASES /\ next.phase # screen.phase THEN NoJob ELSE src

\* Mutant: the settle callback fires on every terminal read.
NotifyAlways(r) ==
  IF r.answer = "done" THEN /\ refs' = [refs EXCEPT !.notified = r.job]
                            /\ told' = IF r.job = refs.attached THEN told + 1 ELSE told
                       ELSE UNCHANGED <<refs, told>>

\* notifySettled: once per job.
Notify(r) ==
  IF r.answer = "done" /\ refs.notified # r.job
  THEN /\ refs' = [refs EXCEPT !.notified = r.job]
       /\ told' = IF r.job = refs.attached THEN told + 1 ELSE told
  ELSE UNCHANGED <<refs, told>>

\* beginAttach: earlier pre-flight GETs are superseded, one is sent.  It does
\* not close the stream that is open.
BeginAttach(j) ==
  /\ CanRead
  /\ refs' = [refs EXCEPT !.attached = j, !.current = j, !.notified = NoJob]
  /\ reads' = {IF r.kind = "preflight" THEN [r EXCEPT !.fresh = FALSE] ELSE r : r \in reads}
              \cup {[ReadOf(j) EXCEPT !.kind = "preflight"]}
  /\ screen' = Attaching(j)
  /\ told' = 0

\* attach, from the ?job= of the URL.  The same job twice is nothing.
Attach(j) ==
  /\ server[j] # "absent" /\ refs.attached # j
  /\ source' = NoJob
  /\ BeginAttach(j)
  /\ UNCHANGED <<server, post, review, fails>>

\* submit, while none is in flight.
Submit ==
  /\ "submit" \in Acts
  /\ post.pc = "none"
  /\ post' = [pc |-> "sent", job |-> NoJob, current |-> TRUE]
  /\ screen' = [Idle EXCEPT !.phase = "submitting"]
  /\ refs' = [refs EXCEPT !.attached = NoJob, !.current = NoJob, !.notified = NoJob]
  /\ source' = NoJob
  /\ told' = 0
  /\ UNCHANGED <<server, reads, review, fails>>

\* The POST returns: the token of the hook is compared, then the job attached.
Submitted ==
  /\ post.pc = "answered"
  /\ post' = [pc |-> "none", job |-> NoJob, current |-> FALSE]
  /\ IF post.current THEN BeginAttach(post.job)
                     ELSE UNCHANGED <<screen, refs, reads, told>>
  /\ UNCHANGED <<server, source, review, fails>>

SubmitRejected ==
  /\ post.pc = "failed"
  /\ post' = [pc |-> "none", job |-> NoJob, current |-> FALSE]
  /\ screen' = IF screen.phase = "submitting" THEN [screen EXCEPT !.phase = "submit_failed"]
                                              ELSE screen
  /\ UNCHANGED <<server, refs, source, reads, review, told, fails>>

Reset ==
  /\ "reset" \in Acts /\ screen # Idle
  /\ screen' = Idle
  /\ refs' = [attached |-> NoJob, current |-> NoJob, notified |-> NoJob, suspended |-> NoJob]
  /\ source' = NoJob
  /\ post' = [post EXCEPT !.current = FALSE]
  /\ told' = 0
  /\ UNCHANGED <<server, reads, review, fails>>

\* The liveness poll.
Poll ==
  /\ ShouldPoll /\ refs.current # NoJob
  /\ CanRead
  /\ reads' = reads \cup {ReadOf(refs.current)}
  /\ UNCHANGED <<server, screen, refs, source, post, review, told, fails>>

\* read: whatever comes back is dispatched.
ReadReturns(r) ==
  /\ r.kind = "read" /\ r.answer # "pending"
  /\ reads' = reads \ {r}
  /\ screen' = Learnt(screen, r)
  /\ source' = Closing(screen', source)
  /\ Notify(r)
  /\ UNCHANGED <<server, post, review, fails>>

\* Mutant: the pre-flight GET opens its stream even when superseded.
PreflightUnguarded(r) ==
  /\ r.kind = "preflight" /\ r.answer # "pending"
  /\ reads' = reads \ {r}
  /\ screen' = Learnt(screen, r)
  /\ source' = Closing(screen', IF r.answer \in Over THEN source ELSE r.job)
  /\ Notify(r)
  /\ UNCHANGED <<server, post, review, fails>>

\* The pre-flight GET of the last attach decides whether a stream is opened;
\* a superseded one is dropped.
PreflightReturns(r) ==
  /\ r.kind = "preflight" /\ r.answer # "pending"
  /\ reads' = reads \ {r}
  /\ IF r.fresh
     THEN /\ screen' = Learnt(screen, r)
          /\ source' = Closing(screen', IF r.answer \in Over THEN source ELSE r.job)
          /\ Notify(r)
     ELSE UNCHANGED <<screen, source, refs, told>>
  /\ UNCHANGED <<server, post, review, fails>>

-----------------------------------------------------------------------------
(* The EventSource.                                                        *)

\* The open event of a connection, the browser's own retry included.
StreamOpened ==
  /\ source # NoJob
  /\ screen' = LET s == Reconnected(screen)
               IN  CASE s.phase = "attaching" -> [BeginConnection(s) EXCEPT !.phase = "live"]
                     [] s.phase \in OnStream -> BeginConnection(s)
                     [] OTHER -> s
  /\ UNCHANGED <<server, refs, source, reads, post, review, told, fails>>

StreamInterrupted ==
  /\ source # NoJob
  /\ screen.phase \in OnStream
  /\ screen' = [screen EXCEPT !.connection = "reconnecting"]
  /\ UNCHANGED <<server, refs, source, reads, post, review, told, fails>>

\* The stream route answers 404.
StreamFailed ==
  /\ source # NoJob /\ server[source] = "gone"
  /\ screen.phase \in OnStream
  /\ screen' = [screen EXCEPT !.phase = "unavailable", !.connection = "closed"]
  /\ source' = NoJob
  /\ UNCHANGED <<server, refs, reads, post, review, told, fails>>

NodeCompleted ==
  /\ source # NoJob
  /\ screen.phase \in OnStream
  /\ screen' = [EnsureOpen(screen) EXCEPT
                  !.checkpoint = "current",
                  !.phase = IF @ = "resolving" THEN "live" ELSE @]
  /\ UNCHANGED <<server, refs, source, reads, post, review, told, fails>>

PlanReady ==
  /\ source # NoJob /\ server[source] \in {"pending_review", "working", "done"}
  /\ screen.phase \in OnStream
  /\ screen' = [EnsureOpen(screen) EXCEPT !.phase = "awaiting_review"]
  /\ UNCHANGED <<server, refs, source, reads, post, review, told, fails>>

\* A terminal frame is a signal: close the stream, go and read.
TerminalFrame ==
  /\ source # NoJob /\ server[source] \in Over
  /\ CanRead
  /\ source' = NoJob
  /\ screen' = IF screen.phase \in OnStream
               THEN [EnsureOpen(screen) EXCEPT !.phase = "reconciling", !.connection = "closed"]
               ELSE screen
  /\ reads' = reads \cup {ReadOf(source)}
  /\ UNCHANGED <<server, refs, post, review, told, fails>>

\* stream_timeout: reopened at once.
StreamTimeout ==
  /\ source # NoJob
  /\ screen' = IF screen.phase \in OnStream
               THEN [EnsureOpen(screen) EXCEPT !.connection = "reconnecting"] ELSE screen
  /\ UNCHANGED <<server, refs, source, reads, post, review, told, fails>>

-----------------------------------------------------------------------------
(* The review and the page.                                                *)

SendReview ==
  /\ "review" \in Acts
  /\ screen.phase = "awaiting_review" /\ refs.current # NoJob
  /\ review.pc = "none"
  /\ review' = [pc |-> "sent", job |-> refs.current]
  /\ UNCHANGED <<server, screen, refs, source, reads, post, told, fails>>

\* A 409 is answered by reading the job again; a 200 by waiting for a frame.
ReviewReturns ==
  /\ review.pc \in {"accepted", "conflict", "failed"}
  /\ review' = [pc |-> "none", job |-> NoJob]
  /\ screen' = IF screen.phase # "awaiting_review" \/ review.pc = "failed" THEN screen
               ELSE [screen EXCEPT !.phase = IF review.pc = "accepted" THEN "resolving"
                                                                     ELSE "attaching"]
  /\ IF review.pc = "conflict" THEN CanRead /\ reads' = reads \cup {ReadOf(review.job)}
                               ELSE UNCHANGED reads
  /\ UNCHANGED <<server, refs, source, post, told, fails>>

PageHide ==
  /\ refs.attached # NoJob /\ source # NoJob
  /\ source' = NoJob
  /\ refs' = [refs EXCEPT !.attached = NoJob, !.suspended = refs.attached]
  /\ screen' = IF screen.phase \in OnStream \cup {"reconciling"}
               THEN [screen EXCEPT !.connection = "closed", !.checkpoint = "none",
                                   !.suspended = TRUE]
               ELSE screen
  /\ UNCHANGED <<server, reads, post, review, told, fails>>

\* pageshow: page_restored, then an attach to the job that was left.
PageShow ==
  /\ refs.suspended # NoJob
  /\ CanRead
  /\ IF refs.attached = refs.suspended
     THEN /\ refs' = [refs EXCEPT !.suspended = NoJob]
          /\ screen' = [screen EXCEPT !.suspended = FALSE]
          /\ UNCHANGED <<source, reads, told>>
     ELSE LET j == refs.suspended
          IN  /\ refs' = [attached |-> j, current |-> j, notified |-> NoJob, suspended |-> NoJob]
              /\ reads' = {IF r.kind = "preflight" THEN [r EXCEPT !.fresh = FALSE] ELSE r :
                             r \in reads} \cup {[ReadOf(j) EXCEPT !.kind = "preflight"]}
              /\ screen' = Attaching(j)
              /\ source' = NoJob
              /\ told' = 0
  /\ UNCHANGED <<server, post, review, fails>>

-----------------------------------------------------------------------------
User == Submit \/ Reset \/ SendReview \/ PageHide \/ PageShow \/ \E j \in Jobs : Attach(j)

Stream ==
  \/ StreamOpened \/ StreamInterrupted \/ StreamFailed \/ NodeCompleted \/ PlanReady
  \/ TerminalFrame \/ StreamTimeout

Served == PostServed \/ ReviewServed \/ \E r \in reads : ReadServed(r)
Returned ==
  \/ Submitted \/ SubmitRejected \/ ReviewReturns
  \/ \E r \in reads : ReadReturns(r) \/ PreflightReturns(r)

Next == User \/ Stream \/ Served \/ Returned \/ Poll \/ \E j \in Jobs : Advance(j)

Spec == Init /\ [][Next]_vars

\* Requests are served and return, the poll's timer runs.  No frame is ever
\* promised.
Fairness ==
  /\ WF_vars(PostServed) /\ WF_vars(Submitted \/ SubmitRejected)
  /\ WF_vars(ReviewServed) /\ WF_vars(ReviewReturns)
  /\ WF_vars(\E r \in reads : ReadServed(r))
  /\ WF_vars(\E r \in reads : ReadReturns(r) \/ PreflightReturns(r))
  /\ WF_vars(Poll)

FairSpec == Spec /\ Fairness
-----------------------------------------------------------------------------
(* Properties.                                                             *)

\* attachGenerationRef and generationRef: the only stream the page ever has
\* open is that of the job it is attached to.
StreamOfCurrent == source \in {NoJob, refs.current}

\* Checkpoint rule 2: what an open connection shows was observed on it.
CheckpointOfConnection == screen.connection = "open" => screen.checkpoint # "stale"

\* onSettled: "Called once per job, with the JobDetail that settled it".
ToldOnce == told <= 1

\* The URL names one run, but a read of a former one that answers late is put
\* on screen.  As long as that run still goes on, the polls of the run named
\* bring the screen back.
ScreenRecovers ==
  screen.job \notin {NoJob, refs.current}
    ~> \/ screen.job \in {NoJob, refs.current}
       \/ screen.phase \in {"settled", "unavailable"} \/ screen.suspended

\* machine.ts, submitting: "the route wins and the token is dropped, which
\* makes the in-flight response inert rather than adopted".
RouteWins ==
  [][post.pc = "answered" /\ post'.pc = "none" /\ screen.phase # "submitting"
       => screen' = screen]_vars

\* The poll is the safety net: a run that is over is shown as over, even when
\* the stream never says a word.
FollowedToTheEnd ==
  \A j \in Jobs :
    refs.current = j /\ server[j] \in Over
      ~> \/ screen.phase \in {"settled", "unavailable"}
         \/ refs.current # j \/ screen.suspended
=============================================================================
