# A verification project for arxiv-research-agent

TLA+ specifications of the research agent's own concurrent logic, the TLC
configurations that check them on small instances, and TLAPS proofs of what
matters most for every instance. Paths below are relative to the repository
(`src/` is the Python package, `web/` the browser UI); `PROJECT.json` maps every
definition to the lines it translates.

## 1. The system

A user asks a research question or opens a guided reading session in the
browser. A FastAPI worker accepts it as a **job** (`src/api`), runs it as an
asyncio task around a LangGraph workflow whose nodes execute on a thread pool
(`src/graph`), may park it until a human reviews the plan or answers a turn, and
streams its progress as server-sent events. Several workers share one Redis (job
rows, leases, pub/sub) and one Postgres (conversations, checkpoints, learning
stores). A periodic **redriver** on every worker looks for jobs whose worker
died. The browser (`web/lib/job`) follows a job by stream and by poll.

Inventory: the components, the state each keeps, what they do, what is hard about
them, and what has to be true.

| component | state | operations and partners | what is hard | correct when | module |
|---|---|---|---|---|---|
| job runtime: `api/runner.py`, `redis_store.py`, `jobs.py`, `app.py` | row, lease, local instance, resume event, permit | submit, `run_job`, park and wake, terminal write and frame, shutdown, resubmission at boot | a write is several Redis commands; leases expire; tasks are cancelled anywhere | one run at a time; an outcome is final; every job ends | `JobRuntime`, `JobOutcome` |
| redriver: `api/redriver.py` | redrive lock, requeue counter, claim | sweep, requeue, fail an orphan, dead-letter | reads are stale when acted on; on the host the "row" is the runner's live object | acts on orphans only; never replaces an outcome; requeues are bounded | `JobRuntime` |
| node pool and cancellation: `cancellation.py`, `graph/workflow.py` | token per job, abandoned-thread counter, semaphore | register, check, drain, give up, exit | threads cannot be killed; the loop and a thread race on every exit | no uncounted thread without a permit; permits return | `NodeDrain` |
| session turns: `api/sessions.py` with runner and store | turn and payload on the job, resume channel | ask, accept a reply, publish, wake, take | a wake is not a reply; pub/sub loses; handlers hold old objects | a reply answers the turn it was given for | `SessionTurns`, `Dialogue` |
| job client: `web/lib/job` | reducer state, refs, EventSource, requests in flight | attach, submit, poll, review, reset, page cache | answers out of order, route changes, lost frames | the current run is shown, and followed to its end | `RunClient` |
| event streaming: `api/streaming.py`, stream route, `event_queue`, pub/sub | subscription, pending read, deadline, shared queue | replay, subscribe, heartbeat, flush at the deadline | attach races the publisher; the read outlives a keepalive; bounded queue | a subscribed client misses nothing and learns the outcome | `EventStream` |
| run policies: `policies/orchestration.py` | branch records, effective cap, spend | run branches in turn, settle each, stop | nested caps, refusals among a fan-out, cancellation between branches | stops are earned, no branch is skipped or paid for twice, the node ends | `BranchLoop` |
| agents: `agents/reader.py` | one analysis per paper on a thread pool | fetch, call, contain a failure, raise | order of failures; refusal versus failure | a refusal is never reported as a read paper | `BranchLoop` |
| model gateway: `llm.py`, `resilience.py`, `observability/costs.py` | spend, cap, cancel token | check, call, book the price | concurrent calls pass one check | the overshoot is bounded | `BranchLoop` |
| campaign engine: `campaign/` | episode directories, ledger, live configuration | seal, run, recover, score, receipt, ledger | a crash between any two files; configuration changes between or in passes | books agree with receipts; an episode is paid for once but for what a crash lost; passes finish | `Campaign`, `CampaignRecord` |
| HTTP API and admission: `api/routes.py`, `auth.py` | keys, sliding window | authenticate, limit | add-then-rollback in two commands | the limit is never exceeded | submission, review and `/readyz` inside the others |
| conversations, learning stores | Postgres rows | append, merge | concurrent edits | nobody's entries dropped | none |
| graph workflow: `graph/workflow.py` | run state | route, repair, iterate | bounds on loops | loops end | executor only, in `NodeDrain` |
| contracts: `contracts/` | trajectory, artifact store, manifest | append, promote, seal | retries, crash between move and record | idempotent, chain unbroken | the seal, in `Campaign` |

**Not modelled**, and why. *Conversations and learning stores* do one transaction
per operation, serialised by a row lock, so what interleaves is the database's.
The *rate limiter* is two commands whose overlap only makes the limit tighter.
*Graph routing* is a function of one state, applied by LangGraph, which is not in
the repository; a model would restate each edge. The *trajectory* and the *artifact
store* have one producer process each; that a promoted file can lack its record
(`artifact_store.py:527`) and that a sequence number is read before the append
(`trajectory.py:872`) are listed as hazards without a property. What the other
*agents* and the prompts compute is decided by a model outside the repository. *Tools
and caches* are single input and output calls; *prompt isolation* and *exporters*
transform text; *metrics, tracing and logs* are read by no decision; *calibration,
evaluation, content* are offline sequential batches; the *command line,
configuration, administration* and *deployment* files hold no state of a run; the UI's
*pages and components* render what `RunClient` models.

By lines the maps cover a small share of the repository: of its implementation files
the largest by far are the vendored bundles of a recorded Storybook build
(`docs/revamp/evidence/gate-3/storybook`, over 100,000 lines), and most of the rest
is the code just named.

## 2. The modules

Naming: `X.tla` is the component, `MCX.tla` adds what TLC needs, `X_proofs.tla`
holds the theorems, `X_<run>.cfg` a run. A definition whose comment begins with
"Mutant:" is a plausible bug of the definition it stands beside; no action uses
it. Each property has one that TLC shows it to detect.

### JobRuntime and JobOutcome

One job of the Redis deployment. Everything another worker or another task of the
same worker can do between two awaits is an interleaving: an action is one Redis
command with the synchronous code after its reply. Terminal writes are therefore
three steps: the local instance is evicted and the row read (`PersistCheck`), the
row is set (`PersistWrite`), and the frame is again a read and a publish
(`FrameCheck`, `FramePublish`). `Fault(op)` lets a command raise, executed or not.
`Stall` is the only way a live process may lose a token it still refreshes, or a
sweep outlast its lock; no order of steps among processes that are in time is a
stall. `Crash` loses memory and keeps Redis; `Shutdown`,
`CancelTasks` and `Restart` are the lifespan's teardown in its order.

The redriver holds a *claim* on the lease key while it decides, so runs and sweeps
compete for one key. `View` is `RedisJobStore.get`: on the worker that hosts the
run it is the live object, so what the redriver changes on it the runner sees
(`Mutated`).

A row exists before its lease does: the run's `SET NX` comes some steps after the
row is created, or after the redriver has handed it off. Nothing in the code keeps a
sweep's `SET NX` out of that gap, and nothing in `SweepClaim` does. The history
variable `overtaken`, which no guard reads, records that it happened. The run then
goes on without a lease, beside what the sweep makes of the job (section 5), so the
properties of one owner, one outcome and bounded requeues speak of what comes before,
and `OneRunner`, `ReclaimsOrphansOnly` and `KeptLeaseStays` also say what is left after:
one lease holder, one deciding sweep.

`JobOutcome` is what a caller may rely on: statuses in order, one outcome, and
frames that say what polls say. `JobRuntime` implements it until a sweep overtakes a run,
through `OutcomeSpec` and `INSTANCE JobOutcome WITH status <- row, frames <- told`.
Where a write of the row may raise, a frame can announce an outcome the row never
gets; what polls show is still a run of it (`PollSpec`, the same instance with
`frames <- {}`).

Left out: a second job (jobs share only the lock and the permit, so it delays and
nothing else), retention of rows, progress frames, `store.update` putting an
instance back in the local map, the three attempts at a terminal write and at a
frame (one give-up stands for them), the conversation append, which the code does
even when its terminal write was refused. The teardown of the resume subscription
is part of `Wake`; the counter of a dead-lettered job is cleared with its claim.

### NodeDrain

The nodes of several jobs on one worker: the coroutine of `run_job` (`task`), the
pool thread of its node (`thread`), the permits (`held`) and the counter of
threads given up on (`zombies`). The loop and the threads interleave at every
call of `CancelToken`. A job has at most one node at a time; a queued node is
`Pick`ed in any order, which includes the executor's FIFO. `Active` is what
`/readyz` compares with its ceiling.

### SessionTurns

The parked runner, the live job object, the row, the resume channel and the
learner's requests, which land on the runner's worker ("home": they share the
object) or on another ("away": they read the row). Pub/sub is modelled as it
behaves: a publish nobody hears is gone, and the watcher reads one message and
returns. A reply is identified with the turn the request saw when it was
accepted, so `answers[n] = n` says that turn n was resumed by a reply meant for
it. `deployment` is chosen once: "memory" is the in-memory store, where nothing
suspends the handler between its check and the event; "home" and "away" are Redis
with one tab on the runner's worker or on another; "shared" is Redis with any number
of tabs on either. `Dialogue` is what a learner may rely on in all of them: questions in
order, none left without a reply, a reply taken once; `exact` says whether a reply can
only be meant for the open question. `SessionTurns` implements it through `TalkSpec`. A plan review is this protocol with one pause.
A connection of the watcher that dies is not modelled: it looks like a lost
publish, which is.

### RunClient

The reducer, hook and provider of the browser against a server that answers each
request at one moment and delivers the answer at a later one, in any order. A
dispatch and the effects React runs for it are one step with the handler. The
stream may deliver any frame or none. `awaiting_learner` behaves as `live` for
every modelled transition and is merged with it; two identical requests in flight
are one; unmounting and the stream-first attach that only tests use are left out;
an EventSource that is refused with another status than 404 is not modelled.
`Acts` says what the user does besides moving the route: submit, reset, review.

### EventStream

The frames of one job from `publish_event` to the client. The runner's gaps between
row and frame are steps of their own (`parkRow`, `parkFrame`, `endRow`, `endFrame`).
A response reads the row, replays, subscribes and then loops: it keeps one read
across quiet intervals (`Heartbeat`), sends what the read holds, and at its deadline
flushes and says `stream_timeout`. Over Redis each subscription has its channel
(`chan`); in memory all responses share one queue that drops its oldest frame
(`Enqueue`). Frames are numbers; only the last pause and the closing one are told
apart. It supplies what `RunClient` assumes of a stream, which is nothing. Its runner is
tied to `JobRuntime` by `JobOutcome`: that specification, which `JobRuntime` implements,
holds of the row and the closing frame here as well (`OutcomeFollowed`).

### Campaign

`execute_campaign` over its passes, one process at a time. A directory is a record of the
files a later pass reads back: manifest (and whether its sidecar is there),
snapshot, scores, receipt. Each file is one step, and `Crash` may fall between any
two or leave one torn. `Reconfigure` changes the settings, prices or dependency lock
that a manifest seals. `spent`, `lost` and `missed` are history: the money really spent,
the runs a crash took and the scorings nobody booked.

`CampaignRecord` is what an operator may rely on however often passes die: the outcomes
on record come in the order of the plan, each once and for good, none once those before
it reached the cap, and the published ledger lists them or, torn, nothing. `Campaign`
implements it through `RecordSpec`, with the receipts that can be read as the record.

### BranchLoop

`run_branches` and the reader's fan-out. The loop (`pc`, `pos`) launches a branch under its
share of the run's cap, searches, hands its papers to the threads, waits, and settles it;
`Take`, `Refuse`, `Admit`, `Degrade`, `Answer` are a thread's steps for one paper. `Admit` is the
check of `call_llm`, `Answer` books the price: between them other threads pass the
same check. `Joins` is when the fan-out raises, `Contain` what the reader turns into a
placeholder. `Cancel` may come at any moment.

### Sums

Lemmas about `FoldFunction` with `+` over a finite set, which `SpendAttributed` and
`CapOvershoot` are stated with: the sum exists, is moved by one term by as much as the
term moves, is monotone, additive and scales. It models no code.

## 3. What TLC checks

Times are for two workers. Bounds are CONSTANTS; each run names what makes its
interesting cases happen.

| run | what it shows | bounds, and why they are enough |
|---|---|---|
| `JobRuntime_fleet` | until a sweep overtakes a run: one run and no reclaim of a live one, requeues bounded, `JobOutcome` implemented; and when one does: one lease holder, who keeps the lease (`OneRunner`, `ReclaimsOrphansOnly`, `RequeuesBounded`, `KeptLeaseStays`, `OutcomeSpec`) | two workers and three runs: a run, its requeue and the one too many; two stops, one fault, one reply, two pauses; no stalls; the row itself can be written and answers land at once; `Bounded`, see below |
| `JobRuntime_settles` | every accepted job ends and stays ended, and no sweep ever replaces an outcome, also with an overtaken run, late processes, a failing `SET NX` and reviews written late | two workers, one run, a review whose read and write are apart; one trouble (`OneTrouble`): a crash, a shutdown, a raise or a stall; the job is submitted to the one of two interchangeable workers that `OneHome` names |
| `JobRuntime_review_race` | violated: `AnswersSpareOutcome` | one run, one review |
| `JobRuntime_overtaken` | violated: `TerminalIsFinal` | one run, two workers, no fault, stop or stall |
| `NodeDrain_pool` | the counter is exact, running nodes are covered by a permit or counted, none starts after its permit, a ready worker has a thread, permits return, the counter empties | three jobs on two permits: one given up, one draining, one that takes the permit |
| `SessionTurns_replies` | in memory with two tabs, and with Redis for one tab on another worker, each reply resumes its own turn and the row asks the open question; in memory each wake carries a reply; with two tabs anywhere, retries and a lost publish the session is still a `Dialogue`, and a question waited on is answered or the run ends | three turns and three pauses: the ceiling is reached; two tabs, one lost publish |
| `SessionTurns_leftover` | violated: `AnswersAcceptedTurn` | one tab on the runner's worker |
| `RunClient_attach` | the open stream is that of the run attached, for routes moving between two runs and the page hidden and restored; a late answer of the former run gives way to the current one while the former goes on | two jobs, two reads in flight: one of each run; one failing request |
| `RunClient_follow` | one run is followed to its end, told once, and no checkpoint outlives its connection | one job, two reads, one failing request; submit, reset and review |
| `EventStream_follow` | a subscribed response misses no frame and sends each it took, a timeout never follows the outcome, a pause is shown wherever the attach race cannot hide it, the client learns the outcome | one client on either worker and transport, two pauses and the outcome, a queue of two, one failing publish, one lost connection, any number of deadlines |
| `Campaign_passes` | receipts account for the money, receipts and money exceed the cap by less than one episode and what crashes lost, books and ledger agree with the receipts, a pass measures one configuration, `CampaignRecord` is implemented, passes finish | two episodes, two crashes (one on top of a recovery), two changes of configuration (there and back), a cap one episode reaches |
| `BranchLoop_spend` | the overshoot is bounded by the threads, stops are earned, spend is attributed, refusals are not passed off as read papers, nothing is skipped, the node ends | three branches of up to three papers on two threads: a paper waits; calls of one or two units against a cap of five and a share of two or none |

`Bounded` (in `MCJobRuntime`) limits what `JobRuntime_fleet` explores once a sweep has
overtaken a run: the states in which a sweep still handles the job, the new run's start and
`SET NX` included. Without it the states of two runs going on side by side outnumber all
others by far, and none of them matters to `RequeuesBounded` and `OutcomeSpec`, which promise
nothing there. For what the other three say of that part the run is a slice and the
theorems of section 4 are the whole. Two sweeps that decide at once need two tokens to
lapse, which is more than `OneTrouble` allows: that `ReclaimSparesOutcome` holds
there too is the theorem `ReclaimsSpareOutcomes`, which assumes nothing of stalls.

`TypeOK` of each module is not a run: it is proved for all constants (section 4).

Deadlock is checked in `JobRuntime`, where the sweep never stops; the other
modules end (all jobs done, session over, page settled, outcome known, episodes
complete or blocked, node returned) and say `CHECK_DEADLOCK FALSE`. Symmetry is used in
safety runs only. The largest runs are `JobRuntime_fleet`, 2.6 million states, and
`JobRuntime_settles`, half a million under fairness, two minutes each.

**Fairness.** Event loops run their ready tasks and pool threads run (WF on the
steps of a run, of a sweep, of a request once accepted). TTLs elapse. The sweep
ticks on some worker and a stopped worker is restarted: `_redrive_forever` and the
supervisor of the container. Nothing is assumed of submissions, answers of a
human in `JobRuntime`, crashes, faults, or of a node ever returning:
`ZombiesClear` names that assumption in its own antecedent. `SessionTurns`
assumes that a learner who is shown a turn answers it and that a graph at its
last question or at its pause ceiling ends. `RunClient` assumes that requests
return and that the poll's timer fires; no frame is ever promised. `EventStream`
assumes that responses run, deadlines pass and a client that has not heard of the
outcome reconnects (an EventSource does), not that any publish succeeds or that the run
ends. `Campaign` assumes that the process runs and that the operator starts the next
pass; `BranchLoop` that threads run and that each call is answered or times out.

## 4. What is proved

| theorem | from | by |
|---|---|---|
| `TypeCorrect` of all seven component modules | the constants' assumptions | inductive as stated, or with the invariant below |
| `KeptLeasesStay` | `Prompt`: no stalls, and the run's `SET NX` does not raise | `Keeping` |
| `RunsExcludeEachOther`, `SweepsActOnOrphans` | `Prompt` | `Exclusion` until an overtaking, `Keeping` |
| `ReclaimsSpareOutcomes` | `~RequeuePending` | `Compares` |
| `OutcomesAreFinal` (`OutcomeStays`) | `Steady`: `Prompt`, and a resume request is atomic; until an overtaking | `Finality` on top of `Exclusion` |
| `RequeuesAreBounded` | `Steady`; until an overtaking | `Counted` on top of `Finality` |
| `PollsImplementOutcome` (the refinement `PollSpec`) | `Steady`: writes of the row may raise; until an overtaking | `Tracking` on top of `Finality` |
| `RuntimeImplementsOutcome` (the refinement `OutcomeSpec`) | `Orderly`: `Steady`, and the row can be written; until an overtaking | `Tracking` on top of `Finality` |
| `ZombiesAreExact`, `NodesAreAccounted`, `NodesStartUnderPermit`, `ReadyWorkersHaveThreads` | nothing more | `Ordered(j)` and `ZombieCount` |
| `OnlyRepliesAdvance` | nothing more | the step of `Ask` alone changes the turn |
| `InMemoryRepliesMatch`, `WakesAreReplies` | nothing more; they speak of the in-memory store | `IInv` of `SessionTurns_proofs` |
| `SessionIsDialogue` (the refinement `TalkSpec`) | nothing more | `Recent`, `Unanswered`; `IInv` and `AInv` for `exact` |
| `RepliesAreMatched`, `RowsAskTheOpenTurn` | nothing more; they speak of "memory" and "away" | `IInv` and `AInv` |
| `StreamFollowsRoute` | `AttachesOnly`: nothing is submitted or reset | the pre-flights still fresh are the current one's |
| `CheckpointsOfConnection` | nothing more | `Sound(screen)` |
| `ToldAtMostOnce` | `OneJob` | the settle guard remembers the one job |
| `SubscribedResponsesMissNothing`, `TakenFramesAreSent`, `TimeoutsAreNotOutcomes` | nothing more | the channel holds what was published since `from` and not yet taken |
| `PausesReachClients` | nothing more | `Asking` |
| `RunnerFollowsOutcome` (`OutcomeFollowed`) | nothing more | each step of the run maps to one of `JobOutcome` |
| `BooksAgree`, `OneInstrumentPerPass`, `ReceiptsStay` | nothing more | `IInv` of `Campaign_proofs` |
| `SpendIsAccounted` | `CostsBounded`: an episode runs under its own caps, so there is a most it may cost | `Spending` on top of `IInv` |
| `CapOvershootBounded` | `CostsBounded` | `Below`, `InOrder` and `Prudent` on top of `Spending` |
| `CampaignImplementsRecord` (the refinement `RecordSpec`) | `CostsBounded` | `Below` and `InOrder` |
| `OvershootBound`, `StopsEarned`, `RefusalsNotContained`, `SkipsNothing`, `SpendIsAttributed` | nothing more | `IInv` of `BranchLoop_proofs` |

*Exclusion.* That two runs are never alive is not inductive: nothing in it says who
may start one. `Exclusion` adds that a sweep in progress holds the redrive lock, that
a live run past its `SET NX` holds the lease, that a claiming sweep holds its claim
token, and that before a row exists nothing runs. A run is then started only by
the claimant after the claim found the lease free. What is invariant is
`overtaken \/ Exclusion`: a claim that finds an accepted run breaks it, and that one step
only. `Prompt` is needed besides: a stalled process loses a token it believes in, and a run
whose `SET NX` raised goes on without a lease by design (`_job_lease` retries in the
background).

*Keeping* is what an overtaking leaves standing, and holds throughout: a live run holds
the lease or has no keeper, one of them holds it, and a deciding sweep has its claim
unless a command raised. That runs of one worker share a token matters here: the
release of a contended run must not drop the lease of its neighbour (`KeptLeaseStays`).

*Compares.* A sweep writes the row through compare-and-set only, and what it
compares with is never terminal. With `RequeuePending` the requeue is a plain SET,
and after a stall it can overwrite an outcome, hence the assumption.

*Finality.* That an outcome stays is not inductive either: it must be impossible to reach a
write with an outcome in the row. `Cached` says that a worker answers reads from its own
instance only while its run has stored nothing, so a resume request that is told "parked"
finds an open row; `Decided` that what a sweep compares with is no outcome and that its
instance is nobody's; `Settled` that with an outcome runs only announce and no sweep
requeues; `Whole` that no request is between its read and its write. Any Redis command
may fail, the writes of the row included. What cannot be spared is the atomic request:
the plain SET of a late review breaks the theorem (`JobRuntime_review_race`), and so does
a run that was overtaken (`JobRuntime_overtaken`): what is invariant of `Finality`,
`Tracking` and `Counted` is again that they hold or a sweep has overtaken a run. The
refinement below needs the row to be writable as well, as in `JobRuntime_fleet`: a
terminal write that gives up still announces its frame, and that tells an outcome the
row does not have.

*Tracking* ties the progress of a run to its instance and to the row (a run at its
stream has a row that says running, a run that stores "succeeded" comes from one),
and, where the row takes every write, the frames to the outcome: a run that gave up
storing its outcome still announces it, which is all that `PollsImplementOutcome`
leaves out. Each step then maps to a step of `JobOutcome` or to
a stutter; the one surprise is a resume request that shows the job parked
before the run's own write does. *Counted* says that the runs started and the
requeue a sweep owes stay within the counter, which is forgotten only for a job
that has ended and never again counted; it needs no `Tracking`, so requeues are
bounded even for a row that cannot be written.

*Ordered(j)* relates one job's coroutine, thread and permit: the permit outlives the
graph; a thread belongs to a coroutine that awaits or was killed; what is left of
one after the token was set sees the token; nobody passes the drain with a running
node uncounted. It makes "register, then check"
(`_run_node_body`) sufficient: a thread that passed the check is seen by the drain.

*IInv* for the in-memory store: the row is the object (`Together`), a question is open
exactly while the runner asks (`Open`), and event and payload are set together, for
the open turn (`Paired`). Each is false with Redis. *AInv*, for one tab on another
worker, says where the one reply to the open question is: with its request, in the
mail of the listening runner, or on the instance with the event set; so a second
reply cannot be under way when the question changes (`AwayReply`), and a question the runner has
left is answered (`AwayOpen`). For `Dialogue` it is enough, in every deployment, that nothing on
the way speaks of a question still to come (`Recent`) and that neither those nor the one
being asked has a reply (`Unanswered`). `AwayReply` and `AwayOpen` fail as soon as the request's worker is the
runner's, which is what `SessionTurns_leftover` shows.

*EventStream.* That nothing is missed is not inductive without saying that the reader's frames
are below those still in its channel and that a response which is not subscribed
holds nothing over from its last one. *Asking* says where an open question is: in the
snapshot the response was built from, on its way to it, or on the screen.

*Campaign.* While a pass lives, the episodes it has not completed hold no receipt
(`Open`), the one in hand is sealed under a known configuration (`Sealed`), the books equal
what the receipts say at every step and not only between episodes (`Books`), and
what it completed was sealed under its first configuration (`Measured`).
`SpendAccounted` speaks of episodes with a receipt and says nothing until one is written.
`Spending` says it of every episode at every step, of what is *booked* for it so far: in
the receipt, with the pass that has it in hand, or in a snapshot that can stand in for
its run. The cap is a statement about all episodes: `Below` is the cap for the receipts,
`InOrder` that episodes are begun in the order of the plan, so one at most has cost
something and has no receipt, and `Prudent` that this one was begun below the cap. The
money follows by adding up `Spending` over the plan. For the refinement, only the receipt
changes what is on record: it concludes the episode in hand, all before which have one
(`InOrder`), below the cap (`Below`), and a ledger is what was added up (`Books`).

*BranchLoop.* The spend alone is not inductive: a call that passed the check may answer when
the cap is long spent. `Spending` bounds the spend plus what the calls in flight may
still cost by the cap plus one call for each thread; `Earned` keeps a refusal's reason
true until it is raised; `Refusals` says that a branch with a refused paper cannot
succeed; `Order` that branches settle one after the other; `Attributed` that the costs
recorded add up to what the loop has spent, or had when the branch at hand began.

*Sums.* What a fold computes is fixed by a property of the chosen function, and the
lemmas about it need induction over finite sets. `Sums` carries it out on the least size
of a counterexample (`WFMin` over the naturals), so no theorem with an operator for a
parameter is used.

*RunClient.* `Sound` of a screen is kept by each operation of the reducer (a lemma
each), so a step preserves it by the composition of those lemmas.

Only model-checked: the liveness properties (`Settles`, `PermitReturns`, `ZombiesClear`,
`RetryGetsThrough`, `ScreenRecovers`, `FollowedToTheEnd`, `OutcomeLearnt`, `Finishes`,
`Ends`). A leads-to under weak fairness needs ENABLED, which the provers do not reason
about. Every safety property a passing run checks is also proved.

## 5. Where the code and its own words disagree

Shown by a run:

- `redis_store.py` `update`: a review read while the job was parked and written
  after it ended puts the finished row back to `pending_review`; `jobs.py` calls a
  terminal status one it "can never leave".
- `redriver.py:373`: a sweep may claim a job whose row is written (`routes.py:236`) or handed
  off and whose run has not come to its `SET NX` yet (`runner.py:1888`). The row reads
  `pending`; the sweep fails it and tells `job_failed`. The run finds the lease taken, goes on
  without it (`runner.py:1757`) and sets the row to `running` (`runner.py:2017`): a terminal
  row comes back to life with nothing failing and nobody late. Where pending jobs are requeued
  two runs of the job go on side by side instead, and as the counter is forgotten whether or not
  the dead letter's compare-and-set was won (`_dead_letter`, "either way"), the bound on
  requeues is lost with it. `redriver.py:20` says "a non-terminal job with no lease is one
  whose owner is gone", and `redriver.py:371` that losing the claim is the "someone else owns
  it" answer.
- `sessions.py:566`: on the runner's worker the event is set after the publish that
  already woke it; the next park returns without an answer and a reply is applied to
  another turn. The session is still a `Dialogue` that is not `exact`, but
  each such wake costs a pause, and the pause ceiling can end the session.

Seen while modelling, stated as properties, not kept as runs:

- `JobRuntime!FirstTerminalWriteWins` fails (one run, one stall): the terminal guard
  reads and writes in two commands, so a runner can replace what the redriver stored
  in between, whereas `_terminal_write_refused` says the first write wins.
- `JobRuntime!ShutdownClosesJobs` fails (one run, one stop): a job that waits for its
  permit is cancelled outside `run_job`'s `try` and stays `pending` until a sweep,
  whereas `app.py` says the runner marks it cancelled.
- `SessionTurns!RepliesFindListener` fails (one tab, away): the row is readable before
  the runner subscribed, whereas `_park_until_resumed` says no learner can see the turn
  earlier. `RetryGetsThrough` shows that it costs a retry.
- `RunClient!RouteWins` fails (two jobs, submissions): `machine.ts` says that a route
  change makes a submission in flight inert; it is adopted. With submissions
  `StreamOfCurrent` fails too: submit and reset leave the generation of the
  pre-flight request alone.
- `useJobStream.ts:360`: a poll of the former run that is answered late replaces the run
  on screen, and if that run is over it settles it and stops the polling, whereas
  `machine.ts` says "The URL is truth." `ScreenRecovers` is what is left: while the former
  run goes on, the polls bring the right one back. The late answer also resets the settle
  guard, so with two runs the callback can be called twice; `ToldOnce` is therefore
  checked with one.
- `EventStream!PauseShown` fails (one client): a response may read the row before the
  pause and subscribe after its frame went out; nothing tells it of the question until
  the next frame or its deadline. `PauseReaches` says where the promise holds.
- `EventStream!EndsWithTerminal` fails: `drain_events` ends when the job is terminal and
  its queue stayed empty for half a second, which can be before the closing frame is
  queued. `OutcomeLearnt` shows that it costs a reconnection.

Read, not stated:

- `orchestration.py`: a comment says that after a cancellation or the run's ceiling the
  remaining branches keep `planned` in the record. The list that is settled is local and
  the `raise` throws it away, so the record of such a run lists nothing settled. The
  docstring's "the run ceiling was not reached" of `budget_stopped` need not hold either:
  concurrent calls can cross both caps at once.
- `selection.py`: the fallback of the model ranking catches every exception, a spent cap and
  a cancelled job included.
- `execute.py`: drift of the provider is compared within a pass only; a lone manifest or
  a torn receipt blocks every later pass until someone removes it (`Blocked`); after a
  scorer raised, the judge cost recorded is 0, whatever was spent (`missed`).

## 6. What is left

Built in this order: `JobRuntime` with `JobOutcome`, `NodeDrain`, `SessionTurns`, `RunClient`,
`EventStream`, `Campaign`, `BranchLoop`, `CampaignRecord`, `Dialogue`. A team that goes on would take, in order:
several rows under one redrive lock; the artifact store's stage and
promote with a crash between move and record; the append after a refused terminal write
(`runner.py:2387`). `EventStream` and `JobRuntime` share `JobOutcome` and no state: a module
with both would be larger than TLC explores with a useful number of clients.

## 7. Running it

`tlc -workers 2 -config <run>.cfg MC<Module>` for a run, `tlapm <Module>_proofs.tla`
for the proofs. The runs take seconds to about two minutes each.
