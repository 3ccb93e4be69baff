---------------------------- MODULE SessionTurns ----------------------------
(***************************************************************************)
(* The learner's turns of one guided session: the pause and resume protocol *)
(* between the runner (_park_until_resumed, _unpark and the pause handlers  *)
(* of api/runner.py), the pub/sub resume channel of api/redis_store.py and  *)
(* the requests of submit_turn (api/sessions.py).                           *)
(*                                                                         *)
(* A plan review is the same protocol with a single pause.                  *)
(*                                                                         *)
(* The runner holds the live Job; the requests its worker serves share that *)
(* object ("home"), those of other workers read the row ("away").  A reply  *)
(* is identified with the turn it was accepted for.                         *)
(***************************************************************************)
EXTENDS Integers

CONSTANTS
  Tabs,         \* requests of the learner that may be in flight together
  Lone,         \* the tab of a learner who has only one
  MaxTurns,     \* learner_input nodes of the session graph
  MaxPauses,    \* session_max_turns
  Deployments,  \* the situations looked at, see Remote, Routes and Crowd
  MaxLost       \* bound on the publishes that raise

ASSUME ConstantsAssumption ==
  /\ MaxTurns \in Nat \ {0} /\ MaxPauses \in Nat /\ MaxLost \in Nat
  /\ Lone \in Tabs
  /\ Deployments \subseteq {"memory", "home", "away", "shared"}

VARIABLES
  deployment,  \* chosen once
  runner,   \* where run_job is
  turn,     \* the question the graph is at
  pauses,   \* interrupts so far
  answers,  \* history: the reply each turn was resumed with, 0 for none
  live,     \* the Job instance of the runner's worker
  row,      \* the Job as other workers read it
  watcher,  \* watch_for_remote_resume
  mail,     \* first message of the resume channel since it subscribed, or 0
  tab,      \* the request of each tab
  lost      \* publishes that raised

job  == <<live, row>>
wire == <<watcher, mail, lost>>
graph == <<turn, pauses, answers>>
vars == <<deployment, runner, graph, job, wire, tab>>

-----------------------------------------------------------------------------
\* RedisJobStore or InMemoryJobStore.
Remote == deployment # "memory"

\* The workers a request may land on.
Routes == CASE deployment \in {"memory", "home"} -> {"home"}
            [] deployment = "away" -> {"away"}
            [] OTHER -> {"home", "away"}

\* Several tabs, each of which may answer again a turn it has answered.
Crowd == deployment \in {"memory", "shared"}

Turns == 1 .. MaxTurns
Status == {"running", "awaiting_learner", "ended"}
RunnerPc == {"running", "parking", "subscribing", "emitting", "waiting",
             "resumed", "unparking", "ended"}
TabPc == {"idle", "accepted", "stored", "published"}

TypeOK ==
  /\ deployment \in Deployments
  /\ runner \in RunnerPc
  /\ turn \in 0 .. MaxTurns
  /\ pauses \in 0 .. MaxPauses
  /\ answers \in [Turns -> 0 .. MaxTurns]
  /\ live \in [status : Status, turn : 0 .. MaxTurns, payload : 0 .. MaxTurns, event : BOOLEAN]
  /\ row \in [status : Status, turn : 0 .. MaxTurns]
  /\ watcher \in {"none", "listening", "done"}
  /\ mail \in 0 .. MaxTurns
  /\ tab \in [Tabs -> [pc : TabPc, at : {"home", "away"}, asked : 0 .. MaxTurns]]
  /\ lost \in 0 .. MaxLost

Init ==
  /\ deployment \in Deployments
  /\ runner = "running"
  /\ turn = 0 /\ pauses = 0 /\ answers = [n \in Turns |-> 0]
  /\ live = [status |-> "running", turn |-> 0, payload |-> 0, event |-> FALSE]
  /\ row = [status |-> "running", turn |-> 0]
  /\ watcher = "none" /\ mail = 0 /\ lost = 0
  /\ tab = [t \in Tabs |-> [pc |-> "idle", at |-> "home", asked |-> 0]]

Persistent(j) == [status |-> j.status, turn |-> j.turn]
RunnerGoes(from, to) == runner = from /\ runner' = to

\* The in-memory store keeps the live instance itself.
StoredWith(j) == IF Remote THEN row ELSE Persistent(j)

-----------------------------------------------------------------------------
(* The runner.                                                             *)

\* Mutant: a resume without a reply moves the graph on too.
NextUnconditionally == turn + 1

\* The graph goes on only when it was resumed with a Command; with None it
\* interrupts again at the same node.
NextQuestion == IF turn = 0 THEN 1 ELSE IF answers[turn] = 0 THEN turn ELSE turn + 1

\* The graph interrupts, below the ceiling of pauses: the turn and the parked
\* status go on the instance.
Ask ==
  /\ RunnerGoes("running", "parking")
  /\ NextQuestion \in Turns /\ pauses < MaxPauses
  /\ turn' = NextQuestion
  /\ pauses' = pauses + 1
  /\ live' = [live EXCEPT !.status = "awaiting_learner", !.turn = NextQuestion]
  /\ row' = StoredWith(live')
  /\ UNCHANGED <<answers, wire, tab>>

\* The row is written before anything listens for the answer.
StoreParked ==
  /\ RunnerGoes("parking", IF Remote THEN "subscribing" ELSE "emitting")
  /\ row' = Persistent(live)
  /\ UNCHANGED <<graph, live, wire, tab>>

Subscribe ==
  /\ RunnerGoes("subscribing", "emitting")
  /\ watcher' = "listening" /\ mail' = 0
  /\ UNCHANGED <<graph, job, lost, tab>>

\* The turn_ready frame goes out.
Emit ==
  /\ RunnerGoes("emitting", "waiting")
  /\ UNCHANGED <<graph, job, wire, tab>>

\* resume_event is set; the subscription is torn down before anything is read.
Wake ==
  /\ live.event
  /\ RunnerGoes("waiting", "resumed")
  /\ watcher' = "none" /\ mail' = 0
  /\ UNCHANGED <<graph, job, lost, tab>>

\* Mutant: neither the reply nor the event is reset, as after a review.
TakeKeepsReply ==
  /\ RunnerGoes("resumed", "unparking")
  /\ answers' = [answers EXCEPT ![turn] = live.payload]
  /\ live' = [live EXCEPT !.status = "running", !.turn = 0]
  /\ row' = StoredWith(live')
  /\ UNCHANGED <<turn, pauses, wire, tab>>

\* Mutant: the event is not cleared.
TakeKeepsEvent ==
  /\ RunnerGoes("resumed", "unparking")
  /\ answers' = [answers EXCEPT ![turn] = live.payload]
  /\ live' = [live EXCEPT !.status = "running", !.turn = 0, !.payload = 0]
  /\ row' = StoredWith(live')
  /\ UNCHANGED <<turn, pauses, wire, tab>>

\* The reply is taken, the turn, the status and the event are reset, with no
\* await between them.
Take ==
  /\ RunnerGoes("resumed", "unparking")
  /\ answers' = [answers EXCEPT ![turn] = live.payload]
  /\ live' = [status |-> "running", turn |-> 0, payload |-> 0, event |-> FALSE]
  /\ row' = StoredWith(live')
  /\ UNCHANGED <<turn, pauses, wire, tab>>

StoreRunning ==
  /\ RunnerGoes("unparking", "running")
  /\ row' = Persistent(live)
  /\ UNCHANGED <<graph, live, wire, tab>>

\* The graph is done or fails, a turn or the job times out, SUBSCRIBE fails:
\* run_job stores a terminal row, with no turn on it.
Finish ==
  /\ runner # "ended"
  /\ runner' = "ended"
  /\ live' = [live EXCEPT !.status = "ended", !.turn = 0]
  /\ row' = Persistent(live')
  /\ watcher' = "none" /\ mail' = 0
  /\ UNCHANGED <<graph, lost, tab>>

\* _invoke_streaming between two interrupts: the graph has no question left,
\* or interrupts once more than the ceiling allows and the run fails.
Conclude ==
  /\ runner = "running"
  /\ NextQuestion \notin Turns \/ pauses = MaxPauses
  /\ Finish

-----------------------------------------------------------------------------
(* The resume channel.                                                     *)

\* Mutant: the fields are filled in, the event is left to the endpoint.
DeliverSilently ==
  /\ watcher = "listening" /\ mail # 0
  /\ live' = [live EXCEPT !.payload = mail]
  /\ watcher' = "done" /\ mail' = 0
  /\ UNCHANGED <<runner, graph, row, lost, tab>>

\* watch_for_remote_resume reads one message, fills in the reply, wakes the
\* runner and returns.
Deliver ==
  /\ watcher = "listening" /\ mail # 0
  /\ live' = [live EXCEPT !.payload = mail, !.event = TRUE]
  /\ watcher' = "done" /\ mail' = 0
  /\ UNCHANGED <<runner, graph, row, lost, tab>>

-----------------------------------------------------------------------------
(* submit_turn.                                                            *)

\* The Job store.get returns on the worker a request landed on; a terminal
\* instance is no longer local.
Seen(at) == IF at = "home" /\ live.status # "ended" THEN Persistent(live) ELSE row

\* A tab answers the turn of the row it is shown; any other status is a 409.
MayAnswer(t, at) ==
  /\ tab[t].pc = "idle"
  /\ Seen(at).status = "awaiting_learner"
  /\ Crowd \/ (t = Lone /\ tab[t].asked < Seen(at).turn)

\* Redis: get, the status check, and resume_payload on the instance found.
Accept(t) ==
  /\ Remote
  /\ \E at \in Routes :
       /\ MayAnswer(t, at)
       /\ tab' = [tab EXCEPT ![t] = [pc |-> "accepted", at |-> at, asked |-> Seen(at).turn]]
       /\ live' = IF at = "home" THEN [live EXCEPT !.payload = live.turn] ELSE live
  /\ UNCHANGED <<runner, graph, row, wire>>

\* In memory nothing suspends the handler between the check and the event.
AcceptInMemory(t) ==
  /\ ~Remote
  /\ \E at \in Routes : MayAnswer(t, at)
  /\ tab' = [tab EXCEPT ![t].asked = live.turn]
  /\ live' = [live EXCEPT !.payload = live.turn, !.event = TRUE]
  /\ UNCHANGED <<runner, graph, row, wire>>

TabGoes(t, from, to) == tab[t].pc = from /\ tab' = [tab EXCEPT ![t].pc = to]

\* Mutant: the first half of RespondWakesFirst.
PublishFirst(t) ==
  /\ TabGoes(t, "accepted", "stored")
  /\ mail' = IF watcher = "listening" /\ mail = 0 THEN tab[t].asked ELSE mail
  /\ UNCHANGED <<runner, graph, job, watcher, lost>>

\* Mutant: the second half of RespondWakesFirst.
StoreLast(t) ==
  /\ TabGoes(t, "stored", "published")
  /\ row' = [status |-> "awaiting_learner", turn |-> tab[t].asked]
  /\ UNCHANGED <<runner, graph, live, wire>>

\* store.update of what the handler read at its check.
Store(t) ==
  /\ TabGoes(t, "accepted", "stored")
  /\ row' = [status |-> "awaiting_learner", turn |-> tab[t].asked]
  /\ UNCHANGED <<runner, graph, live, wire>>

\* publish_remote_resume: only a subscriber gets it, and only the first one
\* since it subscribed is ever read.
Publish(t) ==
  /\ TabGoes(t, "stored", "published")
  /\ mail' = IF watcher = "listening" /\ mail = 0 THEN tab[t].asked ELSE mail
  /\ UNCHANGED <<runner, graph, job, watcher, lost>>

\* The publish raises; it is logged and the request goes on.
PublishFails(t) ==
  /\ lost < MaxLost
  /\ TabGoes(t, "stored", "published")
  /\ lost' = lost + 1
  /\ UNCHANGED <<runner, graph, job, watcher, mail>>

\* resume_event.set() on the instance the handler holds, whatever the runner
\* has made of it since.
SetEvent(t) ==
  /\ TabGoes(t, "published", "idle")
  /\ live' = IF tab[t].at = "home" THEN [live EXCEPT !.event = TRUE] ELSE live
  /\ UNCHANGED <<runner, graph, row, wire>>

-----------------------------------------------------------------------------
RunnerStep ==
  \/ Ask \/ StoreParked \/ Subscribe \/ Emit \/ Wake \/ Take \/ StoreRunning

\* Mutant: the runner is woken before the reply is stored.
RespondWakesFirst(t) == PublishFirst(t) \/ StoreLast(t) \/ SetEvent(t)

\* submit_turn after its check: the row, then the channel, then the event.
Respond(t) == Store(t) \/ Publish(t) \/ SetEvent(t)

Next ==
  /\ UNCHANGED deployment
  /\ \/ RunnerStep \/ Finish \/ Deliver
     \/ \E t \in Tabs : Accept(t) \/ AcceptInMemory(t) \/ Respond(t) \/ PublishFails(t)

Spec == Init /\ [][Next]_vars

Fixed(A) == UNCHANGED deployment /\ A

\* The event loops run; a learner who is shown a turn answers it.
Fairness ==
  /\ WF_vars(Fixed(RunnerStep)) /\ WF_vars(Fixed(Conclude)) /\ WF_vars(Fixed(Deliver))
  /\ \A t \in Tabs : /\ WF_vars(Fixed(Accept(t) \/ AcceptInMemory(t)))
                      /\ WF_vars(Fixed(Respond(t)))

FairSpec == Spec /\ Fairness
-----------------------------------------------------------------------------
(* Properties.                                                             *)

\* A reply resumes the turn whose status check it passed, and no other:
\* submit_turn's check and _handle_session_turn_pause's read agree.
AnswersAcceptedTurn == \A n \in Turns : answers[n] \in {0, n}

\* Where it holds: in one process, or for a single tab on another worker.
RepliesMatch == deployment \in {"memory", "away"} => AnswersAcceptedTurn

\* _unpark: a park returns because of a reply, never because an event was left
\* over ("the event has to be cleared or the next park returns instantly"), in
\* one process.
WakesCarryReply == ~Remote /\ runner = "resumed" => live.payload # 0

\* The graph never goes past a question without a reply to it, however the
\* runner was woken.
AdvancesOnlyByReply == [][turn' # turn /\ turn # 0 => answers[turn] # 0]_vars

\* The session is a Dialogue, whatever wakes the runner, however replies are
\* lost, repeated or late, and however it ends.
Talk == INSTANCE Dialogue WITH
  exact <- deployment \in {"memory", "away"}, over <- runner = "ended"

TalkSpec == Talk!Spec

\* A question once resumed is not asked again from the row: what other
\* workers and reconnecting streams are shown follows the runner while it
\* lives (a late answer to an ended job is JobRuntime's).  With more tabs, or
\* one on the runner's worker, a late store.update undoes it.
RowAsksOpenTurn ==
  deployment \in {"memory", "away"} /\ runner # "ended" /\ row.status = "awaiting_learner" =>
    /\ row.turn = turn
    /\ runner \in {"parking", "subscribing", "emitting", "waiting", "resumed", "unparking"}

\* _park_until_resumed: "a learner cannot see a turn frame before another
\* worker is ready to receive its reply"; so no reply to the open turn is
\* published while the runner has yet to subscribe.
RepliesFindListener ==
  [][\A t \in Tabs :
       tab[t].pc = "stored" /\ tab'[t].pc = "published" /\ tab[t].asked = turn
         => runner \notin {"parking", "subscribing"}]_vars

\* submit_turn: "a resume lost in transit costs a retry rather than the turn",
\* if the learner does retry, as long as the run lasts (the pause ceiling ends
\* one that is woken in vain).
RetryGetsThrough ==
  \A n \in Turns : Crowd /\ runner = "waiting" /\ turn = n ~> answers[n] # 0 \/ runner = "ended"
=============================================================================
