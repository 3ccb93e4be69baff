----------------------------- MODULE EventStream -----------------------------
(***************************************************************************)
(* The server-sent events of one job: what run_job publishes, how a frame   *)
(* travels (Redis pub/sub or the in-memory queue) and the response that      *)
(* hands it to a client (stream_research in api/routes.py and               *)
(* sse_event_stream in api/streaming.py).                                   *)
(*                                                                         *)
(* Frames are numbered as they go out.  Only two of them are told apart: the *)
(* one of the last pause and the closing one.  A client reconnects when its  *)
(* response ends, as an EventSource does; its next response reuses its       *)
(* variables.                                                              *)
(***************************************************************************)
EXTENDS Integers, FiniteSets

CONSTANTS
  Clients,
  Transports,  \* deployments looked at: subset of {"memory", "redis"}
  Places,      \* where a request lands: "home" (the runner's worker), "away"
  MaxFrames,   \* bound on the frames of the run
  MaxParks,    \* bound on its pauses
  QueueMax,    \* maxsize of event_queue
  MaxLost,     \* bound on the publishes that raise
  MaxDrops     \* bound on the clients' connection losses

ASSUME ConstantsAssumption ==
  /\ Transports \subseteq {"memory", "redis"}
  /\ Places \subseteq {"home", "away"}
  /\ MaxFrames \in Nat /\ MaxParks \in Nat /\ QueueMax \in Nat \ {0} /\ MaxLost \in Nat /\ MaxDrops \in Nat

VARIABLES
  transport,  \* the job store of this deployment
  run,        \* where run_job is
  n,          \* frames that went out
  parks,      \* pauses so far
  pause,      \* the frame of the last pause, 0 when its publish raised
  closing,    \* the frame of the outcome, 0 when none went out
  queue,      \* frames in event_queue, shared by all readers
  lost, drops,
  conn,       \* per client: where its response is
  got,        \* the job its response was built from
  read,       \* the pending read: _next_frame and the drainer it runs
  sub,        \* whether the drainer is subscribed
  from,       \* frames that had gone out when it subscribed
  chan,       \* frames in the subscription's connection
  held,       \* the frame the finished read holds, or 0
  seen,       \* frames this response has sent
  late,       \* whether its deadline has passed
  shown,      \* the last pause this response has shown, 0 for none
  ended,      \* why the last response ended
  told        \* whether the client knows that the job ended

runner   == <<run, n, parks, pause, closing, queue, lost>>
response == <<conn, got, late, ended, drops>>
reading  == <<read, sub, from, chan, held>>
screen   == <<seen, shown, told>>
vars == <<transport, runner, response, reading, screen>>

-----------------------------------------------------------------------------
Frames == 1 .. MaxFrames
RunPc == {"running", "parkRow", "parkFrame", "parked", "unparkRow", "endRow", "lapseRow", "endFrame", "over"}
Statuses == {"running", "parked", "ended"}

TypeOK ==
  /\ transport \in Transports
  /\ run \in RunPc
  /\ n \in 0 .. MaxFrames /\ parks \in 0 .. MaxParks
  /\ pause \in 0 .. n /\ closing \in 0 .. n
  /\ queue \subseteq Frames /\ Cardinality(queue) <= QueueMax
  /\ lost \in 0 .. MaxLost /\ drops \in 0 .. MaxDrops
  /\ conn \in [Clients -> {"off", "routed", "top", "wait"}]
  /\ got \in [Clients -> [status : Statuses \cup {"live"}, parks : 0 .. MaxParks]]
  /\ read \in [Clients -> {"none", "subscribing", "pending", "frame", "stop"}]
  /\ sub \in [Clients -> BOOLEAN]
  /\ from \in [Clients -> 0 .. MaxFrames]
  /\ chan \in [Clients -> SUBSET Frames]
  /\ held \in [Clients -> 0 .. MaxFrames]
  /\ seen \in [Clients -> SUBSET Frames]
  /\ late \in [Clients -> BOOLEAN] /\ shown \in [Clients -> 0 .. MaxParks] /\ told \in [Clients -> BOOLEAN]
  /\ ended \in [Clients -> {"never", "outcome", "timeout", "drained", "gone"}]

Init ==
  /\ transport \in Transports
  /\ run = "running" /\ n = 0 /\ parks = 0 /\ pause = 0 /\ closing = 0
  /\ queue = {} /\ lost = 0 /\ drops = 0
  /\ conn = [c \in Clients |-> "off"]
  /\ got = [c \in Clients |-> [status |-> "running", parks |-> 0]]
  /\ read = [c \in Clients |-> "none"]
  /\ sub = [c \in Clients |-> FALSE]
  /\ from = [c \in Clients |-> 0]
  /\ chan = [c \in Clients |-> {}]
  /\ held = [c \in Clients |-> 0]
  /\ seen = [c \in Clients |-> {}]
  /\ late = [c \in Clients |-> FALSE]
  /\ shown = [c \in Clients |-> 0]
  /\ told = [c \in Clients |-> FALSE]
  /\ ended = [c \in Clients |-> "never"]

\* The status of the live instance.
Live == CASE run \in {"parkRow", "parkFrame", "parked"} -> "parked"
          [] run \in {"endRow", "lapseRow", "endFrame", "over"} -> "ended"
          [] OTHER -> "running"

\* The status of the row: it follows one command later.
Row == CASE run \in {"parkRow", "endRow"} -> "running"
         [] run \in {"unparkRow", "lapseRow"} -> "parked"
         [] OTHER -> Live

-----------------------------------------------------------------------------
(* The run.  The in-memory store's update suspends nowhere, so parking and   *)
(* resuming are single steps there.                                         *)

Remote == transport = "redis"
Goes(to) == run' = to /\ UNCHANGED lost

Oldest(f, channel) == f \in channel /\ \A k \in channel : f <= k

\* A full queue drops its oldest frame.
Enqueue(f) ==
  IF Cardinality(queue) < QueueMax
    THEN queue' = queue \cup {f}
    ELSE \E old \in queue : Oldest(old, queue) /\ queue' = (queue \ {old}) \cup {f}

\* Frame n + 1 goes out: to every subscription, or to the queue.
Publish ==
  /\ n < MaxFrames
  /\ n' = n + 1
  /\ IF Remote
       THEN /\ chan' = [c \in Clients |-> IF sub[c] THEN chan[c] \cup {n + 1} ELSE chan[c]]
            /\ UNCHANGED queue
       ELSE Enqueue(n + 1) /\ UNCHANGED chan
  /\ UNCHANGED <<read, sub, from, held>>

\* The publish raises and is logged.
PublishRaises ==
  /\ Remote /\ lost < MaxLost
  /\ lost' = lost + 1
  /\ UNCHANGED <<n, queue, reading>>

\* _put_event with progress of the graph.
Progress ==
  /\ run = "running" /\ n < MaxFrames - 1
  /\ Goes("running") /\ Publish
  /\ UNCHANGED <<parks, pause, closing, response, screen>>

ParkRow ==
  /\ Remote /\ run = "parkRow" /\ Goes("parkFrame")
  /\ UNCHANGED <<n, parks, pause, closing, queue, response, reading, screen>>

\* The instance is parked; in memory the frame is out before anyone looks.
Park ==
  /\ run = "running" /\ n < MaxFrames - 1 /\ parks < MaxParks
  /\ parks' = parks + 1
  /\ IF Remote THEN /\ Goes("parkRow") /\ pause' = 0
                    /\ UNCHANGED <<n, queue, reading>>
               ELSE Goes("parked") /\ Publish /\ pause' = n'
  /\ UNCHANGED <<closing, response, screen>>

\* The row was stored and the resume channel is listened to: the frame.
PauseFrame ==
  /\ run = "parkFrame" /\ run' = "parked"
  /\ \/ UNCHANGED lost /\ Publish /\ pause' = n'
     \/ PublishRaises /\ UNCHANGED pause
  /\ UNCHANGED <<parks, closing, response, screen>>

Resume ==
  /\ run = "parked"
  /\ Goes(IF Remote THEN "unparkRow" ELSE "running")
  /\ UNCHANGED <<n, parks, pause, closing, queue, response, reading, screen>>

UnparkRow ==
  /\ run = "unparkRow" /\ Goes("running")
  /\ UNCHANGED <<n, parks, pause, closing, queue, response, reading, screen>>

\* An outcome, from the graph or a timeout of the pause, which unparks no row.
End ==
  /\ run \in {"running", "parked"}
  /\ Goes(IF ~Remote THEN "endFrame" ELSE IF run = "parked" THEN "lapseRow" ELSE "endRow")
  /\ UNCHANGED <<n, parks, pause, closing, queue, response, reading, screen>>

EndRow ==
  /\ run \in {"endRow", "lapseRow"} /\ Goes("endFrame")
  /\ UNCHANGED <<n, parks, pause, closing, queue, response, reading, screen>>

\* _put_terminal_event: retried, then given up; in memory it waits for room.
ClosingFrame ==
  /\ run = "endFrame" /\ run' = "over"
  /\ \/ /\ Remote \/ Cardinality(queue) < QueueMax
        /\ UNCHANGED lost /\ Publish /\ closing' = n'
     \/ PublishRaises /\ UNCHANGED closing
  /\ UNCHANGED <<parks, pause, response, screen>>

RunStep == \/ ParkRow \/ PauseFrame \/ UnparkRow \/ EndRow \/ ClosingFrame

-----------------------------------------------------------------------------
(* The response of client c.                                               *)

Moves(c, pc, to) == conn[c] = pc /\ conn' = [conn EXCEPT ![c] = to]

\* The generator ends; its finally cancels the read and closes the drainer.
CloseAs(c, why) ==
  /\ conn' = [conn EXCEPT ![c] = "off"]
  /\ ended' = [ended EXCEPT ![c] = why]
  /\ read' = [read EXCEPT ![c] = "none"]
  /\ sub' = [sub EXCEPT ![c] = FALSE]
  /\ chan' = [chan EXCEPT ![c] = {}]
  /\ held' = [held EXCEPT ![c] = 0]
  /\ UNCHANGED <<from, got, late>>

Job(s) == [status |-> s, parks |-> parks]

\* stream_research reads the job: the live instance on the runner's worker, a
\* copy of the row elsewhere.
Get(c) ==
  /\ Moves(c, "off", "routed") /\ ~told[c]
  /\ \E p \in Places : /\ ~Remote => p = "home"
                       /\ got' = [got EXCEPT ![c] = Job(IF p = "home" THEN "live" ELSE Row)]
  /\ seen' = [seen EXCEPT ![c] = {}]
  /\ shown' = [shown EXCEPT ![c] = 0]
  /\ late' = [late EXCEPT ![c] = FALSE]
  /\ UNCHANGED <<transport, runner, reading, ended, drops, told>>

\* Mutant: nothing is replayed.
ReplayNothing(j) == 0

\* Mutant: an ended job is streamed like any other.
NeverEnded(j) == FALSE

HasEnded(j) == j.status = "ended"

\* The pause a parked job replays.
Replays(j) == IF j.status = "parked" THEN j.parks ELSE 0

\* The response starts: an ended job replays its outcome and closes, a parked
\* one its pause; then the keepalive opens the stream.
Start(c) ==
  LET j == IF got[c].status = "live" THEN Job(Live) ELSE got[c] IN
  /\ conn[c] = "routed"
  /\ IF HasEnded(j)
       THEN /\ CloseAs(c, "outcome")
            /\ told' = [told EXCEPT ![c] = TRUE]
            /\ UNCHANGED <<shown, drops>>
       ELSE /\ conn' = [conn EXCEPT ![c] = "top"]
            /\ got' = [got EXCEPT ![c] = j]
            /\ shown' = [shown EXCEPT ![c] = Replays(j)]
            /\ UNCHANGED <<late, ended, drops, reading, told>>
  /\ UNCHANGED <<transport, runner, seen>>

\* The loop asks for the next frame, unless a read is pending, and waits.
Await(c) ==
  /\ Moves(c, "top", "wait") /\ ~late[c]
  /\ read' = [read EXCEPT ![c] = IF @ # "none" THEN @
                                 ELSE IF Remote /\ ~sub[c] THEN "subscribing" ELSE "pending"]
  /\ UNCHANGED <<transport, runner, sub, from, chan, held, got, late, ended, drops, screen>>

\* The first read of subscribe_events subscribes.
Subscribe(c) ==
  /\ read[c] = "subscribing"
  /\ read' = [read EXCEPT ![c] = "pending"]
  /\ sub' = [sub EXCEPT ![c] = TRUE]
  /\ from' = [from EXCEPT ![c] = n]
  /\ UNCHANGED <<transport, runner, response, chan, held, screen>>

\* The drainer hands its oldest frame to the read.
Pull(c) ==
  /\ read[c] = "pending"
  /\ read' = [read EXCEPT ![c] = "frame"]
  /\ \E f \in Frames :
       /\ held' = [held EXCEPT ![c] = f]
       /\ IF Remote
            THEN Oldest(f, chan[c]) /\ chan' = [chan EXCEPT ![c] = @ \ {f}] /\ UNCHANGED queue
            ELSE Oldest(f, queue) /\ queue' = queue \ {f} /\ UNCHANGED chan
  /\ UNCHANGED <<transport, run, n, parks, pause, closing, lost, response, sub, from, screen>>

\* drain_events: half a second without a frame, and the job is terminal.
Drained(c) ==
  /\ ~Remote /\ read[c] = "pending" /\ queue = {} /\ Live = "ended"
  /\ read' = [read EXCEPT ![c] = "stop"]
  /\ UNCHANGED <<transport, runner, response, sub, from, chan, held, screen>>

\* Mutant: the loop goes on after the outcome.
ClosesNever(f) == FALSE

\* closes_stream
Closes(f) == f = closing

\* The held frame is written out; an outcome closes the stream, else the loop
\* goes on at its top.
Send(c, to) ==
  /\ seen' = [seen EXCEPT ![c] = @ \cup {held[c]}]
  /\ shown' = [shown EXCEPT ![c] = IF held[c] = pause THEN parks ELSE @]
  /\ told' = [told EXCEPT ![c] = @ \/ held[c] = closing]
  /\ IF Closes(held[c])
       THEN CloseAs(c, "outcome")
       ELSE IF to = "top"
              THEN /\ conn' = [conn EXCEPT ![c] = "top"]
                   /\ read' = [read EXCEPT ![c] = "none"]
                   /\ held' = [held EXCEPT ![c] = 0]
                   /\ UNCHANGED <<sub, from, chan, got, late, ended>>
              ELSE CloseAs(c, to)

\* asyncio.wait returns with the read done.
Wake(c) ==
  /\ conn[c] = "wait" /\ read[c] \in {"frame", "stop"}
  /\ IF read[c] = "frame" THEN Send(c, "top")
                          ELSE CloseAs(c, "drained") /\ UNCHANGED screen
  /\ UNCHANGED <<transport, runner, drops>>

\* Mutant: the quiet interval cancels the read, as the loop before ADR 0038.
HeartbeatCancels(c) ==
  /\ Moves(c, "wait", "top")
  /\ read' = [read EXCEPT ![c] = "none"]
  /\ held' = [held EXCEPT ![c] = 0]
  /\ UNCHANGED <<transport, runner, sub, from, chan, got, late, ended, drops, screen>>

\* A quiet interval: a keepalive, and the read stays pending.
Heartbeat(c) ==
  /\ Moves(c, "wait", "top") /\ read[c] \in {"subscribing", "pending"}
  /\ UNCHANGED <<transport, runner, reading, got, late, ended, drops, screen>>

\* The connection's lifetime elapses.
Elapse(c) ==
  /\ conn[c] \in {"top", "wait"} /\ ~late[c]
  /\ late' = [late EXCEPT ![c] = TRUE]
  /\ UNCHANGED <<transport, runner, conn, got, ended, drops, reading, screen>>

\* Mutant: at the deadline what the read holds is dropped.
DeadlineDiscards(c) ==
  /\ conn[c] = "top" /\ late[c]
  /\ CloseAs(c, "timeout")
  /\ UNCHANGED <<transport, runner, drops, screen>>

\* At the deadline a frame the read already holds is sent; then stream_timeout,
\* unless that frame closed the stream.
Deadline(c) ==
  /\ conn[c] = "top" /\ late[c]
  /\ CASE read[c] = "frame" -> Send(c, "timeout")
       [] read[c] = "stop" -> CloseAs(c, "drained") /\ UNCHANGED screen
       [] OTHER -> CloseAs(c, "timeout") /\ UNCHANGED screen
  /\ UNCHANGED <<transport, runner, drops>>

\* The client goes away; a frame its read holds goes with it.
Disconnect(c) ==
  /\ conn[c] # "off" /\ drops < MaxDrops
  /\ drops' = drops + 1
  /\ CloseAs(c, "gone")
  /\ UNCHANGED <<transport, runner, screen>>

-----------------------------------------------------------------------------
ResponseStep(c) == Start(c) \/ Await(c) \/ Subscribe(c) \/ Pull(c) \/ Drained(c) \/ Wake(c) \/ Deadline(c)

Next ==
  \/ /\ UNCHANGED transport
     /\ Progress \/ Park \/ Resume \/ End \/ RunStep
  \/ \E c \in Clients : Get(c) \/ ResponseStep(c) \/ Heartbeat(c) \/ Elapse(c) \/ Disconnect(c)

Spec == Init /\ [][Next]_vars

\* The runner's coroutine and the responses run, deadlines pass, and a client
\* that has not heard of the outcome reconnects.
Fairness ==
  /\ WF_vars(UNCHANGED transport /\ RunStep)
  /\ \A c \in Clients : /\ WF_vars(Get(c)) /\ WF_vars(ResponseStep(c))
                        /\ WF_vars(Heartbeat(c)) /\ WF_vars(Elapse(c))

FairSpec == Spec /\ Fairness

-----------------------------------------------------------------------------
\* A response that is subscribed has sent, holds or will read every frame that
\* went out since, in their order: keepalives and deadlines lose none
\* (sse_event_stream keeps one read across quiet intervals).
NothingMissed ==
  \A c \in Clients : sub[c] =>
    LET mine == seen[c] \cup ({held[c]} \ {0}) IN
    /\ mine \cup chan[c] = (from[c] + 1) .. n
    /\ \A i \in mine, k \in chan[c] : i < k
    /\ held[c] \notin seen[c]

\* A frame taken off its channel reaches the client, unless the client left.
TakenIsSent ==
  [][\A c \in Clients : (held[c] # 0 /\ held'[c] # held[c]) =>
        held[c] \in seen'[c] \/ ended'[c] = "gone"]_vars

\* A client is never sent away with stream_timeout, "reconnect", by a response
\* that has just told it the outcome.
TimeoutMeansGoingOn ==
  \A c \in Clients : ended[c] = "timeout" => closing \notin seen[c] \/ closing = 0

\* The response looks for the next frame and there is none.
Quiet(c) == conn[c] = "wait" /\ read[c] = "pending" /\ chan[c] = {} /\ queue = {}

\* While the run waits for a human, a client that sits before a silent stream
\* has been shown the question ("the reconnect is self-sufficient").
PauseShown ==
  run = "parked" => \A c \in Clients : Quiet(c) => shown[c] = parks

\* What of it holds: a response that found the row parked, or subscribed before
\* the frame went out, shows it; in memory, where clients share the queue, one
\* client always sees it.
PauseReaches ==
  run = "parked" => \A c \in Clients :
    (Quiet(c) /\ \/ got[c] = Job("parked")
                 \/ Remote /\ from[c] < pause
                 \/ ~Remote /\ Clients = {c})
      => shown[c] = parks

\* A stream that ends by itself has told the outcome (drain_events: every
\* event, "then the terminal frame, then a clean close").
EndsWithTerminal == \A c \in Clients : ended[c] = "drained" => told[c]

\* What the rest of the API relies on of this runner, told apart no further
\* than here: from its start on, row and closing frame are a JobOutcome.
Outcome == INSTANCE JobOutcome WITH
  status <- CASE Row = "running" -> "running" [] Row = "parked" -> "pending_review" [] OTHER -> "failed",
  frames <- IF closing = 0 THEN {} ELSE {"failed"}

OutcomeFollowed == [][Outcome!Next]_(Outcome!vars)

\* Once the job has ended every client learns it, through lost frames, ends of
\* responses and deadlines, by reconnecting.
OutcomeLearnt == \A c \in Clients : Row = "ended" ~> told[c]
=============================================================================
