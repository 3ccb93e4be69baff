------------------------- MODULE SessionTurns_proofs -------------------------
(***************************************************************************)
(* Proofs about SessionTurns, for every number of tabs, turns, pauses and  *)
(* lost publishes: the types, that only a reply moves the graph on, and    *)
(* that with the in-memory store, and for one tab on another worker than    *)
(* the runner's, every reply resumes the turn it was accepted for and the   *)
(* row asks the open question; elsewhere these fail: see the README.  In    *)
(* every deployment a session is a Dialogue.                                *)
(***************************************************************************)
EXTENDS SessionTurns, TLAPS

LiveSet == [status : Status, turn : 0 .. MaxTurns, payload : 0 .. MaxTurns, event : BOOLEAN]

\* An instance keeps its type when its status and its turn are set.
LEMMA LiveMoves ==
  ASSUME NEW l \in LiveSet, NEW s \in Status, NEW n \in 0 .. MaxTurns
  PROVE  [l EXCEPT !.status = s, !.turn = n] \in LiveSet
<1>1. [l EXCEPT !.status = s] \in LiveSet
  BY DEF LiveSet
<1>2. [[l EXCEPT !.status = s] EXCEPT !.turn = n] \in LiveSet
  BY <1>1 DEF LiveSet
<1> QED
  BY <1>2 DEF LiveSet

TabSet == [pc : TabPc, at : {"home", "away"}, asked : 0 .. MaxTurns]

\* A request keeps its type when it moves on.
LEMMA TabMoves ==
  ASSUME NEW f \in [Tabs -> TabSet], NEW t \in Tabs, NEW p \in TabPc
  PROVE  [f EXCEPT ![t].pc = p] \in [Tabs -> TabSet]
<1>1. f[t] \in TabSet
  OBVIOUS
<1>2. [f[t] EXCEPT !.pc = p] \in TabSet
  BY <1>1 DEF TabSet
<1> QED
  BY <1>2

\* Every variable keeps its type under every step of the runner, the channel
\* and the requests.
THEOREM TypeCorrect == Spec => []TypeOK
<1> USE ConstantsAssumption
<1> USE DEF TypeOK, Turns, Status, RunnerPc, TabPc
<1>1. Init => TypeOK
  BY DEF Init
<1>2. ASSUME TypeOK, [Next]_vars PROVE TypeOK'
  <2>a. deployment' = deployment
    BY <1>2 DEF Next, vars
  <2> USE <1>2, <2>a DEF RunnerGoes, TabGoes, Persistent, StoredWith, graph, job, wire
  <2>0. live \in LiveSet /\ (live' \in LiveSet <=> live' \in [status : Status, turn : 0 .. MaxTurns,
                                       payload : 0 .. MaxTurns, event : BOOLEAN])
    BY DEF LiveSet
  <2>1. CASE UNCHANGED vars
    BY <2>1 DEF vars
  <2>2. CASE Ask
    <3>1. NextQuestion \in Turns /\ pauses + 1 \in 0 .. MaxPauses
      BY <2>2 DEF Ask
    <3>2. live' \in LiveSet
      <4>1. "awaiting_learner" \in Status /\ NextQuestion \in 0 .. MaxTurns
        BY <3>1
      <4>2. [live EXCEPT !.status = "awaiting_learner", !.turn = NextQuestion] \in LiveSet
        BY <2>0, <4>1, LiveMoves, Zenon
      <4> QED
        BY <2>2, <4>2 DEF Ask
    <3> QED
      BY <2>2, <3>1, <3>2 DEF Ask, LiveSet
  <2>3. CASE StoreParked
    BY <2>3 DEF StoreParked
  <2>4. CASE Subscribe
    BY <2>4 DEF Subscribe
  <2>5. CASE Emit
    BY <2>5 DEF Emit
  <2>6. CASE Wake
    BY <2>6 DEF Wake
  <2>7. CASE Take
    <3>1. live' \in LiveSet
      BY <2>7 DEF Take, LiveSet
    <3>2. live.payload \in 0 .. MaxTurns
      OBVIOUS
    <3>3. answers' \in [Turns -> 0 .. MaxTurns]
      BY <2>7, <3>2 DEF Take
    <3> QED
      BY <2>7, <3>1, <3>3 DEF Take, LiveSet
  <2>8. CASE StoreRunning
    BY <2>8 DEF StoreRunning
  <2>9. CASE Finish
    <3>1. live' \in LiveSet
      <4>1. "ended" \in Status /\ 0 \in 0 .. MaxTurns
        OBVIOUS
      <4>2. [live EXCEPT !.status = "ended", !.turn = 0] \in LiveSet
        BY <2>0, <4>1, LiveMoves, Zenon
      <4> QED
        BY <2>9, <4>2 DEF Finish
    <3> QED
      BY <2>9, <3>1 DEF Finish, LiveSet
  <2>10. CASE Deliver
    <3>1. live' \in LiveSet
      BY <2>10 DEF Deliver, LiveSet
    <3> QED
      BY <2>10, <3>1 DEF Deliver, LiveSet
  <2>11. ASSUME NEW t \in Tabs, Accept(t) PROVE TypeOK'
    <3>1. PICK at \in Routes :
             /\ tab' = [tab EXCEPT ![t] = [pc |-> "accepted", at |-> at, asked |-> Seen(at).turn]]
             /\ live' = IF at = "home" THEN [live EXCEPT !.payload = live.turn] ELSE live
      BY <2>11 DEF Accept
    <3>2. at \in {"home", "away"} /\ Seen(at).turn \in 0 .. MaxTurns
      BY DEF Seen, Routes
    <3>3. tab' \in [Tabs -> [pc : TabPc, at : {"home", "away"}, asked : 0 .. MaxTurns]]
      BY <3>1, <3>2
    <3>4. live' \in LiveSet
      BY <3>1 DEF LiveSet
    <3> QED
      BY <2>11, <3>3, <3>4 DEF Accept, LiveSet
  <2>12. ASSUME NEW t \in Tabs, AcceptInMemory(t) PROVE TypeOK'
    <3>1. tab' \in [Tabs -> TabSet]
      <4>1. tab[t] \in TabSet /\ live.turn \in 0 .. MaxTurns
        BY DEF TabSet
      <4>2. [tab[t] EXCEPT !.asked = live.turn] \in TabSet
        BY <4>1 DEF TabSet
      <4>3. tab' = [tab EXCEPT ![t] = [tab[t] EXCEPT !.asked = live.turn]]
        BY <2>12 DEF AcceptInMemory
      <4>4. tab \in [Tabs -> TabSet]
        BY DEF TabSet
      <4> QED
        BY <4>2, <4>3, <4>4, Zenon
    <3>2. live' \in LiveSet
      BY <2>12 DEF AcceptInMemory, LiveSet
    <3> QED
      BY <2>12, <3>1, <3>2 DEF AcceptInMemory, LiveSet, TabSet
  <2>13. ASSUME NEW t \in Tabs, Store(t) PROVE TypeOK'
    <3>1. tab' \in [Tabs -> TabSet]
      <4>1. tab \in [Tabs -> TabSet] /\ "stored" \in TabPc
        BY DEF TabSet
      <4> QED
        BY <2>13, <4>1, TabMoves, Zenon DEF Store
    <3>2. row' \in [status : Status, turn : 0 .. MaxTurns]
      BY <2>13 DEF Store
    <3> QED
      BY <2>13, <3>1, <3>2 DEF Store, TabSet
  <2>14. ASSUME NEW t \in Tabs, Publish(t) PROVE TypeOK'
    <3>1. tab' \in [Tabs -> TabSet]
      <4>1. tab \in [Tabs -> TabSet] /\ "published" \in TabPc
        BY DEF TabSet
      <4> QED
        BY <2>14, <4>1, TabMoves, Zenon DEF Publish
    <3>2. mail' \in 0 .. MaxTurns
      BY <2>14 DEF Publish
    <3> QED
      BY <2>14, <3>1, <3>2 DEF Publish, TabSet
  <2>15. ASSUME NEW t \in Tabs, SetEvent(t) PROVE TypeOK'
    <3>1. live' \in LiveSet
      BY <2>15 DEF SetEvent, LiveSet
    <3>2. tab \in [Tabs -> TabSet] /\ "idle" \in TabPc
      BY DEF TabSet
    <3>3. [tab EXCEPT ![t].pc = "idle"] \in [Tabs -> TabSet]
      BY <3>2, TabMoves, Zenon
    <3> QED
      BY <2>15, <3>1, <3>3 DEF SetEvent, LiveSet, TabSet
  <2>16. ASSUME NEW t \in Tabs, PublishFails(t) PROVE TypeOK'
    <3>1. lost' \in 0 .. MaxLost
      BY <2>16 DEF PublishFails
    <3>2. tab \in [Tabs -> TabSet] /\ "published" \in TabPc
      BY DEF TabSet
    <3>3. [tab EXCEPT ![t].pc = "published"] \in [Tabs -> TabSet]
      BY <3>2, TabMoves, Zenon
    <3> QED
      BY <2>16, <3>1, <3>3 DEF PublishFails, TabSet
  <2> QED
    BY <2>1, <2>2, <2>3, <2>4, <2>5, <2>6, <2>7, <2>8, <2>9, <2>10, <2>11,
       <2>12, <2>13, <2>14, <2>15, <2>16 DEF Next, RunnerStep, Respond
<1> QED
  BY <1>1, <1>2, PTL DEF Spec

\* _invoke_streaming resumes with what the pause handler returns: a wake-up
\* that carries no reply leaves the graph at the same question.
THEOREM OnlyRepliesAdvance == Spec => AdvancesOnlyByReply
<1>1. ASSUME TypeOK, Next PROVE turn' # turn /\ turn # 0 => answers[turn] # 0
  BY <1>1 DEF Next, RunnerStep, Respond, Ask, NextQuestion, StoreParked, Subscribe,
     Emit, Wake, Take, StoreRunning, Finish, Deliver, Accept, AcceptInMemory, Store,
     Publish, SetEvent, PublishFails, graph
<1>2. ASSUME TypeOK, [Next]_vars
      PROVE [turn' # turn /\ turn # 0 => answers[turn] # 0]_vars
  BY <1>1, <1>2
<1> QED
  BY TypeCorrect, <1>2, PTL DEF Spec, AdvancesOnlyByReply

-----------------------------------------------------------------------------
(* The in-memory store.                                                    *)

Asking == {"parking", "emitting", "waiting", "resumed"}

\* One object, no request suspended half-way.
Together ==
  /\ row = Persistent(live)
  /\ watcher = "none" /\ mail = 0
  /\ \A t \in Tabs : tab[t].pc = "idle"
  /\ runner # "subscribing"

\* The parked status is that of the open question.
Open ==
  /\ live.status = "ended" <=> runner = "ended"
  /\ live.status = "awaiting_learner" <=> runner \in Asking
  /\ runner \in Asking => turn \in Turns /\ live.turn = turn

\* A reply and the event come and go together, for the open question.
Paired ==
  runner # "ended" =>
    /\ live.event <=> live.payload # 0
    /\ live.payload # 0 => runner \in Asking /\ live.payload = turn

IInv == TypeOK /\ ~Remote /\ Together /\ Open /\ Paired /\ AnswersAcceptedTurn /\ WakesCarryReply

\* The first state has nothing asked, set or under way.
LEMMA InMemoryInit == ~Remote /\ Init => IInv
  BY ConstantsAssumption DEF Init, IInv, TypeOK, Together, Open, Paired, AnswersAcceptedTurn,
     WakesCarryReply, Asking, Persistent, Turns, Status, RunnerPc, TabPc

\* With one process every step, a stop of it included, keeps the invariant.
LEMMA InMemoryStep ==
  ASSUME ~Remote, IInv, TypeOK', [Next]_vars
  PROVE  IInv'
<1> USE ConstantsAssumption
<1> USE DEF IInv, TypeOK, Together, Open, Paired, AnswersAcceptedTurn, WakesCarryReply,
        Asking, Persistent, StoredWith, Turns, Status, RunnerPc, TabPc, RunnerGoes, graph,
        job, wire
<1>a. deployment' = deployment /\ ~Remote'
  BY DEF Next, vars, Remote
<1> USE <1>a
<1>1. CASE UNCHANGED vars
  BY <1>1 DEF vars
<1>2. CASE Ask
  BY <1>2 DEF Ask, NextQuestion
<1>3. CASE StoreParked
  BY <1>3 DEF StoreParked
<1>4. CASE Subscribe
  BY <1>4 DEF Subscribe
<1>5. CASE Emit
  BY <1>5 DEF Emit
<1>6. CASE Wake
  BY <1>6 DEF Wake
<1>7. CASE Take
  BY <1>7 DEF Take
<1>8. CASE StoreRunning
  BY <1>8 DEF StoreRunning
<1>9. CASE Finish
  BY <1>9 DEF Finish
<1>10. CASE Deliver
  BY <1>10 DEF Deliver
<1>11. ASSUME NEW t \in Tabs, Accept(t) PROVE IInv'
  BY <1>11 DEF Accept
<1>12. ASSUME NEW t \in Tabs, AcceptInMemory(t) PROVE IInv'
  BY <1>12 DEF AcceptInMemory, MayAnswer, Seen
<1>13. ASSUME NEW t \in Tabs, Respond(t) \/ PublishFails(t) PROVE IInv'
  BY <1>13 DEF Respond, Store, Publish, SetEvent, PublishFails, TabGoes
<1> QED
  BY <1>1, <1>2, <1>3, <1>4, <1>5, <1>6, <1>7, <1>8, <1>9, <1>10, <1>11, <1>12, <1>13
     DEF Next, RunnerStep

\* The invariant holds as long as the session lasts.
LEMMA InMemoryInvariant == Spec => [](~Remote => IInv)
<1> DEFINE Inv == ~Remote => IInv
<1>1. Init => Inv
  BY InMemoryInit
<1>2. Inv /\ TypeOK' /\ [Next]_vars => Inv'
  <2>1. [Next]_vars => Remote' = Remote
    BY DEF Next, vars, Remote
  <2> QED
    BY <2>1, InMemoryStep
<1> QED
  BY TypeCorrect, <1>1, <1>2, PTL DEF Spec

\* With InMemoryJobStore a reply resumes the turn whose status check it
\* passed, and a park never returns without one.
THEOREM InMemoryRepliesMatch == Spec => [](~Remote => AnswersAcceptedTurn /\ WakesCarryReply)
<1>1. (~Remote => IInv) => (~Remote => AnswersAcceptedTurn /\ WakesCarryReply)
  BY DEF IInv
<1> QED
  BY InMemoryInvariant, <1>1, PTL

\* A park of the in-memory store returns because of a reply.
THEOREM WakesAreReplies == Spec => []WakesCarryReply
<1>1. (~Remote => AnswersAcceptedTurn /\ WakesCarryReply) => WakesCarryReply
  BY DEF WakesCarryReply
<1> QED
  BY InMemoryRepliesMatch, <1>1, PTL

-----------------------------------------------------------------------------
(* Redis, and a learner with one tab, on another worker than the runner's.  *)

Own == tab[Lone]

\* The learner's request knows the row only, and nobody else has one.
OneTabAway ==
  /\ \A t \in Tabs : t # Lone => tab[t].pc = "idle"
  /\ Own.pc # "idle" => Own.at = "away"

\* The instance and the row carry the open question while it is asked; a
\* question the runner has left has its reply.
AwayOpen ==
  /\ live.status = "awaiting_learner" <=> runner \in Asking \cup {"subscribing"}
  /\ runner \in {"running", "unparking"} => live.status = "running"
  /\ runner \in Asking \cup {"subscribing"} => live.turn = turn
  /\ runner # "running" => turn \in Turns
  /\ runner \in {"running", "parking"} => row.status = "running"
  /\ runner \notin {"running", "parking"} => row = [status |-> "awaiting_learner", turn |-> turn]
  /\ runner = "unparking" \/ (runner = "running" /\ turn # 0) => answers[turn] = turn

\* Where the one reply to the open question is: with its request, then in the
\* mail of the listening runner, then on the instance with the event.
AwayReply ==
  /\ Own.asked <= turn
  /\ Own.pc \in {"accepted", "stored"} =>
       /\ Own.asked = turn /\ ~live.event /\ mail = 0
       /\ runner \in {"subscribing", "emitting", "waiting"}
  /\ watcher = "listening" => runner \in {"emitting", "waiting"}
  /\ mail # 0 => mail = turn /\ Own.asked = turn /\ watcher = "listening"
  /\ live.event <=> live.payload # 0
  /\ live.payload \in {0, turn}
  /\ live.event => runner \in {"emitting", "waiting", "resumed"} /\ Own.asked = turn
  /\ runner = "resumed" => live.event
  /\ runner = "unparking" => Own.asked = turn
  /\ runner = "parking" => Own.asked < turn

AInv ==
  /\ TypeOK /\ deployment = "away" /\ OneTabAway /\ AnswersAcceptedTurn
  /\ runner # "ended" => AwayOpen /\ AwayReply

\* The first state has nothing asked, set or under way.
LEMMA AwayInit == Init /\ deployment = "away" => AInv
  BY ConstantsAssumption DEF Init, AInv, TypeOK, OneTabAway, AnswersAcceptedTurn, AwayOpen,
     AwayReply, Own, Asking, Turns, Status, RunnerPc, TabPc

\* Every step of the runner, the channel and the one tab keeps the invariant.
LEMMA AwayStep ==
  ASSUME AInv, TypeOK', [Next]_vars
  PROVE  AInv'
<1> USE ConstantsAssumption
<1>a. deployment' = "away" /\ Remote /\ Routes = {"away"} /\ ~Crowd
  BY DEF Next, vars, AInv, Remote, Routes, Crowd
<1> USE <1>a
<1>b. TypeOK /\ OneTabAway /\ AnswersAcceptedTurn /\ (runner # "ended" => AwayOpen /\ AwayReply)
  BY DEF AInv
<1> USE <1>b
<1> SUFFICES /\ OneTabAway' /\ AnswersAcceptedTurn'
             /\ runner' # "ended" => AwayOpen' /\ AwayReply'
  BY DEF AInv
<1> USE DEF TypeOK, OneTabAway, AnswersAcceptedTurn, AwayOpen, AwayReply, Own, Asking,
        Persistent, StoredWith, Turns, Status, RunnerPc, TabPc, RunnerGoes, TabGoes, graph,
        job, wire
<1>1. CASE UNCHANGED vars
  BY <1>1 DEF vars
<1>2. CASE Ask
  BY <1>2 DEF Ask, NextQuestion
<1>3. CASE StoreParked
  BY <1>3 DEF StoreParked
<1>4. CASE Subscribe
  BY <1>4 DEF Subscribe
<1>5. CASE Emit
  BY <1>5 DEF Emit
<1>6. CASE Wake
  BY <1>6 DEF Wake
<1>7. CASE Take
  BY <1>7 DEF Take
<1>8. CASE StoreRunning
  BY <1>8 DEF StoreRunning
<1>9. CASE Finish
  BY <1>9 DEF Finish
<1>10. CASE Deliver
  BY <1>10 DEF Deliver
<1>11. ASSUME NEW t \in Tabs, Accept(t) PROVE AInv'
  <2>1. t = Lone /\ row.status = "awaiting_learner" /\ tab[Lone].asked < row.turn
    BY <1>11 DEF Accept, MayAnswer, Seen
  <2>2. tab' = [tab EXCEPT ![Lone] = [pc |-> "accepted", at |-> "away", asked |-> row.turn]]
        /\ live' = live
    BY <1>11, <2>1 DEF Accept, Seen
  <2> QED
    BY <1>11, <2>1, <2>2 DEF Accept, AInv
<1>12. ASSUME NEW t \in Tabs, AcceptInMemory(t) PROVE AInv'
  BY <1>12 DEF AcceptInMemory
<1>13. ASSUME NEW t \in Tabs, Store(t) PROVE AInv'
  <2>1. tab[t].pc = "accepted" /\ tab' = [tab EXCEPT ![t].pc = "stored"]
    BY <1>13 DEF Store
  <2>2. t = Lone
    BY <2>1
  <2>3. Own'.pc = "stored" /\ Own'.at = "away" /\ Own'.asked = tab[Lone].asked
        /\ \A u \in Tabs : u # Lone => tab'[u] = tab[u]
    BY <2>1, <2>2
  <2>4. runner # "ended" => row' = [status |-> "awaiting_learner", turn |-> turn]
    BY <1>13, <2>1, <2>2 DEF Store
  <2>5. UNCHANGED <<runner, graph, live, wire>>
    BY <1>13 DEF Store
  <2> QED
    BY <2>1, <2>2, <2>3, <2>4, <2>5 DEF AInv
<1>14. ASSUME NEW t \in Tabs, Publish(t) \/ PublishFails(t) PROVE AInv'
  <2>1. tab[t].pc = "stored" /\ tab' = [tab EXCEPT ![t].pc = "published"]
    BY <1>14 DEF Publish, PublishFails
  <2>2. t = Lone
    BY <2>1
  <2>3. Own'.pc = "published" /\ Own'.at = "away" /\ Own'.asked = tab[Lone].asked
        /\ \A u \in Tabs : u # Lone => tab'[u] = tab[u]
    BY <2>1, <2>2
  <2>4. mail' = mail \/ (watcher = "listening" /\ mail = 0 /\ mail' = tab[Lone].asked)
    BY <1>14, <2>2 DEF Publish, PublishFails
  <2>5. UNCHANGED <<runner, graph, job, watcher>>
    BY <1>14 DEF Publish, PublishFails
  <2> QED
    BY <2>1, <2>2, <2>3, <2>4, <2>5 DEF AInv
<1>15. ASSUME NEW t \in Tabs, SetEvent(t) PROVE AInv'
  <2>1. tab[t].pc = "published" /\ tab' = [tab EXCEPT ![t].pc = "idle"]
    BY <1>15 DEF SetEvent
  <2>2. t = Lone
    BY <2>1
  <2>3. Own'.pc = "idle" /\ Own'.asked = tab[Lone].asked
        /\ \A u \in Tabs : u # Lone => tab'[u] = tab[u]
    BY <2>1, <2>2
  <2>4. UNCHANGED <<runner, graph, job, wire>>
    BY <1>15, <2>1, <2>2 DEF SetEvent
  <2> QED
    BY <2>1, <2>2, <2>3, <2>4 DEF AInv
<1> QED
  BY <1>1, <1>2, <1>3, <1>4, <1>5, <1>6, <1>7, <1>8, <1>9, <1>10, <1>11, <1>12, <1>13,
     <1>14, <1>15 DEF Next, RunnerStep, Respond, AInv

\* With a learner on another worker, too, what is proved for one process holds.
THEOREM AwayInvariant == Spec => [](deployment = "away" => AInv)
<1> DEFINE Inv == deployment = "away" => AInv
<1>1. Init => Inv
  BY AwayInit
<1>2. Inv /\ TypeOK' /\ [Next]_vars => Inv'
  <2>1. [Next]_vars => deployment' = deployment
    BY DEF Next, vars
  <2> QED
    BY <2>1, AwayStep
<1> QED
  BY TypeCorrect, <1>1, <1>2, PTL DEF Spec

\* submit_turn's status check and the pause handler's read of the reply agree
\* on the question: in one process, and for one tab on another worker.
THEOREM RepliesAreMatched == Spec => []RepliesMatch
<1>1. (~Remote => AnswersAcceptedTurn /\ WakesCarryReply) /\ (deployment = "away" => AInv)
        => RepliesMatch
  BY DEF RepliesMatch, Remote, AInv
<1> QED
  BY InMemoryRepliesMatch, AwayInvariant, <1>1, PTL

\* The row other workers and reconnecting streams read asks the question that
\* is open, in the same two deployments.
THEOREM RowsAskTheOpenTurn == Spec => []RowAsksOpenTurn
<1>1. ~Remote /\ IInv => RowAsksOpenTurn
  BY DEF RowAsksOpenTurn, Remote, IInv, Together, Open, Asking, Persistent
<1>2. deployment = "away" /\ AInv => RowAsksOpenTurn
  BY DEF RowAsksOpenTurn, AInv, AwayOpen, TypeOK, RunnerPc
<1>3. (~Remote => IInv) /\ (deployment = "away" => AInv) => RowAsksOpenTurn
  BY <1>1, <1>2 DEF RowAsksOpenTurn, Remote
<1> QED
  BY InMemoryInvariant, AwayInvariant, <1>3, PTL

-----------------------------------------------------------------------------
(* The session as a dialogue, in every deployment.                          *)

Parked == {"parking", "subscribing", "emitting", "waiting", "resumed"}

\* Nothing on the way speaks of a question still to come.
Recent ==
  /\ live.turn <= turn /\ live.payload <= turn /\ row.turn <= turn /\ mail <= turn
  /\ \A t \in Tabs : tab[t].asked <= turn

\* The questions to come have no reply, nor has the one being asked.
Unanswered ==
  /\ runner \in Parked => turn \in Turns /\ answers[turn] = 0
  /\ \A k \in Turns : k > turn => answers[k] = 0

LEMMA DialogueInit == Init => Recent /\ Unanswered
  BY ConstantsAssumption DEF Init, Recent, Unanswered, Parked, Turns

\* The next question is the first one, the same or the one after it.
LEMMA NextQuestions ==
  ASSUME TypeOK, Unanswered, NextQuestion \in Turns
  PROVE  /\ NextQuestion = turn \/ (NextQuestion = turn + 1 /\ (turn # 0 => answers[turn] # 0))
         /\ turn <= NextQuestion /\ answers[NextQuestion] = 0
BY ConstantsAssumption DEF TypeOK, Unanswered, NextQuestion, Turns

\* What a request is shown is no question still to come.
LEMMA SeenRecent == ASSUME TypeOK, Recent, NEW at PROVE Seen(at).turn \in 0 .. turn
BY ConstantsAssumption DEF TypeOK, Recent, Seen, Persistent

LEMMA RecentStep == ASSUME TypeOK, Recent, Unanswered, [Next]_vars PROVE Recent'
<1> USE ConstantsAssumption DEF TypeOK, Recent, RunnerGoes, TabGoes, Persistent, StoredWith, graph, job, wire
<1>0. turn \in Nat /\ turn <= MaxTurns
  OBVIOUS
<1>1. CASE UNCHANGED vars
  BY <1>1 DEF vars
<1>2. CASE Ask
  <2>1. turn' = NextQuestion /\ turn <= turn' /\ turn' \in Nat
    BY <1>2, NextQuestions DEF Ask, Turns
  <2>2. live'.turn = turn' /\ live'.payload = live.payload /\ (row' = row \/ row'.turn = turn')
    BY <1>2, <2>1 DEF Ask
  <2> QED
    BY <1>2, <2>1, <2>2 DEF Ask
<1>3. CASE StoreParked \/ Subscribe \/ Emit \/ Wake \/ StoreRunning
  BY <1>3 DEF StoreParked, Subscribe, Emit, Wake, StoreRunning
<1>4. CASE Take
  BY <1>4 DEF Take
<1>5. CASE Finish
  BY <1>5 DEF Finish
<1>6. CASE Deliver
  BY <1>6 DEF Deliver
<1>7. ASSUME NEW t \in Tabs, Accept(t) \/ AcceptInMemory(t) PROVE Recent'
  <2>1. CASE Accept(t)
    <3>1. PICK at \in Routes :
             /\ tab' = [tab EXCEPT ![t] = [pc |-> "accepted", at |-> at, asked |-> Seen(at).turn]]
             /\ live' = IF at = "home" THEN [live EXCEPT !.payload = live.turn] ELSE live
      BY <2>1 DEF Accept
    <3>2. \A u \in Tabs : tab'[u].asked <= turn
      BY <3>1, SeenRecent
    <3>3. live'.turn <= turn /\ live'.payload <= turn
      BY <3>1
    <3> QED
      BY <2>1, <3>2, <3>3 DEF Accept
  <2>2. CASE AcceptInMemory(t)
    <3>1. \A u \in Tabs : tab'[u].asked <= turn
      BY <2>2 DEF AcceptInMemory
    <3>2. live'.turn <= turn /\ live'.payload <= turn
      BY <2>2 DEF AcceptInMemory
    <3> QED
      BY <2>2, <3>1, <3>2 DEF AcceptInMemory
  <2> QED
    BY <1>7, <2>1, <2>2
<1>8. ASSUME NEW t \in Tabs, Respond(t) \/ PublishFails(t) PROVE Recent'
  <2>1. \A u \in Tabs : tab'[u].asked = tab[u].asked
    BY <1>8 DEF Respond, PublishFails, Store, Publish, SetEvent
  <2>2. UNCHANGED graph /\ live'.turn = live.turn /\ live'.payload = live.payload
    BY <1>8 DEF Respond, PublishFails, Store, Publish, SetEvent
  <2>3. row'.turn <= turn /\ mail' <= turn
    BY <1>8 DEF Respond, PublishFails, Store, Publish, SetEvent
  <2> QED
    BY <2>1, <2>2, <2>3
<1> QED
  BY <1>1, <1>2, <1>3, <1>4, <1>5, <1>6, <1>7, <1>8 DEF Next, RunnerStep

LEMMA UnansweredStep == ASSUME TypeOK, Unanswered, [Next]_vars PROVE Unanswered'
<1> USE ConstantsAssumption DEF TypeOK, Unanswered, Parked, RunnerGoes, graph
<1>1. CASE UNCHANGED <<runner, graph>>
  BY <1>1
<1>2. CASE Ask
  BY <1>2, NextQuestions DEF Ask, Turns
<1>3. CASE StoreParked \/ Subscribe \/ Emit \/ Wake \/ StoreRunning \/ Finish
  BY <1>3 DEF StoreParked, Subscribe, Emit, Wake, StoreRunning, Finish
<1>4. CASE Take
  BY <1>4 DEF Take, Turns
<1> QED
  BY <1>1, <1>2, <1>3, <1>4 DEF Next, RunnerStep, Deliver, Accept, AcceptInMemory, Respond,
     Store, Publish, SetEvent, PublishFails, vars

\* What the runner takes is meant for the question it is at, where a reply can
\* only be meant for that one.
LEMMA TakesExactly ==
  ASSUME ~Remote => IInv, deployment = "away" => AInv, Take,
         deployment \in {"memory", "away"}, live.payload # 0
  PROVE  live.payload = turn
<1>1. runner = "resumed"
  BY DEF Take, RunnerGoes
<1>2. CASE deployment = "memory"
  BY <1>1, <1>2 DEF Remote, IInv, Paired
<1>3. CASE deployment = "away"
  BY <1>1, <1>3 DEF AInv, AwayReply
<1> QED
  BY <1>2, <1>3

\* Asking again is no step of the dialogue, and neither is a wake without a
\* reply.
LEMMA StepTalks ==
  ASSUME TypeOK, Recent, Unanswered, ~Remote => IInv, deployment = "away" => AInv, [Next]_vars
  PROVE  [Talk!Next]_(Talk!vars)
<1> USE DEF Talk!vars
<1>0. deployment' = deployment
  BY DEF Next, vars
<1>1. CASE Ask
  <2>1. turn' = NextQuestion /\ NextQuestion \in Turns /\ runner = "running" /\ runner' = "parking"
        /\ UNCHANGED answers
    BY <1>1 DEF Ask, RunnerGoes
  <2>2. CASE turn' = turn
    BY <1>0, <2>1, <2>2
  <2>3. CASE turn' = turn + 1 /\ (turn # 0 => answers[turn] # 0)
    <3>1. turn < MaxTurns
      BY <2>1, <2>3, ConstantsAssumption DEF TypeOK, Turns
    <3> QED
      BY <1>0, <2>1, <2>3, <3>1 DEF Talk!Next, Talk!Ask
  <2> QED
    BY <2>1, <2>2, <2>3, NextQuestions
<1>2. CASE Take
  <2>1. /\ runner = "resumed" /\ runner' = "unparking" /\ turn' = turn
        /\ answers' = [answers EXCEPT ![turn] = live.payload]
        /\ turn \in Turns /\ answers[turn] = 0
    BY <1>2 DEF Take, RunnerGoes, Unanswered, Parked
  <2>2. CASE live.payload = 0
    <3>1. answers' = answers
      BY <2>1, <2>2 DEF TypeOK
    <3> QED
      BY <1>0, <2>1, <3>1
  <2>3. CASE live.payload # 0
    <3>1. live.payload \in 1 .. turn
      BY <2>3, ConstantsAssumption DEF TypeOK, Recent
    <3>2. deployment \in {"memory", "away"} => live.payload = turn
      BY <1>2, <2>3, TakesExactly
    <3>3. turn # 0
      BY <2>1 DEF Turns
    <3> QED
      BY <1>0, <2>1, <3>1, <3>2, <3>3 DEF Talk!Next, Talk!Reply
  <2> QED
    BY <2>2, <2>3
<1>3. CASE Finish
  BY <1>0, <1>3 DEF Finish, graph, Talk!Next, Talk!End
<1>4. CASE StoreParked \/ Subscribe \/ Emit \/ Wake \/ StoreRunning
  BY <1>0, <1>4 DEF StoreParked, Subscribe, Emit, Wake, StoreRunning, RunnerGoes, graph
<1>5. CASE UNCHANGED <<runner, graph>>
  BY <1>0, <1>5 DEF graph
<1> QED
  BY <1>1, <1>2, <1>3, <1>4, <1>5 DEF Next, RunnerStep, Deliver, Accept, AcceptInMemory, Respond,
     Store, Publish, SetEvent, PublishFails, vars

\* Whatever wakes the runner and however replies are lost, repeated or late:
\* questions come in order, each is left only with a reply, taken once, and
\* where a reply can only be meant for the open question it is
\* (_handle_session_turn_pause, _unpark, submit_turn).
THEOREM SessionIsDialogue == Spec => TalkSpec
<1>1. Init => Talk!Init
  BY DEF Init, Talk!Init, Turns
<1>2. TypeOK /\ Recent /\ Unanswered /\ [Next]_vars => Recent' /\ Unanswered'
  BY RecentStep, UnansweredStep
<1>3. TypeOK /\ Recent /\ Unanswered /\ (~Remote => IInv) /\ (deployment = "away" => AInv) /\ [Next]_vars
        => [Talk!Next]_(Talk!vars)
  BY StepTalks
<1> QED
  BY <1>1, <1>2, <1>3, DialogueInit, TypeCorrect, InMemoryInvariant, AwayInvariant, PTL
     DEF Spec, TalkSpec, Talk!Spec
=============================================================================
