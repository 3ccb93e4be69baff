------------------------------- MODULE Campaign -------------------------------
(***************************************************************************)
(* One evaluation campaign on disk and the passes that execute it           *)
(* (execute_campaign in campaign/execute.py).  A pass is one process at a     *)
(* time; it may die between any two files, and the next pass goes on from     *)
(* what the episode directories hold.                                       *)
(*                                                                         *)
(* An episode is sealed, its graph run or recovered from its snapshot, the    *)
(* snapshot written, scored, and its artifacts written, the completion        *)
(* receipt last.  The trajectory, approvals and the files nobody reads back   *)
(* are left out.  Costs are whole numbers.                                  *)
(***************************************************************************)
EXTENDS Integers, FiniteSets, Functions

CONSTANTS
  N,           \* planned episodes
  Configs,     \* what a manifest seals: settings, prices, dependency lock
  GraphCosts,  \* what a run of the graph may cost
  JudgeCosts,  \* what scoring may cost
  Cap,         \* total_cost_usd_max of the campaign, 0 for none
  MaxCrashes,  \* bound on the passes that die
  MaxChanges   \* bound on the changes of the live configuration

ASSUME ConstantsAssumption ==
  /\ N \in Nat
  /\ Configs # {} /\ {"none", "lone"} \cap Configs = {}
  /\ GraphCosts \subseteq Nat /\ GraphCosts # {}
  /\ JudgeCosts \subseteq Nat /\ JudgeCosts # {}
  /\ Cap \in Nat /\ MaxCrashes \in Nat /\ MaxChanges \in Nat

\* An episode runs under its own caps: there is a most it may cost.
ASSUME CostsBounded ==
  \A costs \in {GraphCosts, JudgeCosts} : \E c \in costs : \A k \in costs : k <= c

VARIABLES
  disk,      \* per episode: its directory
  ledger,    \* ledger.json: the outcomes it lists
  config,    \* the live configuration
  pc,        \* where the pass is
  cur,       \* its episode
  todo,      \* pending, less the ones begun
  executed,  \* episodes this pass completed
  outcomes,  \* what it adds up
  first,     \* _first_fingerprint, "none" before the first episode
  run,       \* workflow_cost_usd of the run in hand
  score,     \* judge cost and metric of the scores in hand
  spent,     \* per episode: the money really spent
  lost,      \* per episode: crashes that took a run of the graph
  missed,    \* per episode: scorings nobody booked
  crashes, changes

pass  == <<pc, cur, todo, executed, outcomes, first, run, score>>
money == <<spent, lost, missed>>
vars  == <<disk, ledger, config, pass, money, crashes, changes>>

-----------------------------------------------------------------------------
\* The plan, in its order.
Episodes == 1 .. N

\* The outcome of an episode as the ledger counts it.
NotStarted == [terminal |-> FALSE, cost |-> 0, metric |-> TRUE]
Finished(cost, metric) == [terminal |-> TRUE, cost |-> cost, metric |-> metric]

Outcomes == [terminal : BOOLEAN, cost : Nat, metric : BOOLEAN]
Steps == {"off", "next", "seal", "run", "state", "score", "scores", "receipt", "observe", "ledger"}
Directories ==
  [manifest : Configs \cup {"none", "lone"},  \* "lone": without its sidecar
   state    : {"none", "torn", "reduced", "usable"},
   paid     : GraphCosts \cup {0},           \* workflow cost in the snapshot
   scores   : {"none", "torn", "metric", "null"},
   receipt  : {"none", "torn", "full"},
   cost     : Nat]                            \* workflow and judge cost in it

TypeOK ==
  /\ disk \in [Episodes -> Directories]
  /\ ledger \in [Episodes -> Outcomes]
  /\ config \in Configs
  /\ pc \in Steps
  /\ cur \in Episodes \cup {0} /\ (pc \notin {"off", "next", "ledger"} => cur \in Episodes)
  /\ todo \subseteq Episodes /\ executed \subseteq Episodes
  /\ outcomes \in [Episodes -> Outcomes]
  /\ first \in Configs \cup {"none"}
  /\ run \in GraphCosts \cup {0}
  /\ score \in [judge : JudgeCosts \cup {0}, metric : BOOLEAN]
  /\ spent \in [Episodes -> Nat] /\ lost \in [Episodes -> Nat] /\ missed \in [Episodes -> Nat]
  /\ crashes \in 0 .. MaxCrashes /\ changes \in 0 .. MaxChanges

EmptyDirectory ==
  [manifest |-> "none", state |-> "none", paid |-> 0, scores |-> "none", receipt |-> "none", cost |-> 0]

NoScore == [judge |-> 0, metric |-> FALSE]
Zero == [e \in Episodes |-> 0]
Idle == /\ cur' = 0 /\ todo' = {} /\ executed' = {} /\ first' = "none" /\ run' = 0
        /\ outcomes' = [e \in Episodes |-> NotStarted]
        /\ score' = NoScore

\* The campaign is planned and materialized.
Init ==
  /\ disk = [e \in Episodes |-> EmptyDirectory]
  /\ ledger = [e \in Episodes |-> NotStarted]
  /\ config \in Configs
  /\ pc = "off" /\ cur = 0 /\ todo = {} /\ executed = {} /\ first = "none" /\ run = 0
  /\ outcomes = [e \in Episodes |-> NotStarted]
  /\ score = NoScore
  /\ spent = Zero /\ lost = Zero /\ missed = Zero
  /\ crashes = 0 /\ changes = 0

-----------------------------------------------------------------------------
(* What a pass reads from the disk.                                        *)

\* Mutant: an episode is done when the ledger says so.
CompleteInLedger(e) == ledger[e].terminal

\* episode_is_complete: the file exists, whatever it holds.
Complete(e) == disk[e].receipt # "none"

\* read_outcomes, of a receipt that can be read.
Recorded(e) ==
  IF disk[e].receipt = "full" THEN Finished(disk[e].cost, disk[e].scores # "null") ELSE NotStarted

\* Mutant: no snapshot stands in for its run.
UsableNever(d) == FALSE

\* _recoverable_run: the snapshot stands in for the run.
Usable(d) == d.state = "usable"

\* Mutant: the manifest is resealed with the time of the resume.
SameDigestNever(d) == FALSE

\* The stored manifest and the one sealed now have the same digest.
SameDigest(d) == d.manifest = config

Total(os) == FoldFunction(LAMBDA o, sum : o.cost + sum, 0, os)

\* Mutant: the cap sees what this pass spent.
CapReachedByPass(os) ==
  Cap > 0 /\ Total([e \in Episodes |-> IF e \in executed THEN os[e] ELSE NotStarted]) >= Cap

\* budget_stop_reached
CapReached(os) == Cap > 0 /\ Total(os) >= Cap

-----------------------------------------------------------------------------
(* One pass.                                                               *)

Goes(from, to) == pc = from /\ pc' = to

Here(d) == disk' = [disk EXCEPT ![cur] = d]

\* CampaignError: the pass ends, and what it knew goes with it.
Refuse == pc' = "off" /\ Idle

\* A torn receipt makes read_outcomes raise, and no pass begins.
StartPass ==
  /\ Goes("off", "next")
  /\ \A e \in Episodes : disk[e].receipt # "torn"
  /\ outcomes' = [e \in Episodes |-> Recorded(e)]
  /\ todo' = {e \in Episodes : ~Complete(e)}
  /\ UNCHANGED <<disk, ledger, config, cur, executed, first, run, score, money, crashes, changes>>

\* The loop ends: nothing pending, the cap, or max_episodes.
EndLoop ==
  /\ Goes("next", "ledger")
  /\ todo = {} \/ CapReached(outcomes) \/ executed # {}
  /\ UNCHANGED <<disk, ledger, config, cur, todo, executed, outcomes, first, run, score, money, crashes, changes>>

BeginEpisode ==
  /\ Goes("next", "seal") /\ ~CapReached(outcomes)
  /\ \E e \in todo : /\ \A k \in todo : e <= k
                     /\ cur' = e /\ todo' = todo \ {e}
  /\ UNCHANGED <<disk, ledger, config, executed, outcomes, first, run, score, money, crashes, changes>>

\* _seal_or_resume: a first attempt is sealed, an interrupted one resumes
\* under the configuration it was sealed with, or the pass is refused.
SealOrResume ==
  /\ pc = "seal"
  /\ LET d == disk[cur] IN
     CASE Complete(cur) -> Refuse /\ UNCHANGED disk
       [] ~Complete(cur) /\ d.manifest = "none" ->
            pc' = "run" /\ Here([d EXCEPT !.manifest = config])
            /\ UNCHANGED <<cur, todo, executed, outcomes, first, run, score>>
       [] ~Complete(cur) /\ d.manifest # "none" /\ SameDigest(d) ->
            pc' = "run" /\ UNCHANGED <<disk, cur, todo, executed, outcomes, first, run, score>>
       [] OTHER -> Refuse /\ UNCHANGED disk
  /\ UNCHANGED <<ledger, config, money, crashes, changes>>

\* The graph runs; whatever it ends in is an outcome with a cost.
RunGraph ==
  /\ Goes("run", "state") /\ ~Usable(disk[cur])
  /\ \E g \in GraphCosts : run' = g /\ spent' = [spent EXCEPT ![cur] = @ + g]
  /\ UNCHANGED <<disk, ledger, config, cur, todo, executed, outcomes, first, score, lost, missed, crashes, changes>>

\* The run is rebuilt from the snapshot of an earlier pass.
Recover ==
  /\ Goes("run", "state") /\ Usable(disk[cur])
  /\ run' = disk[cur].paid
  /\ UNCHANGED <<disk, ledger, config, cur, todo, executed, outcomes, first, score, money, crashes, changes>>

\* write_episode_state, for a recovered run too; a body that does not fit is
\* reduced until it may no longer stand in for the run.
WriteState ==
  /\ Goes("state", "score")
  /\ \E s \in {"usable", "reduced"} : Here([disk[cur] EXCEPT !.state = s, !.paid = run])
  /\ UNCHANGED <<ledger, config, cur, todo, executed, outcomes, first, run, score, money, crashes, changes>>

\* _score_safely; a scorer that raises has spent what nobody books.
Score ==
  /\ Goes("score", "scores")
  /\ \E j \in JudgeCosts :
       /\ spent' = [spent EXCEPT ![cur] = @ + j]
       /\ \/ /\ \E m \in BOOLEAN : score' = [judge |-> j, metric |-> m]
             /\ UNCHANGED missed
          \/ /\ score' = NoScore
             /\ missed' = [missed EXCEPT ![cur] = @ + 1]
  /\ UNCHANGED <<disk, ledger, config, cur, todo, executed, outcomes, first, run, lost, crashes, changes>>

\* The artifacts before the receipt; scores.json is the one read back.
WriteScores ==
  /\ Goes("scores", "receipt")
  /\ Here([disk[cur] EXCEPT !.scores = IF score.metric THEN "metric" ELSE "null"])
  /\ UNCHANGED <<ledger, config, cur, todo, executed, outcomes, first, run, score, money, crashes, changes>>

\* Mutant: the receipt leaves the judge out.
WorkflowCost == run

ReceiptCost == run + score.judge

\* completion.json, and the outcome the pass counts.
WriteReceipt ==
  /\ Goes("receipt", "observe")
  /\ Here([disk[cur] EXCEPT !.receipt = "full", !.cost = ReceiptCost])
  /\ outcomes' = [outcomes EXCEPT ![cur] = Finished(run + score.judge, score.metric)]
  /\ executed' = executed \cup {cur}
  /\ UNCHANGED <<ledger, config, cur, todo, first, run, score, money, crashes, changes>>

\* Mutant: nobody looks at the fingerprint.
DriftedNever(c) == FALSE

\* _provider_drift
Drifted(c) == first \notin {"none", c}

\* _StopRules.observe: a moved instrument stops the pass; source drift and
\* failing judges may.
Observe ==
  /\ pc = "observe"
  /\ LET c == disk[cur].manifest IN
     /\ pc' \in IF Drifted(c) THEN {"ledger"} ELSE {"next", "ledger"}
     /\ first' = IF first = "none" THEN c ELSE first
  /\ cur' = 0 /\ run' = 0 /\ score' = NoScore
  /\ UNCHANGED <<disk, ledger, config, todo, executed, outcomes, money, crashes, changes>>

\* The ledger is rewritten from what was added up, and the pass returns.
WriteLedger ==
  /\ Goes("ledger", "off") /\ Idle
  /\ ledger' = outcomes
  /\ UNCHANGED <<disk, config, money, crashes, changes>>

-----------------------------------------------------------------------------
(* Faults and changes.                                                     *)

\* What a directory may hold after a pass died at this step: the file being
\* written is as before, or cut off.
Remains(d, step) ==
  {d} \cup CASE step = "seal" /\ d.manifest = "none" -> {[d EXCEPT !.manifest = "lone"]}
             [] step = "state"   -> {[d EXCEPT !.state = "torn"]}
             [] step = "scores"  -> {[d EXCEPT !.scores = "torn"]}
             [] step = "receipt" -> {[d EXCEPT !.receipt = "torn"]}
             [] OTHER -> {}

InFlight == pc \in {"run", "state", "score", "scores", "receipt"}

\* The process dies, or a file cannot be written; what the step at hand had
\* spent so far is spent.
Crash ==
  /\ pc # "off" /\ crashes < MaxCrashes /\ crashes' = crashes + 1
  /\ pc' = "off" /\ Idle
  /\ IF pc \in {"next", "ledger"}
       THEN UNCHANGED <<disk, money>>
       ELSE /\ \E d \in Remains(disk[cur], pc) :
                 /\ Here(d)
                 /\ lost' = [lost EXCEPT ![cur] = IF InFlight /\ d.state # "usable" THEN @ + 1 ELSE @]
            /\ missed' = [missed EXCEPT ![cur] = IF pc \in {"score", "scores", "receipt"} THEN @ + 1 ELSE @]
            /\ \E part \in CASE pc = "run" /\ ~Usable(disk[cur]) -> GraphCosts \cup {0}
                             [] pc = "score" -> JudgeCosts \cup {0}
                             [] OTHER -> {0} :
                 spent' = [spent EXCEPT ![cur] = @ + part]
  /\ ledger' = IF pc = "ledger" THEN [e \in Episodes |-> NotStarted] ELSE ledger
  /\ UNCHANGED <<config, changes>>

\* The settings, the price table or the dependency lock change.
Reconfigure ==
  /\ changes < MaxChanges /\ changes' = changes + 1
  /\ config' \in Configs \ {config}
  /\ UNCHANGED <<disk, ledger, pass, money, crashes>>

-----------------------------------------------------------------------------
PassStep ==
  \/ EndLoop \/ BeginEpisode \/ SealOrResume \/ RunGraph \/ Recover \/ WriteState
  \/ Score \/ WriteScores \/ WriteReceipt \/ Observe \/ WriteLedger

Next == StartPass \/ PassStep \/ Crash \/ Reconfigure

Spec == Init /\ [][Next]_vars

\* The process runs, and the operator starts the next pass.
Fairness == WF_vars(PassStep) /\ WF_vars(StartPass)

FairSpec == Spec /\ Fairness

-----------------------------------------------------------------------------
MostOf(costs) == CHOOSE c \in costs : \A k \in costs : k <= c

\* A receipt says what its episode cost, but for one run of the graph for each
\* crash that left no usable snapshot and one scoring for each that nobody
\* booked: recovery pays for nothing twice (_recoverable_run, _score_safely).
SpendAccounted ==
  \A e \in Episodes : disk[e].receipt = "full" =>
    /\ disk[e].cost <= spent[e]
    /\ spent[e] <= disk[e].cost + lost[e] * MostOf(GraphCosts) + missed[e] * MostOf(JudgeCosts)

Altogether(amounts) == FoldFunction(LAMBDA k, sum : k + sum, 0, amounts)

\* Over all passes the receipts exceed the cap by less than one episode
\* (budget_stop_reached: "can overshoot by the episode in flight"), and so does
\* the money but for the runs crashes took and the scorings nobody booked.
CapOvershoot ==
  Cap > 0 =>
    /\ Total([e \in Episodes |-> Recorded(e)]) < Cap + MostOf(GraphCosts) + MostOf(JudgeCosts)
    /\ Altogether(spent) < Cap + (1 + Altogether(lost)) * MostOf(GraphCosts)
                               + (1 + Altogether(missed)) * MostOf(JudgeCosts)

\* What a pass adds up between episodes, and what the ledger lists, is what
\* the receipts say, across crashes and refused passes (write_ledger: a count
\* in memory does not publish itself).
BooksMatchDisk ==
  /\ pc \in {"next", "observe", "ledger"} => \A e \in Episodes : outcomes[e] = Recorded(e)
  /\ \A e \in Episodes : ledger[e].terminal => ledger[e] = Recorded(e)

\* While a pass goes on, all it completed was sealed under one configuration
\* (_provider_drift).
PassMeasuresOneInstrument ==
  pc \in {"next", "seal", "run", "state", "score", "scores", "receipt"} =>
    \A e \in executed : disk[e].manifest = first

\* The directory of a completed episode never changes again
\* (assert_not_overwriting).
ReceiptsFinal ==
  [][\A e \in Episodes : disk[e].receipt = "full" => disk'[e] = disk[e]]_vars

\* The receipts on disk and the published ledger are a CampaignRecord.
Record == INSTANCE CampaignRecord WITH
  record <- [e \in Episodes |-> Recorded(e)], published <- ledger

\* Over any number of passes, crashes and refusals outcomes come in the order
\* of the plan, each once and for good and none past the cap, and a ledger that
\* can be read lists them as they are (reconcile: an entry only moves from
\* not_started to a terminal category).
RecordSpec == Record!Spec

\* Every pass is refused, or will be at this episode.
Blocked ==
  \E e \in Episodes : \/ disk[e].receipt = "torn"
                      \/ disk[e].receipt = "none" /\ disk[e].manifest \notin {"none", config}

\* An operator who keeps starting passes ends with every episode completed or
\* the cap spent, unless a crash left a lone manifest or a torn receipt or an
\* interrupted episode was sealed under another configuration.
Finishes ==
  <>[](\/ \A e \in Episodes : disk[e].receipt = "full"
       \/ CapReached([e \in Episodes |-> Recorded(e)])
       \/ Blocked)
=============================================================================
