------------------------------ MODULE BranchLoop ------------------------------
(***************************************************************************)
(* The worker branches of one run: run_branches in policies/orchestration.py  *)
(* executes them in turn, each under a share of the run's cost cap; a branch  *)
(* searches, then the reader analyses its papers on a pool of threads, one    *)
(* model call per paper (agents/reader.py).  Every call is checked against     *)
(* what the run has spent so far and against the job's cancel token           *)
(* (call_llm); its price is booked when it answers.                           *)
(*                                                                         *)
(* Costs are whole numbers; what branches find is left out, so whether the    *)
(* marginal stop ends the loop after a branch that succeeded is free.         *)
(***************************************************************************)
EXTENDS Integers, FiniteSets, Functions

CONSTANTS
  N,           \* branches in the state
  MaxPapers,   \* max_papers of a branch
  Workers,     \* reader_max_workers
  MaxCost,     \* what a model call may cost at most
  Cap,         \* the run's cap: effective_cost_cap on entry
  Shares       \* cost_share_usd of a branch may be one of these, 0 for none

ASSUME ConstantsAssumption ==
  /\ N \in Nat /\ MaxPapers \in Nat
  /\ Workers \in Nat \ {0} /\ MaxCost \in Nat \ {0}
  /\ Cap \in Nat
  /\ Shares \subseteq Nat /\ Shares # {}

VARIABLES
  status,   \* of each branch
  cost,     \* cost_usd of each branch
  share,    \* cost_share_usd, the same for all
  base,     \* what the run had spent when it got here
  spent,    \* RunCosts.total_cost_usd
  cancel,   \* the job's cancel token is set
  pc,       \* the loop
  pos,      \* its branch
  before,   \* spent_before
  bound,    \* the effective cap of the branch
  paper,    \* per paper of the branch: where its analysis is
  refused,  \* per branch: papers the cap or the token kept from being read
  raised,   \* what the fan-out raises
  end       \* how the node ended

records == <<status, cost, refused>>
branch  == <<pos, before, bound>>
given   == <<share, base>>
vars    == <<records, given, spent, cancel, pc, branch, paper, raised, end>>

-----------------------------------------------------------------------------
Branches == 1 .. N
Papers == 1 .. MaxPapers
Settled == {"succeeded", "failed", "cancelled", "budget_stopped", "stopped"}
Returned == {"ok", "bad"}
Raising == {"over", "cancelled"}

\* "taken": on a thread, its text is fetched; "calling": the model is asked.
PaperStates == {"none", "todo", "taken", "calling", "dropped"} \cup Returned \cup Raising

Nothing == [p \in Papers |-> "none"]
At(s) == {p \in Papers : paper[p] = s}
Calling == At("calling")

\* Mutant: a paper that fails costs the pool its thread.
BusyOrBad == At("taken") \cup At("calling") \cup At("bad")

Busy == At("taken") \cup Calling

\* What the threads still hold.
InFlight == [p \in Papers |-> IF p \in Busy THEN paper[p] ELSE "none"]

TypeOK ==
  /\ status \in [Branches -> Settled \cup {"planned"}]
  /\ cost \in [Branches -> Nat] /\ refused \in [Branches -> Nat]
  /\ share \in Shares /\ base \in 0 .. Cap /\ spent \in Nat
  /\ cancel \in BOOLEAN
  /\ pc \in {"loop", "search", "read", "join", "done"}
  /\ pos \in 1 .. N + 1 /\ (pc \in {"search", "read", "join"} => pos \in Branches)
  /\ before \in Nat /\ bound \in 0 .. Cap
  /\ paper \in [Papers -> PaperStates]
  /\ raised \in Raising \cup {"none"}
  /\ end \in {"going", "returned", "no_branch", "ceiling", "cancelled"}

\* The lead appends planned branches to those of an earlier pass; the nodes
\* before have not spent more than the cap.
Init ==
  /\ \E old \in 0 .. N : \E result \in {"succeeded", "failed"} :
       status = [b \in Branches |-> IF b <= old THEN result ELSE "planned"]
  /\ cost = [b \in Branches |-> 0] /\ refused = [b \in Branches |-> 0]
  /\ share \in Shares /\ base \in 0 .. Cap /\ spent = base
  /\ cancel = FALSE
  /\ pc = "loop" /\ pos = 1 /\ before = 0 /\ bound = Cap
  /\ paper = Nothing /\ raised = "none" /\ end = "going"

-----------------------------------------------------------------------------
(* The loop.                                                               *)

Goes(from, to) == pc = from /\ pc' = to
LastStep(how) == pc' = "done" /\ end' = how

\* _settled: the record is written, the effective cap is the run's again.
Settle(as) ==
  /\ status' = [status EXCEPT ![pos] = as]
  /\ cost' = [cost EXCEPT ![pos] = spent - before]
  /\ bound' = Cap /\ paper' = InFlight /\ raised' = "none"
  /\ UNCHANGED <<given, spent, cancel, before, refused>>

\* On to the next branch.
Advance == pc' = "loop" /\ pos' = pos + 1 /\ UNCHANGED end

\* A branch an earlier pass settled.
Skip ==
  /\ pc = "loop" /\ pos \in Branches /\ status[pos] # "planned"
  /\ Advance
  /\ UNCHANGED <<records, given, spent, cancel, before, bound, paper, raised>>

\* check_cancelled between branches.
CancelledBetween ==
  /\ pc = "loop" /\ pos \in Branches /\ status[pos] = "planned" /\ cancel
  /\ LastStep("cancelled")
  /\ UNCHANGED <<records, given, spent, cancel, branch, paper, raised>>

CapOfBranch == IF share > 0 /\ spent + share < Cap THEN spent + share ELSE Cap

Launch ==
  /\ Goes("loop", "search") /\ pos \in Branches /\ status[pos] = "planned" /\ ~cancel
  /\ before' = spent
  /\ bound' = CapOfBranch
  /\ UNCHANGED <<records, given, spent, cancel, pos, paper, raised, end>>

\* search_agent: papers for the reader, or an exception; its pacing looks at
\* the token.
Search ==
  /\ Goes("search", "read")
  /\ \E k \in 0 .. MaxPapers : paper' = [p \in Papers |-> IF p <= k THEN "todo" ELSE "none"]
  /\ UNCHANGED <<records, given, spent, cancel, branch, raised, end>>

SearchFails == pc = "search" /\ Settle("failed") /\ Advance

SearchCancelled ==
  /\ pc = "search" /\ cancel /\ Settle("cancelled")
  /\ LastStep("cancelled") /\ UNCHANGED pos

-----------------------------------------------------------------------------
(* The reader's threads.                                                   *)

Moves(p, to) == paper' = [paper EXCEPT ![p] = to]
Thread == UNCHANGED <<status, cost, given, cancel, pc, branch, raised, end>>

\* A free thread takes the first paper left; the map may have raised already
\* and cancelled what is still queued.
Take(p) ==
  /\ pc \in {"read", "join"} /\ paper[p] = "todo" /\ \A q \in At("todo") : p <= q
  /\ Cardinality(Busy) < Workers
  /\ Moves(p, "taken")
  /\ UNCHANGED <<spent, refused>> /\ Thread

\* Mutant: the refusal is contained like a paper's own failure.
ContainAll(kind) == "bad"

\* _analyze_or_degrade raises on; only a paper's own failure is contained.
Contain(kind) == kind

\* check_cancelled, then _check_cost_budget: the token outranks the cap.
Refuse(p) ==
  /\ paper[p] = "taken" /\ (cancel \/ spent >= bound)
  /\ Moves(p, Contain(IF cancel THEN "cancelled" ELSE "over"))
  /\ refused' = [refused EXCEPT ![pos] = @ + 1]
  /\ UNCHANGED spent /\ Thread

\* Mutant: the check is the one made when the branch was launched.
AdmitStale(p) ==
  /\ paper[p] = "taken" /\ ~cancel /\ before < bound
  /\ Moves(p, "calling")
  /\ UNCHANGED <<spent, refused>> /\ Thread

\* call_llm goes out; the price is known when it answers.
Admit(p) ==
  /\ paper[p] = "taken" /\ ~cancel /\ spent < bound
  /\ Moves(p, "calling")
  /\ UNCHANGED <<spent, refused>> /\ Thread

\* The text cannot be prepared: a degraded placeholder.
Degrade(p) ==
  /\ paper[p] = "taken" /\ Moves(p, "bad")
  /\ UNCHANGED <<spent, refused>> /\ Thread

\* The model answers, usably or not, or the provider fails and bills nothing.
Answer(p) ==
  /\ paper[p] = "calling"
  /\ \/ \E c \in 1 .. MaxCost : \E r \in Returned : spent' = spent + c /\ Moves(p, r)
     \/ Moves(p, "bad") /\ UNCHANGED spent
  /\ UNCHANGED refused /\ Thread

\* executor.map delivers in the order of the papers: the first one that raised
\* is seen when all before it have returned; what no thread took is cancelled.
Raise ==
  /\ Goes("read", "join")
  /\ \E p \in Papers :
       /\ paper[p] \in Raising /\ raised' = paper[p]
       /\ \A q \in 1 .. p - 1 : paper[q] \in Returned
  /\ paper' = [q \in Papers |-> IF paper[q] = "todo" THEN "dropped" ELSE paper[q]]
  /\ UNCHANGED <<records, given, spent, cancel, branch, end>>

-----------------------------------------------------------------------------
(* What becomes of the branch.                                             *)

\* Mutant: the pool is left without waiting for its threads.
JoinsAtOnce == TRUE

\* The pool is left when its threads are idle.
Joins == Busy = {}

\* Mutant: every exhausted cap is the run's.
RunStopAlways == TRUE

\* exc.cap_usd >= outer_cap
RunStop == bound >= Cap

\* The run's own ceiling: the exception passes and no record is kept.
Ceiling ==
  /\ pc = "join" /\ Joins /\ raised = "over" /\ RunStop
  /\ LastStep("ceiling")
  /\ UNCHANGED <<records, given, spent, cancel, branch, paper, raised>>

BudgetStopped == pc = "join" /\ Joins /\ raised = "over" /\ ~RunStop /\ Settle("budget_stopped") /\ Advance

Cancelled ==
  /\ pc = "join" /\ Joins /\ raised = "cancelled" /\ Settle("cancelled")
  /\ LastStep("cancelled") /\ UNCHANGED pos

AllReturned == \A p \in Papers : paper[p] \in Returned \cup {"none"}

\* Papers and not one analysis: the reader raises.
ReadFailed == AllReturned /\ At("bad") # {} /\ At("ok") = {}

Read == AllReturned /\ (At("ok") # {} \/ At("bad") = {})

\* Mutant: a branch that failed has gained nothing either.
StopsAfterFailure == ReadFailed \/ Read

\* _stop_here looks only at a branch that succeeded.
StopHere == Read

Succeeded == pc = "read" /\ Read /\ Settle("succeeded") /\ Advance

Failed == pc = "read" /\ ReadFailed /\ Settle("failed") /\ Advance

\* The marginal stop: what is still planned is recorded as stopped.
Stop ==
  /\ pc = "read" /\ StopHere
  /\ status' = [b \in Branches |-> IF b = pos THEN IF Read THEN "succeeded" ELSE "failed"
                                   ELSE IF b > pos /\ status[b] = "planned" THEN "stopped" ELSE status[b]]
  /\ cost' = [cost EXCEPT ![pos] = spent - before]
  /\ bound' = Cap /\ paper' = InFlight
  /\ pc' = "loop" /\ pos' = N + 1
  /\ UNCHANGED <<given, spent, cancel, before, refused, raised, end>>

\* workers_node: without a branch that succeeded, the first failure is raised.
EndLoop ==
  /\ pc = "loop" /\ pos = N + 1
  /\ LET none == \A b \in Branches : status[b] # "succeeded"
         bad  == \E b \in Branches : status[b] \in {"failed", "budget_stopped"}
     IN LastStep(IF none /\ bad THEN "no_branch" ELSE "returned")
  /\ UNCHANGED <<records, given, spent, cancel, branch, paper, raised>>

\* The runner gives the job up.
Cancel ==
  /\ ~cancel /\ pc # "done" /\ cancel' = TRUE
  /\ UNCHANGED <<records, given, spent, pc, branch, paper, raised, end>>

-----------------------------------------------------------------------------
LoopStep ==
  \/ Skip \/ CancelledBetween \/ Launch \/ Search \/ SearchFails \/ SearchCancelled
  \/ Raise \/ Ceiling \/ BudgetStopped \/ Cancelled \/ Succeeded \/ Failed \/ Stop \/ EndLoop

PaperStep(p) == Take(p) \/ Refuse(p) \/ Admit(p) \/ Degrade(p) \/ Answer(p)

Next == LoopStep \/ Cancel \/ \E p \in Papers : PaperStep(p)

Spec == Init /\ [][Next]_vars

\* The threads run, and every request is answered or times out.
Fairness == WF_vars(LoopStep) /\ \A p \in Papers : WF_vars(PaperStep(p))

FairSpec == Spec /\ Fairness

-----------------------------------------------------------------------------
\* The cap is checked before a call and moved after it, so a fan-out may pass
\* it, but by less than what its threads hold (CostBudgetExceeded: "a single
\* node's fan-out can no longer overshoot the cap by its whole spend"); the
\* same holds of a branch and its share.
OvershootBounded ==
  /\ spent < Cap + Workers * MaxCost
  /\ \A b \in Branches : share > 0 => cost[b] < share + Workers * MaxCost

\* The run is stopped only when its own ceiling was reached, and a branch is
\* stopped only by its own spending, never by its siblings' (run_branches:
\* "the branch's own cost share ran out").
StopsAreEarned ==
  /\ end = "ceiling" => spent >= Cap
  /\ \A b \in Branches : status[b] = "budget_stopped" => share > 0 /\ cost[b] >= share

\* Between branches nothing is in flight and every unit spent is in the record
\* of exactly one branch.
SpendAttributed ==
  pc = "loop" => /\ Busy = {}
                 /\ FoldFunction(LAMBDA c, sum : c + sum, 0, cost) = spent - base

\* A branch recorded as succeeded read every paper it was given as far as the
\* paper went: no placeholder stands for one the cap or the token refused
\* ("analysed but unusable when it was simply never attempted").
NoRefusalContained == \A b \in Branches : status[b] = "succeeded" => refused[b] = 0

\* When the loop returns every branch has been attempted, unless one that
\* succeeded ended it: a failure or a spent share never costs a sibling its
\* turn, and a cancelled run never returns one as cancelled.
NothingSkipped ==
  end \in {"returned", "no_branch"} =>
    \A b \in Branches :
      /\ status[b] \notin {"planned", "cancelled"}
      /\ status[b] = "stopped" => \E a \in 1 .. b - 1 : /\ status[a] = "succeeded"
                                                        /\ \A c \in a + 1 .. b : status[c] = "stopped"

\* The node comes to an end, whatever fails, is refused or is cancelled.
Ends == <>(pc = "done")
=============================================================================
