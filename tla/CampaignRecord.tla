---------------------------- MODULE CampaignRecord ----------------------------
(***************************************************************************)
(* What an operator may rely on about a campaign, however often its passes   *)
(* die: the outcomes on record, one for each planned episode that is over,    *)
(* and what the published ledger lists.  Campaign implements it.             *)
(***************************************************************************)
EXTENDS Integers, Functions

CONSTANTS
  Episodes,  \* the plan: numbers, in their order
  Cap        \* total_cost_usd_max, 0 for none

VARIABLES
  record,    \* per episode: its outcome
  published  \* per episode: what the ledger lists

vars == <<record, published>>

NotStarted == [terminal |-> FALSE, cost |-> 0, metric |-> TRUE]
Over == [terminal : {TRUE}, cost : Nat, metric : BOOLEAN]
Nothing == [e \in Episodes |-> NotStarted]

Spent == FoldFunction(LAMBDA o, sum : o.cost + sum, 0, record)

Init == record = Nothing /\ published = Nothing

\* Outcomes come in the order of the plan, each once and for good, and none
\* once the ones before it have reached the cap.
Conclude(e) ==
  /\ ~record[e].terminal /\ record'[e] \in Over
  /\ \A f \in Episodes : f < e => record[f].terminal
  /\ Cap > 0 => Spent < Cap
  /\ record' = [record EXCEPT ![e] = record'[e]]
  /\ UNCHANGED published

\* The ledger is rewritten from the record, or torn: it then lists nothing.
Publish == published' \in {record, Nothing} /\ UNCHANGED record

Next == (\E e \in Episodes : Conclude(e)) \/ Publish

Spec == Init /\ [][Next]_vars
=============================================================================
