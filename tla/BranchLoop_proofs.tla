--------------------------- MODULE BranchLoop_proofs ---------------------------
(***************************************************************************)
(* Proofs about BranchLoop, for every number of branches, papers, threads,   *)
(* caps and shares.  The invariant behind the overshoot: what is spent and    *)
(* what the calls in flight may still cost stay below the cap plus one call   *)
(* for each thread.  What is spent adds up branch by branch (Sums).           *)
(***************************************************************************)
EXTENDS BranchLoop, Sums, FiniteSetTheorems, TLAPS

Underway == {"search", "read", "join"}
InPool == {"read", "join"}

\* What the calls in flight may still cost.
Pending == Cardinality(Calling) * MaxCost
Slack == Workers * MaxCost

\* Threads work for the branch at hand only, no more than there are.
Pool ==
  /\ pc \notin InPool => Busy = {}
  /\ Cardinality(Busy) <= Workers
  /\ before <= spent /\ base <= spent

\* The effective cap is nested in the run's.
Nested == pc \in Underway => bound = IF share > 0 /\ before + share < Cap THEN before + share ELSE Cap

Spending ==
  /\ spent + Pending < Cap + Slack
  /\ share > 0 /\ pc \in Underway => spent + Pending < before + share + Slack
  /\ share > 0 => \A b \in Branches : cost[b] < share + Slack

\* A refusal for the cap means the cap of the branch was spent.
Earned ==
  /\ pc \in InPool => \A p \in Papers : paper[p] = "over" => spent >= bound
  /\ raised = "over" => spent >= bound /\ pc \in {"join", "done"}
  /\ end = "ceiling" => spent >= Cap
  /\ \A b \in Branches : status[b] = "budget_stopped" => share > 0 /\ cost[b] >= share

\* Papers are refused in the branch at hand, and it cannot succeed then.
Refusals ==
  /\ pc \in Underway => status[pos] = "planned"
  /\ \A b \in Branches : status[b] = "succeeded" => refused[b] = 0
  /\ \A b \in Branches : status[b] = "planned" /\ (b # pos \/ pc \notin InPool) /\ end = "going"
                           => refused[b] = 0
  /\ pc = "read" /\ (\A p \in Papers : paper[p] \notin Raising) => refused[pos] = 0

\* Branches settle in order, and only a success ends the loop early.
Order ==
  /\ pc = "done" <=> end # "going"
  /\ end = "going" => \A b \in Branches : b < pos => status[b] # "planned"
  /\ end = "going" => \A b, c \in Branches : b < c /\ status[b] = "planned" => status[c] = "planned"
  /\ end # "cancelled" => \A b \in Branches : status[b] # "cancelled"
  /\ end \in {"returned", "no_branch"} => \A b \in Branches : status[b] # "planned"
  /\ \A b \in Branches : status[b] = "stopped" =>
       \E a \in 1 .. b - 1 : status[a] = "succeeded" /\ \A c \in a + 1 .. b : status[c] = "stopped"

IInv == TypeOK /\ Pool /\ Nested /\ Spending /\ Earned /\ Refusals /\ Order

-----------------------------------------------------------------------------
(* Arithmetic and cardinalities.                                            *)

LEMMA ProductMonotone ==
  ASSUME NEW a \in Nat, NEW b \in Nat, NEW k \in Nat, a <= b
  PROVE  a * k <= b * k
<1>1. (b - a) * k >= 0
  OBVIOUS
<1>2. (b - a) * k = b * k - a * k
  OBVIOUS
<1>3. a * k \in Int /\ b * k \in Int
  OBVIOUS
<1> QED
  BY <1>1, <1>2, <1>3

LEMMA ProductStep ==
  ASSUME NEW a \in Nat, NEW k \in Nat
  PROVE  (a + 1) * k = a * k + k
OBVIOUS

LEMMA SlackPositive == Slack \in Nat /\ Slack > 0
<1>1. Workers >= 1 /\ Workers \in Nat /\ MaxCost \in Nat /\ MaxCost > 0
  BY ConstantsAssumption
<1>2. 1 * MaxCost <= Workers * MaxCost
  BY <1>1, ProductMonotone
<1>3. Workers * MaxCost \in Nat
  BY <1>1
<1> QED
  BY <1>1, <1>2, <1>3 DEF Slack

LEMMA SetsOfPapers ==
  ASSUME NEW s \in SUBSET Papers
  PROVE  IsFiniteSet(s) /\ Cardinality(s) \in Nat
<1>1. IsFiniteSet(Papers)
  BY ConstantsAssumption, FS_Interval DEF Papers
<1>2. IsFiniteSet(s)
  BY <1>1, FS_Subset, Zenon
<1> QED
  BY <1>2, FS_CardinalityType, Zenon

LEMMA PendingTyped == Pending \in Nat
<1>1. Cardinality(Calling) \in Nat
  BY SetsOfPapers DEF Calling, At
<1> QED
  BY <1>1, ConstantsAssumption DEF Pending

\* With threads to spare, the calls in flight cost no more than all of them.
LEMMA PendingWithinSlack ==
  ASSUME Cardinality(Busy) <= Workers
  PROVE  Pending <= Slack
<1>1. Calling \subseteq Busy /\ Calling \in SUBSET Papers /\ Busy \in SUBSET Papers
  BY DEF Calling, Busy, At
<1>2. Cardinality(Calling) <= Cardinality(Busy)
  BY <1>1, SetsOfPapers, FS_Subset, Zenon
<1>3. Cardinality(Calling) \in Nat /\ Cardinality(Busy) \in Nat
  BY <1>1, SetsOfPapers
<1>4. Cardinality(Calling) <= Workers
  BY <1>2, <1>3, ConstantsAssumption
<1> QED
  BY <1>3, <1>4, ProductMonotone, ConstantsAssumption DEF Pending, Slack

LEMMA NothingPending ==
  ASSUME Busy = {}
  PROVE  Pending = 0
<1>1. Calling = {}
  BY DEF Busy
<1>2. Cardinality({}) = 0
  BY FS_EmptySet
<1>3. 0 * MaxCost = 0
  BY ConstantsAssumption
<1> QED
  BY <1>1, <1>2, <1>3 DEF Pending

\* The pool is what the papers say.
LEMMA PoolUnmoved ==
  ASSUME UNCHANGED paper
  PROVE  Busy' = Busy /\ Pending' = Pending
BY DEF Busy, Calling, At, Pending

LEMMA PoolEmptied ==
  ASSUME paper' \in [Papers -> {"none", "todo"} \cup Returned \cup Raising \cup {"dropped"}]
  PROVE  Busy' = {} /\ Pending' = 0 /\ Cardinality(Busy') = 0
<1>1. At("taken")' = {} /\ At("calling")' = {}
  BY DEF At, Returned, Raising
<1>2. Busy' = {} /\ Calling' = {}
  BY <1>1 DEF Busy, Calling
<1>3. Cardinality({}) = 0
  BY FS_EmptySet
<1>4. 0 * MaxCost = 0
  BY ConstantsAssumption
<1> QED
  BY <1>2, <1>3, <1>4 DEF Pending

\* What is counted is counted in whole numbers.
LEMMA Amounts ==
  ASSUME TypeOK
  PROVE  spent \in Nat /\ before \in Nat /\ share \in Nat /\ bound \in Nat /\ bound <= Cap /\ Cap \in Nat
<1>1. spent \in Nat /\ before \in Nat /\ share \in Shares /\ bound \in 0 .. Cap
  BY DEF TypeOK
<1>2. Cap \in Nat /\ Shares \subseteq Nat
  BY ConstantsAssumption
<1> QED
  BY <1>1, <1>2

LEMMA InitHolds == Init => IInv
<1> SUFFICES ASSUME Init PROVE IInv
  OBVIOUS
<1> USE ConstantsAssumption DEF Init
<1>0. Busy = {}
  BY DEF Busy, Calling, At, Nothing
<1>1. TypeOK
  <2>1. status \in [Branches -> Settled \cup {"planned"}]
    <3>1. PICK old \in 0 .. N, result \in {"succeeded", "failed"} :
            status = [b \in Branches |-> IF b <= old THEN result ELSE "planned"]
      OBVIOUS
    <3> QED
      BY <3>1 DEF Settled
  <2>2. cost \in [Branches -> Nat] /\ refused \in [Branches -> Nat]
    OBVIOUS
  <2>3. paper \in [Papers -> PaperStates]
    BY DEF Nothing, PaperStates
  <2>4. base \in 0 .. Cap /\ spent \in Nat /\ before \in Nat /\ bound \in 0 .. Cap
    OBVIOUS
  <2>5. pos \in 1 .. N + 1 /\ pc = "loop"
    OBVIOUS
  <2>6. share \in Shares /\ cancel \in BOOLEAN /\ raised = "none" /\ end = "going"
    OBVIOUS
  <2> HIDE DEF Init
  <2> QED
    BY <2>1, <2>2, <2>3, <2>4, <2>5, <2>6 DEF TypeOK
<1>2. Pool
  <2>1. Cardinality(Busy) = 0
    BY <1>0, FS_EmptySet
  <2> QED
    BY <1>0, <2>1 DEF Pool
<1>3. Nested
  BY DEF Nested, Underway
<1>4. Spending
  BY <1>0, NothingPending, SlackPositive DEF Spending, Underway
<1>5. Earned
  BY DEF Earned, InPool
<1>6. Refusals
  BY DEF Refusals, Underway, InPool
<1>7. Order
  BY DEF Order, Branches
<1> QED
  BY <1>1, <1>2, <1>3, <1>4, <1>5, <1>6, <1>7 DEF IInv

-----------------------------------------------------------------------------
(* The loop between branches.                                               *)

LEMMA SkipKeeps == ASSUME IInv, Skip PROVE IInv'
<1> USE ConstantsAssumption DEF IInv, Skip, Advance, records, given
<1>0. Busy' = Busy /\ Pending' = Pending
  BY PoolUnmoved
<1>1. TypeOK'
  BY DEF TypeOK, Branches
<1>2. Pool' /\ Nested' /\ Spending' /\ Earned'
  BY <1>0 DEF Pool, Nested, Spending, Earned, Underway, InPool, Slack
<1>3. Refusals'
  BY DEF Refusals, Underway, InPool
<1>4. Order'
  BY DEF Order, TypeOK, Branches
<1> QED
  BY <1>1, <1>2, <1>3, <1>4

LEMMA CancelledBetweenKeeps == ASSUME IInv, CancelledBetween PROVE IInv'
<1> USE DEF IInv, CancelledBetween, LastStep, records, given, branch
<1>0. Busy' = Busy /\ Pending' = Pending
  BY PoolUnmoved
<1>1. TypeOK'
  BY DEF TypeOK
<1>2. Pool' /\ Nested' /\ Spending' /\ Earned'
  BY <1>0 DEF Pool, Nested, Spending, Earned, Underway, InPool, Slack
<1>3. Refusals' /\ Order'
  BY DEF Refusals, Order, Underway, InPool
<1> QED
  BY <1>1, <1>2, <1>3

LEMMA LaunchKeeps == ASSUME IInv, Launch PROVE IInv'
<1> USE ConstantsAssumption DEF IInv, Launch, Goes, records, given
<1>0. Busy' = {} /\ Busy = {} /\ Pending' = 0 /\ Cardinality(Busy') <= Workers
  <2>1. Busy = {} /\ Busy' = Busy /\ Pending' = Pending
    BY PoolUnmoved DEF Pool, InPool
  <2> QED
    BY <2>1, NothingPending DEF Pool
<1>1. TypeOK'
  BY DEF TypeOK, CapOfBranch
<1>2. Pool'
  BY <1>0 DEF Pool, TypeOK
<1>3. Nested'
  BY DEF Nested, CapOfBranch
<1>4. Spending'
  <2>1. spent \in Nat /\ share \in Nat
    BY DEF TypeOK
  <2>2. spent < Cap + Slack
    BY <1>0, NothingPending, SlackPositive, <2>1 DEF Spending
  <2>3. spent < spent + share + Slack
    BY <2>1, SlackPositive
  <2> QED
    BY <1>0, <2>1, <2>2, <2>3 DEF Spending, Slack
<1>5. Earned' /\ Refusals' /\ Order'
  BY DEF Earned, Refusals, Order, Underway, InPool, TypeOK
<1> QED
  BY <1>1, <1>2, <1>3, <1>4, <1>5

LEMMA SearchKeeps == ASSUME IInv, Search PROVE IInv'
<1> USE DEF IInv, Search, Goes, records, given, branch
<1>0. PICK k \in 0 .. MaxPapers : paper' = [p \in Papers |-> IF p <= k THEN "todo" ELSE "none"]
  OBVIOUS
<1>1. Busy' = {} /\ Pending' = 0 /\ Cardinality(Busy') = 0
  BY <1>0, PoolEmptied
<1>2. Pending = 0
  BY NothingPending DEF Pool, InPool
<1>3. TypeOK'
  BY <1>0 DEF TypeOK, PaperStates
<1>4. Pool' /\ Nested' /\ Spending'
  BY <1>1, <1>2, ConstantsAssumption DEF Pool, Nested, Spending, Underway, Slack
<1>5. Earned'
  BY <1>0 DEF Earned, InPool
<1>6. Refusals'
  BY DEF Refusals, Order, Underway, InPool, TypeOK
<1>7. Order'
  BY DEF Order
<1> QED
  BY <1>3, <1>4, <1>5, <1>6, <1>7

LEMMA EndLoopKeeps == ASSUME IInv, EndLoop PROVE IInv'
<1> USE DEF IInv, EndLoop, LastStep, records, given, branch
<1>0. Busy' = Busy /\ Pending' = Pending
  BY PoolUnmoved
<1>1. end' \in {"returned", "no_branch"}
  OBVIOUS
<1>2. TypeOK'
  BY <1>1 DEF TypeOK
<1>3. Pool' /\ Nested' /\ Spending' /\ Earned'
  BY <1>0, <1>1 DEF Pool, Nested, Spending, Earned, Underway, InPool, Slack
<1>4. Refusals'
  BY <1>1 DEF Refusals, Underway, InPool
<1>5. Order'
  BY <1>1, ConstantsAssumption DEF Order, Branches
<1> QED
  BY <1>2, <1>3, <1>4, <1>5

LEMMA CancelKeeps == ASSUME IInv, Cancel PROVE IInv'
<1> USE DEF IInv, Cancel, records, given, branch
<1>0. Busy' = Busy /\ Pending' = Pending
  BY PoolUnmoved
<1>1. TypeOK'
  BY DEF TypeOK
<1>2. Pool' /\ Nested' /\ Spending' /\ Earned' /\ Refusals' /\ Order'
  BY <1>0 DEF Pool, Nested, Spending, Earned, Refusals, Order, Slack
<1> QED
  BY <1>1, <1>2

LEMMA StutterKeeps == ASSUME IInv, UNCHANGED vars PROVE IInv'
<1> USE DEF IInv, vars, records, given, branch
<1>0. Busy' = Busy /\ Pending' = Pending
  BY PoolUnmoved
<1>1. TypeOK'
  BY DEF TypeOK
<1>2. Pool' /\ Nested' /\ Spending' /\ Earned' /\ Refusals' /\ Order'
  BY <1>0 DEF Pool, Nested, Spending, Earned, Refusals, Order, Slack
<1> QED
  BY <1>1, <1>2

-----------------------------------------------------------------------------
(* The threads.                                                             *)

\* What a thread's step leaves alone; paper p was on a thread.
LEMMA ThreadKeeps ==
  ASSUME IInv, Thread, NEW p \in Papers, NEW to \in PaperStates, Moves(p, to),
         pc \in InPool,
         \* the calls in flight and the money
         spent' \in Nat, spent <= spent', Cardinality(Busy') <= Workers,
         spent' + Pending' < Cap + Slack,
         share > 0 => spent' + Pending' < before + share + Slack,
         \* refusals
         to = "over" => spent >= bound,
         paper[p] \notin Raising,
         \/ refused' = refused
         \/ refused' = [refused EXCEPT ![pos] = @ + 1] /\ to \in Raising
  PROVE  IInv'
<1> USE DEF IInv, Thread, Moves, given, branch
<1>0. pos \in Branches /\ pc # "done" /\ end = "going" /\ status[pos] = "planned"
  BY DEF TypeOK, InPool, Order, Refusals, Underway
<1>1. paper' \in [Papers -> PaperStates] /\ paper'[p] = to /\ \A q \in Papers \ {p} : paper'[q] = paper[q]
  BY DEF TypeOK
<1>2. refused' \in [Branches -> Nat] /\ \A b \in Branches \ {pos} : refused'[b] = refused[b]
  BY <1>0 DEF TypeOK
<1>3. TypeOK'
  BY <1>1, <1>2 DEF TypeOK
<1>4. Pool'
  BY DEF Pool, TypeOK
<1>5. Nested' /\ Spending'
  BY DEF Nested, Spending, Slack
<1>6. Earned'
  <2>1. bound' = bound /\ spent \in Nat /\ bound \in Nat /\ spent' \in Nat /\ spent <= spent'
    BY Amounts
  <2>2. ASSUME NEW q \in Papers, paper'[q] = "over" PROVE spent >= bound
    <3>1. CASE q = p
      BY <1>1, <2>2, <3>1
    <3>2. CASE q # p
      BY <1>1, <2>2, <3>2 DEF Earned
    <3> QED
      BY <3>1, <3>2
  <2>3. \A q \in Papers : paper'[q] = "over" => spent' >= bound'
    BY <2>1, <2>2
  <2>4. raised' = "over" => spent' >= bound' /\ pc' \in {"join", "done"}
    BY <2>1 DEF Earned
  <2>5. end' # "ceiling"
    BY <1>0
  <2>6. \A b \in Branches : status'[b] = "budget_stopped" => share' > 0 /\ cost'[b] >= share'
    BY DEF Earned
  <2> QED
    BY <2>3, <2>4, <2>5, <2>6 DEF Earned
<1>7. Refusals'
  <2>1. (pc' = "read" /\ \A q \in Papers : paper'[q] \notin Raising) => refused'[pos] = 0
    BY <1>1 DEF Refusals
  <2> QED
    BY <1>0, <1>2, <2>1 DEF Refusals, Underway, InPool
<1>8. Order'
  BY DEF Order
<1> QED
  BY <1>3, <1>4, <1>5, <1>6, <1>7, <1>8

\* A paper on a thread belongs to the branch at hand.
LEMMA OnThread ==
  ASSUME IInv, NEW p \in Papers, paper[p] \in {"taken", "calling"}
  PROVE  pc \in InPool /\ p \in Busy
BY DEF IInv, Pool, Busy, Calling, At

\* A thread that is done with its paper is free again.
LEMMA Released ==
  ASSUME IInv, NEW p \in Papers, NEW to \in PaperStates \ {"taken", "calling"}, Moves(p, to),
         paper[p] \in {"taken", "calling"}
  PROVE  /\ Cardinality(Busy') <= Workers
         /\ paper[p] = "taken" => Pending' = Pending
         /\ paper[p] = "calling" => Pending' + MaxCost = Pending
<1> USE DEF IInv
<1>1. \A q \in Papers : paper'[q] = IF q = p THEN to ELSE paper[q]
  BY DEF Moves, TypeOK
<1>2. Busy' = Busy \ {p} /\ p \in Busy
  BY <1>1 DEF Busy, Calling, At
<1>3. Cardinality(Busy') <= Workers
  <2>1. IsFiniteSet(Busy) /\ Cardinality(Busy) \in Nat
    BY SetsOfPapers DEF Busy, Calling, At
  <2>2. Cardinality(Busy \ {p}) = IF p \in Busy THEN Cardinality(Busy) - 1 ELSE Cardinality(Busy)
    BY <2>1, FS_RemoveElement, Zenon
  <2> QED
    BY <1>2, <2>1, <2>2, ConstantsAssumption DEF Pool
<1>4. CASE paper[p] = "taken"
  <2>1. Calling' = Calling
    BY <1>1, <1>4 DEF Calling, At
  <2> QED
    BY <1>3, <1>4, <2>1 DEF Pending
<1>5. CASE paper[p] = "calling"
  <2>1. Calling' = Calling \ {p} /\ p \in Calling
    BY <1>1, <1>5 DEF Calling, At
  <2>2. IsFiniteSet(Calling) /\ Cardinality(Calling) \in Nat /\ IsFiniteSet(Calling') /\ Cardinality(Calling') \in Nat
    BY <2>1, SetsOfPapers DEF Calling, At
  <2>3. Cardinality(Calling \ {p}) = IF p \in Calling THEN Cardinality(Calling) - 1 ELSE Cardinality(Calling)
    BY <2>2, FS_RemoveElement, Zenon
  <2>4. Cardinality(Calling) = Cardinality(Calling') + 1
    BY <2>1, <2>2, <2>3
  <2>5. Pending = Cardinality(Calling') * MaxCost + MaxCost
    BY <2>2, <2>4, ProductStep, ConstantsAssumption DEF Pending
  <2> QED
    BY <1>3, <1>5, <2>5 DEF Pending
<1> QED
  BY <1>4, <1>5

LEMMA TakeKeeps == ASSUME IInv, NEW p \in Papers, Take(p) PROVE IInv'
<1> USE DEF IInv
<1>0. /\ pc \in InPool /\ paper[p] = "todo" /\ Cardinality(Busy) < Workers
      /\ Moves(p, "taken") /\ Thread /\ spent' = spent /\ refused' = refused
  BY DEF Take, InPool
<1>1. \A q \in Papers : paper'[q] = IF q = p THEN "taken" ELSE paper[q]
  BY <1>0 DEF Moves, TypeOK
<1>2. Busy' = Busy \cup {p} /\ p \notin Busy /\ Calling' = Calling
  BY <1>0, <1>1 DEF Busy, Calling, At
<1>3. Cardinality(Busy') <= Workers
  <2>1. IsFiniteSet(Busy) /\ Cardinality(Busy) \in Nat
    BY SetsOfPapers DEF Busy, Calling, At
  <2>2. Cardinality(Busy \cup {p}) = IF p \in Busy THEN Cardinality(Busy) ELSE Cardinality(Busy) + 1
    BY <2>1, FS_AddElement, Zenon
  <2> QED
    BY <1>0, <1>2, <2>1, <2>2, ConstantsAssumption
<1>4. Pending' = Pending
  BY <1>2 DEF Pending
<1>5. /\ spent + Pending' < Cap + Slack
      /\ share > 0 => spent + Pending' < before + share + Slack
  BY <1>0, <1>4 DEF Spending, Underway, InPool
<1>6. "taken" \in PaperStates /\ paper[p] \notin Raising /\ spent \in Nat
  BY <1>0 DEF PaperStates, Raising, TypeOK
<1> QED
  BY <1>0, <1>3, <1>5, <1>6, ThreadKeeps

LEMMA RefuseKeeps == ASSUME IInv, NEW p \in Papers, Refuse(p) PROVE IInv'
<1> USE DEF IInv
<1> DEFINE to == IF cancel THEN "cancelled" ELSE "over"
<1>0. /\ paper[p] = "taken" /\ (cancel \/ spent >= bound) /\ Moves(p, to) /\ Thread /\ spent' = spent
      /\ refused' = [refused EXCEPT ![pos] = @ + 1]
  BY DEF Refuse, Contain
<1>1. /\ to \in PaperStates \ {"taken", "calling"} /\ to \in Raising
      /\ to = "over" => spent >= bound
      /\ spent \in Nat /\ "taken" \notin Raising
  BY <1>0 DEF PaperStates, Raising, TypeOK
<1> HIDE DEF to
<1>2. Cardinality(Busy') <= Workers /\ Pending' = Pending
  BY <1>0, <1>1, Released
<1>3. pc \in InPool
  BY <1>0, OnThread
<1>4. /\ spent + Pending' < Cap + Slack
      /\ share > 0 => spent + Pending' < before + share + Slack
  BY <1>2, <1>3 DEF Spending, Underway, InPool
<1> QED
  BY <1>0, <1>1, <1>2, <1>3, <1>4, ThreadKeeps

LEMMA DegradeKeeps == ASSUME IInv, NEW p \in Papers, Degrade(p) PROVE IInv'
<1> USE DEF IInv
<1>0. paper[p] = "taken" /\ Moves(p, "bad") /\ Thread /\ spent' = spent /\ refused' = refused
  BY DEF Degrade
<1>1. "bad" \in PaperStates \ {"taken", "calling"} /\ spent \in Nat /\ "taken" \notin Raising
  BY DEF PaperStates, Returned, Raising, TypeOK
<1>2. Cardinality(Busy') <= Workers /\ Pending' = Pending
  BY <1>0, <1>1, Released
<1>3. pc \in InPool
  BY <1>0, OnThread
<1>4. /\ spent + Pending' < Cap + Slack
      /\ share > 0 => spent + Pending' < before + share + Slack
  BY <1>2, <1>3 DEF Spending, Underway, InPool
<1> QED
  BY <1>0, <1>1, <1>2, <1>3, <1>4, ThreadKeeps

\* An answer costs no more than the call in flight was counted for.
LEMMA AnswerKeeps == ASSUME IInv, NEW p \in Papers, Answer(p) PROVE IInv'
<1> USE DEF IInv
<1>0. PICK c \in 0 .. MaxCost, r \in Returned :
        paper[p] = "calling" /\ spent' = spent + c /\ Moves(p, r)
        /\ Thread /\ refused' = refused
  <2>1. CASE Moves(p, "bad") /\ UNCHANGED spent
    <3>1. 0 \in 0 .. MaxCost /\ "bad" \in Returned /\ spent' = spent + 0
      BY <2>1, ConstantsAssumption DEF Returned, TypeOK
    <3> QED
      BY <2>1, <3>1 DEF Answer
  <2>2. CASE \E c \in 1 .. MaxCost : \E r \in Returned : spent' = spent + c /\ Moves(p, r)
    BY <2>2 DEF Answer
  <2> QED
    BY <2>1, <2>2 DEF Answer
<1>1. /\ r \in PaperStates \ {"taken", "calling"} /\ r # "over" /\ "calling" \notin Raising
      /\ spent \in Nat /\ c \in Nat /\ c <= MaxCost /\ MaxCost \in Nat
  BY ConstantsAssumption DEF PaperStates, Returned, Raising, TypeOK
<1>2. Cardinality(Busy') <= Workers /\ Pending' + MaxCost = Pending
  BY <1>0, <1>1, Released
<1>3. pc \in InPool
  BY <1>0, OnThread
<1>4. Pending \in Nat /\ Pending' \in Nat
  <2>1. Pending \in Nat
    BY PendingTyped
  <2>2. Calling' \in SUBSET Papers
    BY DEF Calling, At
  <2>3. Cardinality(Calling') \in Nat
    BY <2>2, SetsOfPapers
  <2>4. Pending' \in Nat
    BY <2>3, ConstantsAssumption DEF Pending
  <2> QED
    BY <2>1, <2>4
<1>5. Pending' + c <= Pending
  <2>1. PICK x \in Nat : x = Pending'
    BY <1>4
  <2>2. PICK y \in Nat : y = Pending
    BY <1>4
  <2>3. x + MaxCost = y
    BY <1>2, <2>1, <2>2
  <2>4. x + c <= y
    BY <1>1, <2>3
  <2> QED
    BY <2>1, <2>2, <2>4
<1>6. /\ spent' + Pending' < Cap + Slack
      /\ share > 0 => spent' + Pending' < before + share + Slack
  <2> HIDE DEF IInv
  <2>1. before \in Nat /\ share \in Nat /\ Slack \in Nat /\ Cap \in Nat
    BY SlackPositive, Amounts DEF IInv
  <2>2. spent + Pending < Cap + Slack
    BY DEF IInv, Spending
  <2>3. share > 0 => spent + Pending < before + share + Slack
    BY <1>3 DEF IInv, Spending, Underway, InPool
  <2>4. spent' \in Int /\ spent' = spent + c
    BY <1>0, <1>1
  <2>6. PICK x \in Nat, y \in Nat, k \in Nat : x = Pending' /\ y = Pending /\ k = Slack
    BY <1>4, <2>1
  <2>7. x + c <= y
    BY <1>5, <2>6
  <2>8. spent + y < Cap + k /\ (share > 0 => spent + y < before + share + k)
    BY <2>2, <2>3, <2>6
  <2>9. spent + c + x < Cap + k /\ (share > 0 => spent + c + x < before + share + k)
    BY <1>1, <2>1, <2>7, <2>8
  <2> QED
    BY <2>4, <2>6, <2>9
<1> QED
  BY <1>0, <1>1, <1>2, <1>3, <1>6, ThreadKeeps

\* A call admitted under the cap can be paid for with all threads in flight.
LEMMA AdmitKeeps == ASSUME IInv, NEW p \in Papers, Admit(p) PROVE IInv'
<1> USE DEF IInv
<1>0. paper[p] = "taken" /\ spent < bound /\ Moves(p, "calling") /\ Thread /\ spent' = spent /\ refused' = refused
  BY DEF Admit
<1>1. "calling" \in PaperStates /\ "taken" \notin Raising /\ spent \in Nat
  BY DEF PaperStates, Raising, TypeOK
<1>2. Busy' = Busy
  <2>1. \A q \in Papers : paper'[q] = IF q = p THEN "calling" ELSE paper[q]
    BY <1>0 DEF Moves, TypeOK
  <2> QED
    BY <1>0, <2>1 DEF Busy, Calling, At
<1>3. Cardinality(Busy') <= Workers
  BY <1>2 DEF Pool
<1>4. Pending' <= Slack
  <2>1. Calling' \subseteq Busy' /\ Calling' \in SUBSET Papers /\ Busy' \in SUBSET Papers
    BY DEF Calling, Busy, At
  <2>2. Cardinality(Calling') <= Cardinality(Busy')
    BY <2>1, SetsOfPapers, FS_Subset, Zenon
  <2>3. Cardinality(Calling') \in Nat /\ Cardinality(Busy') \in Nat
    BY <2>1, SetsOfPapers
  <2>4. Cardinality(Calling') <= Workers
    BY <1>3, <2>2, <2>3, ConstantsAssumption
  <2> QED
    BY <2>3, <2>4, ProductMonotone, ConstantsAssumption DEF Pending, Slack
<1>5. pc \in InPool
  BY <1>0, OnThread
<1>6. bound <= Cap /\ (share > 0 => bound <= before + share)
  <2>1. bound = IF share > 0 /\ before + share < Cap THEN before + share ELSE Cap
    BY <1>5 DEF Nested, Underway, InPool
  <2>2. before \in Nat /\ share \in Nat /\ bound \in Nat /\ bound <= Cap /\ Cap \in Nat
    BY Amounts
  <2> HIDE DEF IInv
  <2> QED
    BY <2>1, <2>2
<1>7. Pending' \in Int
  <2>1. Calling' \in SUBSET Papers
    BY DEF Calling, At
  <2>2. Cardinality(Calling') \in Nat
    BY <2>1, SetsOfPapers
  <2> QED
    BY <2>2, ConstantsAssumption DEF Pending
<1>8. /\ spent + Pending' < Cap + Slack
      /\ share > 0 => spent + Pending' < before + share + Slack
  <2>1. before \in Nat /\ share \in Nat /\ bound \in Nat /\ Slack \in Nat /\ Cap \in Nat /\ spent \in Nat
    BY SlackPositive, Amounts
  <2>2. spent < bound
    BY <1>0
  <2> HIDE DEF IInv
  <2>3. spent < Cap /\ (share > 0 => spent < before + share)
    BY <1>6, <2>1, <2>2
  <2>4. PICK x \in Int, k \in Nat : x = Pending' /\ k = Slack
    BY <1>7, <2>1
  <2>5. x <= k
    BY <1>4, <2>4
  <2>6. spent + x < Cap + k /\ (share > 0 => spent + x < before + share + k)
    BY <2>1, <2>3, <2>5
  <2> QED
    BY <2>4, <2>6
<1> QED
  BY <1>0, <1>1, <1>3, <1>5, <1>8, ThreadKeeps

-----------------------------------------------------------------------------
(* What becomes of the branch.                                              *)

LEMMA RaiseKeeps == ASSUME IInv, Raise PROVE IInv'
<1> USE DEF IInv, Raise, Goes, records, given, branch
<1>0. PICK p \in Papers : paper[p] \in Raising /\ raised' = paper[p]
  OBVIOUS
<1>1. \A q \in Papers : paper'[q] = IF paper[q] = "todo" THEN "dropped" ELSE paper[q]
  OBVIOUS
<1>2. Busy' = Busy /\ Pending' = Pending
  <2>1. At("taken")' = At("taken") /\ Calling' = Calling
    BY <1>1 DEF Calling, At
  <2> QED
    BY <2>1 DEF Busy, Pending
<1>3. TypeOK'
  BY <1>0 DEF TypeOK, PaperStates
<1>4. Pool' /\ Nested' /\ Spending'
  BY <1>2 DEF Pool, Nested, Spending, Underway, InPool, Slack
<1>5. Earned'
  BY <1>0, <1>1 DEF Earned, InPool
<1>6. Refusals' /\ Order'
  BY DEF Refusals, Order, Underway, InPool
<1> QED
  BY <1>3, <1>4, <1>5, <1>6

\* What the branch cost, once its threads are idle.
LEMMA CostOfBranch ==
  ASSUME IInv, pc \in Underway, Busy = {}
  PROVE  spent - before \in Nat /\ (share > 0 => spent - before < share + Slack)
<1>1. Pending = 0
  BY NothingPending
<1>2. spent \in Nat /\ before \in Nat /\ share \in Nat /\ before <= spent
  BY Amounts DEF IInv, Pool
<1>3. PICK k \in Nat : k = Slack
  BY SlackPositive
<1>4. share > 0 => spent < before + share + k
  BY <1>1, <1>2, <1>3 DEF IInv, Spending
<1>5. spent - before \in Nat /\ (share > 0 => spent - before < share + k)
  BY <1>2, <1>4
<1> QED
  BY <1>3, <1>5

LEMMA SettleKeeps ==
  ASSUME IInv, NEW as \in Settled \ {"stopped"}, Settle(as), pc \in Underway, Busy = {},
         as = "succeeded" => refused[pos] = 0,
         as = "budget_stopped" => share > 0 /\ spent - before >= share,
         \/ Advance /\ as # "cancelled"
         \/ LastStep("cancelled") /\ UNCHANGED pos
  PROVE  IInv'
<1> USE DEF IInv, Settle, given
<1>0. pos \in Branches /\ pc # "done" /\ end = "going" /\ status[pos] = "planned"
  BY DEF TypeOK, Underway, Order, Refusals
<1>1. /\ status' \in [Branches -> Settled \cup {"planned"}]
      /\ status'[pos] = as /\ \A b \in Branches \ {pos} : status'[b] = status[b]
  BY <1>0 DEF TypeOK
<1>2. spent - before \in Nat /\ (share > 0 => spent - before < share + Slack)
  BY CostOfBranch
<1>3. cost' \in [Branches -> Nat] /\ cost'[pos] = spent - before /\ \A b \in Branches \ {pos} : cost'[b] = cost[b]
  BY <1>0, <1>2 DEF TypeOK
<1>4. paper' \in [Papers -> {"none"}]
  BY DEF InFlight
<1>5. Busy' = {} /\ Pending' = 0 /\ Cardinality(Busy') = 0
  BY <1>4, PoolEmptied
<1>6. Pending = 0
  BY NothingPending
<1>7. /\ pc' \in {"loop", "done"} /\ end' \in {"going", "cancelled"} /\ (pc' = "done" <=> end' # "going")
      /\ pos' \in 1 .. N + 1 /\ (end' = "going" => pos' = pos + 1 /\ as # "cancelled")
  <2>1. pos \in 1 .. N + 1 /\ pos + 1 \in 1 .. N + 1
    BY <1>0, ConstantsAssumption DEF Branches
  <2>2. CASE Advance /\ as # "cancelled"
    BY <1>0, <2>1, <2>2, Zenon DEF Advance
  <2>3. CASE LastStep("cancelled") /\ UNCHANGED pos
    BY <2>1, <2>3 DEF LastStep
  <2> QED
    BY <2>2, <2>3
<1>8. TypeOK'
  <2>1. bound' \in 0 .. Cap /\ paper' \in [Papers -> PaperStates]
    BY <1>4, ConstantsAssumption DEF PaperStates
  <2>2. share' \in Shares /\ base' \in 0 .. Cap /\ spent' \in Nat /\ cancel' \in BOOLEAN /\ before' \in Nat
    BY DEF TypeOK
  <2>3. refused' \in [Branches -> Nat] /\ raised' = "none"
    BY DEF TypeOK
  <2> HIDE DEF IInv, Settle
  <2> QED
    BY <1>1, <1>3, <1>7, <2>1, <2>2, <2>3 DEF TypeOK
<1>9. Pool' /\ Nested'
  BY <1>5, <1>7, ConstantsAssumption DEF Pool, Nested, Underway
<1>10. Spending'
  <2>1. spent + Pending' < Cap + Slack
    BY <1>5, <1>6 DEF Spending
  <2>2. share > 0 => \A b \in Branches : cost'[b] < share + Slack
    BY <1>2, <1>3 DEF Spending
  <2> QED
    BY <1>7, <2>1, <2>2 DEF Spending, Underway, Slack
<1>11. Earned'
  <2>1. \A b \in Branches : status'[b] = "budget_stopped" => share > 0 /\ cost'[b] >= share
    BY <1>1, <1>3 DEF Earned
  <2> QED
    BY <1>7, <2>1 DEF Earned, InPool
<1>12. Refusals'
  <2>1. \A b \in Branches : status'[b] = "succeeded" => refused[b] = 0
    BY <1>1 DEF Refusals
  <2>2. \A b \in Branches : status'[b] = "planned" => refused[b] = 0
    BY <1>0, <1>1 DEF Refusals, Settled
  <2> QED
    BY <1>7, <2>1, <2>2 DEF Refusals, Underway
<1>13. Order'
  <2>0. as # "planned" /\ Branches \subseteq Int
    <3>1. as \in {"succeeded", "failed", "cancelled", "budget_stopped"}
      BY DEF Settled
    <3> HIDE DEF IInv, Settle
    <3>2. as # "planned"
      BY <3>1
    <3>3. Branches \subseteq Int
      BY DEF Branches
    <3> QED
      BY <3>2, <3>3
  <2>1. ASSUME end' = "going", NEW b \in Branches, b < pos' PROVE status'[b] # "planned"
    <3>1. b = pos \/ b < pos
      BY <1>0, <1>7, <2>0, <2>1
    <3>2. CASE b = pos
      BY <1>1, <2>0, <3>2
    <3>3. CASE b < pos
      BY <1>0, <1>1, <2>0, <3>3 DEF Order
    <3> QED
      BY <3>1, <3>2, <3>3
  <2>2. ASSUME NEW b \in Branches, NEW c \in Branches, b < c, status'[b] = "planned"
        PROVE  status'[c] = "planned"
    <3>1. b # pos /\ status[b] = "planned"
      BY <1>1, <2>0, <2>2
    <3>2. ~(b < pos) /\ status[c] = "planned"
      BY <1>0, <2>2, <3>1 DEF Order
    <3>3. c # pos
      BY <1>0, <2>0, <2>2, <3>1, <3>2
    <3> QED
      BY <1>1, <3>2, <3>3
  <2>3. end' # "cancelled" => \A b \in Branches : status'[b] # "cancelled"
    BY <1>0, <1>1, <1>7 DEF Order
  <2>4. ASSUME NEW b \in Branches, status'[b] = "stopped"
        PROVE  \E a \in 1 .. b - 1 : status'[a] = "succeeded" /\ \A c \in a + 1 .. b : status'[c] = "stopped"
    <3>1. status[b] = "stopped"
      BY <1>1, <2>4
    <3>2. PICK a \in 1 .. b - 1 : status[a] = "succeeded" /\ \A c \in a + 1 .. b : status[c] = "stopped"
      BY <3>1 DEF Order
    <3>3. a \in Branches /\ a # pos /\ \A c \in a + 1 .. b : c \in Branches /\ c # pos
      BY <1>0, <3>2, ConstantsAssumption DEF Branches
    <3> QED
      BY <1>1, <3>2, <3>3
  <2> QED
    BY <1>7, <2>1, <2>2, <2>3, <2>4 DEF Order
<1> QED
  BY <1>8, <1>9, <1>10, <1>11, <1>12, <1>13

LEMMA CeilingKeeps == ASSUME IInv, Ceiling PROVE IInv'
<1> USE DEF IInv, Ceiling, LastStep, records, given, branch
<1>0. Busy' = Busy /\ Pending' = Pending
  BY PoolUnmoved
<1>1. TypeOK'
  BY DEF TypeOK
<1>2. Pool' /\ Nested' /\ Spending'
  BY <1>0 DEF Pool, Nested, Spending, Underway, Joins, Slack
<1>3. spent >= Cap
  <2>1. spent >= bound /\ bound >= Cap
    BY DEF Earned, RunStop
  <2>2. spent \in Nat /\ bound \in Nat /\ Cap \in Nat
    BY Amounts
  <2> QED
    BY <2>1, <2>2
<1>4. Earned'
  BY <1>3 DEF Earned, InPool
<1>5. Refusals' /\ Order'
  BY DEF Refusals, Order, Underway, InPool
<1> QED
  BY <1>1, <1>2, <1>4, <1>5

\* The branch's own share, when it is not the run's ceiling.
LEMMA BudgetStoppedKeeps == ASSUME IInv, BudgetStopped PROVE IInv'
<1>0. pc = "join" /\ Busy = {} /\ raised = "over" /\ ~(bound >= Cap) /\ Settle("budget_stopped") /\ Advance
  BY DEF BudgetStopped, Joins, RunStop
<1>1. pc \in Underway /\ "budget_stopped" \in Settled \ {"stopped"}
  BY <1>0 DEF Underway, Settled
<1>2. share > 0 /\ spent - before >= share
  <2>1. spent >= bound /\ bound = IF share > 0 /\ before + share < Cap THEN before + share ELSE Cap
    BY <1>0, <1>1 DEF IInv, Earned, Nested
  <2>2. spent \in Nat /\ before \in Nat /\ share \in Nat /\ bound \in Nat /\ Cap \in Nat
    BY Amounts DEF IInv
  <2> QED
    BY <1>0, <2>1, <2>2
<1> QED
  BY <1>0, <1>1, <1>2, SettleKeeps

LEMMA CancelledKeeps == ASSUME IInv, Cancelled PROVE IInv'
<1>1. pc \in Underway /\ Busy = {} /\ "cancelled" \in Settled \ {"stopped"}
  BY DEF Cancelled, Joins, Underway, Settled
<1> QED
  BY <1>1, SettleKeeps DEF Cancelled

LEMMA SearchFailsKeeps == ASSUME IInv, SearchFails PROVE IInv'
<1>1. pc \in Underway /\ Busy = {} /\ "failed" \in Settled \ {"stopped"}
  BY DEF SearchFails, Underway, InPool, Settled, IInv, Pool
<1> QED
  BY <1>1, SettleKeeps DEF SearchFails

LEMMA SearchCancelledKeeps == ASSUME IInv, SearchCancelled PROVE IInv'
<1>1. pc \in Underway /\ Busy = {} /\ "cancelled" \in Settled \ {"stopped"}
  BY DEF SearchCancelled, Underway, InPool, Settled, IInv, Pool
<1> QED
  BY <1>1, SettleKeeps DEF SearchCancelled

\* A branch whose papers have all returned: nothing was refused.
LEMMA ReturnedAll ==
  ASSUME IInv, pc = "read", AllReturned
  PROVE  pc \in Underway /\ Busy = {} /\ refused[pos] = 0
<1>1. Busy = {}
  BY DEF AllReturned, Returned, Busy, Calling, At
<1>2. \A p \in Papers : paper[p] \notin Raising
  BY DEF AllReturned, Returned, Raising
<1> QED
  BY <1>1, <1>2 DEF Underway, IInv, Refusals

LEMMA SucceededKeeps == ASSUME IInv, Succeeded PROVE IInv'
<1>1. pc \in Underway /\ Busy = {} /\ refused[pos] = 0 /\ "succeeded" \in Settled \ {"stopped"}
  BY ReturnedAll DEF Succeeded, Read, Settled
<1> QED
  BY <1>1, SettleKeeps DEF Succeeded

LEMMA FailedKeeps == ASSUME IInv, Failed PROVE IInv'
<1>1. pc \in Underway /\ Busy = {} /\ "failed" \in Settled \ {"stopped"}
  BY ReturnedAll DEF Failed, ReadFailed, Settled
<1> QED
  BY <1>1, SettleKeeps DEF Failed

LEMMA StopKeeps == ASSUME IInv, Stop PROVE IInv'
<1> USE DEF IInv, given
<1>0. Read /\ pc = "read"
  BY DEF Stop, StopHere
<1>1. pc \in Underway /\ Busy = {} /\ refused[pos] = 0
  BY <1>0, ReturnedAll DEF Read
<1>2. pos \in Branches /\ end = "going" /\ status[pos] = "planned"
  BY <1>0 DEF TypeOK, Underway, Order, Refusals
<1>3. \A b \in Branches : status'[b] = IF b = pos THEN "succeeded"
                                       ELSE IF b > pos /\ status[b] = "planned" THEN "stopped" ELSE status[b]
  BY <1>0 DEF Stop
<1>4. \A b \in Branches : /\ b < pos => status[b] # "planned"
                          /\ b > pos => status[b] = "planned"
  BY <1>2 DEF Order, Branches
<1>5. spent - before \in Nat /\ (share > 0 => spent - before < share + Slack)
  BY <1>1, CostOfBranch
<1>6. cost' \in [Branches -> Nat] /\ cost'[pos] = spent - before /\ \A b \in Branches \ {pos} : cost'[b] = cost[b]
  BY <1>2, <1>5 DEF Stop, TypeOK
<1>7. paper' \in [Papers -> {"none"}]
  BY <1>1 DEF Stop, InFlight
<1>8. Busy' = {} /\ Pending' = 0 /\ Cardinality(Busy') = 0 /\ Pending = 0
  BY <1>1, <1>7, PoolEmptied, NothingPending
<1>9. /\ pc' = "loop" /\ end' = "going" /\ pos' = N + 1 /\ bound' = Cap /\ raised' = raised
      /\ UNCHANGED <<given, spent, cancel, before, refused>>
  BY <1>2 DEF Stop
<1>10. TypeOK'
  <2>1. status' \in [Branches -> Settled \cup {"planned"}]
    BY <1>0, <1>2 DEF Stop, TypeOK, Settled
  <2>2. paper' \in [Papers -> PaperStates]
    BY <1>7 DEF PaperStates
  <2>3. bound' \in 0 .. Cap /\ pos' \in 1 .. N + 1
    BY <1>9, ConstantsAssumption
  <2> QED
    BY <1>6, <1>9, <2>1, <2>2, <2>3 DEF TypeOK
<1>11. Pool' /\ Nested'
  BY <1>8, <1>9, ConstantsAssumption DEF Pool, Nested, Underway
<1>12. Spending'
  <2>1. spent + Pending' < Cap + Slack
    BY <1>8 DEF Spending
  <2>2. share > 0 => \A b \in Branches : cost'[b] < share + Slack
    BY <1>5, <1>6 DEF Spending
  <2> QED
    BY <1>9, <2>1, <2>2 DEF Spending, Underway, Slack
<1>13. Earned'
  <2>1. \A b \in Branches : status'[b] = "budget_stopped" => share > 0 /\ cost'[b] >= share
    BY <1>3, <1>6 DEF Earned
  <2>2. raised # "over"
    BY <1>0 DEF Earned
  <2> QED
    BY <1>9, <2>1, <2>2 DEF Earned, InPool
<1>14. \A b \in Branches : status'[b] # "planned"
  BY <1>3, <1>4, <1>2 DEF Branches
<1>15. Refusals'
  <2>1. \A b \in Branches : status'[b] = "succeeded" => refused[b] = 0
    BY <1>1, <1>3 DEF Refusals
  <2> QED
    BY <1>9, <1>14, <2>1 DEF Refusals, Underway
<1>16. Order'
  <2>1. \A b \in Branches : status'[b] # "cancelled"
    BY <1>2, <1>3 DEF Order
  <2>2. ASSUME NEW b \in Branches, status'[b] = "stopped"
        PROVE  \E a \in 1 .. b - 1 : status'[a] = "succeeded" /\ \A c \in a + 1 .. b : status'[c] = "stopped"
    <3>1. CASE b > pos
      <4>1. pos \in 1 .. b - 1 /\ status'[pos] = "succeeded"
        BY <1>2, <1>3, <3>1 DEF Branches
      <4>2. \A c \in pos + 1 .. b : c \in Branches /\ c > pos
        BY <1>2, ConstantsAssumption DEF Branches
      <4>3. \A c \in pos + 1 .. b : status'[c] = "stopped"
        BY <1>3, <1>4, <4>2
      <4> QED
        BY <4>1, <4>3
    <3>2. CASE b < pos
      <4>1. status[b] = "stopped"
        BY <1>3, <2>2, <3>2, <1>2 DEF Branches
      <4>2. PICK a \in 1 .. b - 1 : status[a] = "succeeded" /\ \A c \in a + 1 .. b : status[c] = "stopped"
        BY <4>1 DEF Order
      <4>3. a \in Branches /\ a < pos /\ \A c \in a + 1 .. b : c \in Branches /\ c < pos
        BY <1>2, <3>2, <4>2, ConstantsAssumption DEF Branches
      <4>4. status'[a] = status[a] /\ \A c \in a + 1 .. b : status'[c] = status[c]
        BY <1>2, <1>3, <4>3 DEF Branches
      <4> QED
        BY <4>2, <4>4
    <3>3. b # pos
      BY <1>3, <2>2
    <3> QED
      BY <1>2, <3>1, <3>2, <3>3 DEF Branches
  <2> QED
    BY <1>9, <1>14, <2>1, <2>2 DEF Order
<1> QED
  BY <1>10, <1>11, <1>12, <1>13, <1>15, <1>16

-----------------------------------------------------------------------------
LEMMA StepKeeps == IInv /\ [Next]_vars => IInv'
<1> SUFFICES ASSUME IInv, [Next]_vars PROVE IInv'
  OBVIOUS
<1>1. CASE LoopStep
  BY <1>1, SkipKeeps, CancelledBetweenKeeps, LaunchKeeps, SearchKeeps, SearchFailsKeeps,
     SearchCancelledKeeps, RaiseKeeps, CeilingKeeps, BudgetStoppedKeeps, CancelledKeeps,
     SucceededKeeps, FailedKeeps, StopKeeps, EndLoopKeeps, Zenon DEF LoopStep
<1>2. CASE Cancel
  BY <1>2, CancelKeeps
<1>3. ASSUME NEW p \in Papers, PaperStep(p) PROVE IInv'
  BY <1>3, TakeKeeps, RefuseKeeps, AdmitKeeps, DegradeKeeps, AnswerKeeps, Zenon DEF PaperStep
<1>4. CASE UNCHANGED vars
  BY <1>4, StutterKeeps
<1> QED
  BY <1>1, <1>2, <1>3, <1>4, Zenon DEF Next

LEMMA Inductive == Spec => []IInv
<1>1. Init => IInv
  BY InitHolds
<1>2. IInv /\ [Next]_vars => IInv'
  BY StepKeeps
<1> QED
  BY <1>1, <1>2, PTL DEF Spec

\* The state keeps its types; the effective cap never exceeds the run's.
THEOREM TypeCorrect == Spec => []TypeOK
<1>1. IInv => TypeOK
  BY DEF IInv
<1> QED
  BY <1>1, Inductive, PTL

\* Checking the cap before each call keeps run and branch below it plus one
\* call for each thread, whatever the calls cost (enforce_cost_cap).
THEOREM OvershootBound == Spec => []OvershootBounded
<1>1. IInv => OvershootBounded
  <2> SUFFICES ASSUME IInv PROVE OvershootBounded
    OBVIOUS
  <2>1. spent < Cap + Slack
    <3>1. spent \in Nat /\ Cap \in Nat
      BY Amounts DEF IInv
    <3>2. PICK x \in Nat, k \in Nat : x = Pending /\ k = Slack
      BY PendingTyped, SlackPositive
    <3>3. spent + x < Cap + k
      BY <3>2 DEF IInv, Spending
    <3>4. spent < Cap + k
      BY <3>1, <3>3
    <3> QED
      BY <3>2, <3>4
  <2>2. share > 0 => \A b \in Branches : cost[b] < share + Slack
    BY DEF IInv, Spending
  <2> QED
    BY <2>1, <2>2 DEF OvershootBounded, Slack
<1> QED
  BY <1>1, Inductive, PTL

\* run_branches tells a spent share from a spent run: each stop it records
\* was reached by the spending it is recorded for.
THEOREM StopsEarned == Spec => []StopsAreEarned
<1>1. IInv => StopsAreEarned
  BY DEF IInv, Earned, StopsAreEarned
<1> QED
  BY <1>1, Inductive, PTL

\* No branch succeeds on a paper the cap or the token kept from being read
\* (_analyze_or_degrade lets the two exceptions through).
THEOREM RefusalsNotContained == Spec => []NoRefusalContained
<1>1. IInv => NoRefusalContained
  BY DEF IInv, Refusals, NoRefusalContained
<1> QED
  BY <1>1, Inductive, PTL

\* When run_branches returns, only a success has kept a branch from its turn.
THEOREM SkipsNothing == Spec => []NothingSkipped
<1>1. IInv => NothingSkipped
  BY DEF IInv, Order, NothingSkipped
<1> QED
  BY <1>1, Inductive, PTL

-----------------------------------------------------------------------------
(* Attribution.                                                             *)

\* Between branches the records add up to what was spent; in a branch to what
\* had been spent before it, and it has no cost of its own yet.
Attributed ==
  /\ \A b \in Branches : status[b] = "planned" => cost[b] = 0
  /\ pc = "loop" => AddUp(cost) = spent - base
  /\ pc \in Underway => AddUp(cost) = before - base

LEMMA BranchesFinite == IsFiniteSet(Branches)
BY FS_Interval, ConstantsAssumption DEF Branches

\* Settling a branch attributes to it what was spent since it began.
LEMMA SettlingAttributes ==
  ASSUME IInv, IInv', Attributed, pc \in Underway, pos \in Branches,
         cost' = [cost EXCEPT ![pos] = spent - before],
         spent' = spent, base' = base, pc' \in {"loop", "done"},
         \A b \in Branches : status'[b] = "planned" => status[b] = "planned",
         status'[pos] # "planned"
  PROVE  Attributed'
<1>1. PICK c \in Branches : c = pos
  OBVIOUS
<1>2. cost \in [Branches -> Nat] /\ cost' \in [Branches -> Nat]
  BY DEF IInv, TypeOK
<1>3. cost'[c] = spent - before /\ \A b \in Branches \ {c} : cost'[b] = cost[b]
  BY <1>1, <1>2
<1>4. cost[c] = 0
  BY <1>1 DEF Attributed, IInv, Refusals
<1>5. AddUp(cost') = AddUp(cost) - cost[c] + cost'[c]
  <2>1. ASSUME NEW w \in [Branches -> Nat], NEW v \in [Branches -> Nat],
               \A b \in Branches \ {c} : v[b] = w[b]
        PROVE  AddUp(v) = AddUp(w) - w[c] + v[c]
    BY <2>1, BranchesFinite, AddUpMoves
  <2> QED
    BY <1>2, <1>3, <2>1
<1>6. AddUp(cost) = before - base
  BY DEF Attributed
<1>7. AddUp(cost') = spent' - base'
  <2>1. spent \in Nat /\ before \in Nat /\ base \in Nat
    BY DEF IInv, TypeOK
  <2> QED
    BY <1>3, <1>4, <1>5, <1>6, <2>1
<1>8. \A b \in Branches : status'[b] = "planned" => cost'[b] = 0
  BY <1>1, <1>3 DEF Attributed
<1> QED
  BY <1>7, <1>8 DEF Attributed, Underway

LEMMA SettleAttributes ==
  ASSUME IInv, IInv', Attributed, pc \in Underway, NEW s \in Settled, Settle(s), pc' \in {"loop", "done"}
  PROVE  Attributed'
<1>1. /\ pos \in Branches /\ status' = [status EXCEPT ![pos] = s]
      /\ cost' = [cost EXCEPT ![pos] = spent - before]
      /\ spent' = spent /\ base' = base
  BY DEF Settle, given, IInv, TypeOK, Underway
<1>2. status'[pos] # "planned" /\ \A b \in Branches : status'[b] = "planned" => status[b] = "planned"
  BY <1>1 DEF IInv, TypeOK, Settled
<1> QED
  BY <1>1, <1>2, SettlingAttributes

LEMMA StopAttributes == ASSUME IInv, IInv', Attributed, Stop PROVE Attributed'
<1>1. /\ pc = "read" /\ pc' = "loop" /\ pos \in Branches
      /\ cost' = [cost EXCEPT ![pos] = spent - before]
      /\ spent' = spent /\ base' = base
  BY DEF Stop, given, IInv, TypeOK
<1>2. status' = [b \in Branches |-> IF b = pos THEN IF Read THEN "succeeded" ELSE "failed"
                                    ELSE IF b > pos /\ status[b] = "planned" THEN "stopped" ELSE status[b]]
  BY DEF Stop
<1>3. status'[pos] # "planned" /\ \A b \in Branches : status'[b] = "planned" => status[b] = "planned"
  BY <1>1, <1>2
<1> QED
  BY <1>1, <1>3, SettlingAttributes DEF Underway

\* A step that neither settles a branch nor spends outside one.
LEMMA OthersAttribute ==
  ASSUME IInv, Attributed, UNCHANGED <<status, cost, base>>,
         \/ /\ pc = "loop" /\ pc' = "loop" /\ spent' = spent
         \/ /\ pc = "loop" /\ pc' \in Underway /\ before' = spent
         \/ /\ pc \in Underway /\ pc' \in Underway /\ before' = before
         \/ pc' = "done"
  PROVE  Attributed'
BY DEF Attributed, Underway

LEMMA PaperStepAttributes == ASSUME IInv, Attributed, NEW p \in Papers, PaperStep(p) PROVE Attributed'
<1>1. UNCHANGED <<status, cost, base, pc, before>>
  BY DEF PaperStep, Take, Refuse, Admit, Degrade, Answer, Thread, given, branch
<1>2. pc \in Underway
  <2>1. CASE Take(p)
    BY <2>1 DEF Take, Underway
  <2>2. CASE paper[p] \in {"taken", "calling"}
    BY <2>2 DEF Busy, Calling, At, IInv, Pool, InPool, Underway
  <2> QED
    BY <2>1, <2>2 DEF PaperStep, Refuse, Admit, Degrade, Answer
<1> QED
  BY <1>1, <1>2, OthersAttribute

LEMMA StepAttributes == ASSUME IInv, IInv', Attributed, [Next]_vars PROVE Attributed'
<1>1. CASE SearchFails \/ Failed \/ Succeeded \/ BudgetStopped \/ SearchCancelled \/ Cancelled
  <2>1. pc \in Underway /\ pc' \in {"loop", "done"}
    BY <1>1 DEF SearchFails, Failed, Succeeded, BudgetStopped, SearchCancelled, Cancelled,
       Advance, LastStep, Underway
  <2>2. \E s \in Settled : Settle(s)
    BY <1>1 DEF SearchFails, Failed, Succeeded, BudgetStopped, SearchCancelled, Cancelled, Settled
  <2> QED
    BY <2>1, <2>2, SettleAttributes
<1>2. CASE Launch
  BY <1>2, OthersAttribute DEF Launch, Goes, records, given, Underway
<1>3. CASE Skip \/ CancelledBetween \/ EndLoop \/ Search \/ Raise \/ Ceiling
  <2>1. UNCHANGED <<status, cost, base, spent, before>>
    BY <1>3 DEF Skip, CancelledBetween, EndLoop, Search, Raise, Ceiling, records, given, branch
  <2>2. \/ pc = "loop" /\ pc' = "loop"
        \/ pc \in Underway /\ pc' \in Underway
        \/ pc' = "done"
    BY <1>3 DEF Skip, CancelledBetween, EndLoop, Search, Raise, Ceiling, Goes, Advance, LastStep, Underway
  <2> QED
    BY <2>1, <2>2, OthersAttribute
<1>4. CASE Cancel \/ UNCHANGED vars
  <2>1. UNCHANGED <<status, cost, base, spent, before, pc>>
    BY <1>4 DEF Cancel, vars, records, given, branch
  <2> QED
    BY <2>1 DEF Attributed
<1>5. CASE \E p \in Papers : PaperStep(p)
  BY <1>5, PaperStepAttributes
<1> QED
  BY <1>1, <1>2, <1>3, <1>4, <1>5, StopAttributes DEF Next, LoopStep

LEMMA InitAttributes == Init => Attributed
<1> SUFFICES ASSUME Init PROVE Attributed
  OBVIOUS
<1>1. cost \in [Branches -> Nat] /\ \A b \in Branches : cost[b] = 0
  BY DEF Init
<1>2. AddUp(cost) = 0
  BY <1>1, BranchesFinite, AddUpZero
<1>3. spent - base = 0
  BY ConstantsAssumption DEF Init
<1> QED
  BY <1>1, <1>2, <1>3 DEF Init, Attributed, Underway

\* Between branches the pool is empty and every unit spent is in the record of
\* exactly one branch, whatever failed, was refused or was stopped (_settled).
THEOREM SpendIsAttributed == Spec => []SpendAttributed
<1>1. IInv /\ Attributed => SpendAttributed
  BY DEF IInv, Pool, InPool, Attributed, SpendAttributed, AddUp
<1>2. IInv /\ IInv' /\ Attributed /\ [Next]_vars => Attributed'
  BY StepAttributes
<1> QED
  BY <1>1, <1>2, InitAttributes, Inductive, PTL DEF Spec
=============================================================================
