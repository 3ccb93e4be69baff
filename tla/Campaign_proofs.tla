---------------------------- MODULE Campaign_proofs ----------------------------
(***************************************************************************)
(* Proofs about Campaign, for every number of episodes, crashes and changes  *)
(* of configuration.  The invariant: while a pass lives, the episodes it has  *)
(* not completed hold no receipt, the one in hand is sealed under a           *)
(* configuration, and its books agree with the receipts.  On it rest three    *)
(* more: of the money of each episode (Spending), of the cap over all passes  *)
(* (Below, InOrder, Prudent), and that Campaign implements CampaignRecord.    *)
(***************************************************************************)
EXTENDS Campaign, Sums, TLAPS

InHand == {"run", "state", "score", "scores", "receipt"}

\* What a pass has not completed holds no receipt.
Open ==
  /\ pc # "off" => \A e \in todo : disk[e].receipt = "none"
  /\ pc \in InHand \cup {"seal"} => disk[cur].receipt = "none" /\ cur \notin todo
  /\ pc = "observe" => disk[cur].receipt = "full"

\* The episode in hand is sealed; its scores are the ones on disk.
Sealed ==
  /\ pc \in InHand \cup {"observe"} => disk[cur].manifest \in Configs
  /\ pc = "receipt" => disk[cur].scores = (IF score.metric THEN "metric" ELSE "null")

\* The books of the pass, at every step, and the published ones.
Books ==
  /\ pc # "off" => \A e \in Episodes : outcomes[e] = Recorded(e)
  /\ \A e \in Episodes : ledger[e].terminal => ledger[e] = Recorded(e)

\* What the pass completed was sealed under its first configuration; at
\* "observe" the last one has not been compared yet.
Measured ==
  /\ \A e \in executed : disk[e].receipt = "full" /\ disk[e].manifest \in Configs
  /\ pc \in InHand \cup {"next", "seal"} => \A e \in executed : disk[e].manifest = first
  /\ pc = "observe" => \A e \in executed \ {cur} : first # "none" /\ disk[e].manifest = first
  /\ pc = "off" => executed = {}

IInv == TypeOK /\ Open /\ Sealed /\ Books /\ Measured

-----------------------------------------------------------------------------
LEMMA InitHolds == Init => IInv
<1> SUFFICES ASSUME Init PROVE IInv
  OBVIOUS
<1> USE ConstantsAssumption DEF Init
<1>1. EmptyDirectory \in Directories
  BY DEF EmptyDirectory, Directories
<1>2. NotStarted \in Outcomes
  BY DEF NotStarted, Outcomes
<1>3. TypeOK
  BY <1>1, <1>2 DEF TypeOK, Zero, NoScore, Steps
<1>4. Open /\ Sealed /\ Measured
  BY DEF Open, Sealed, Measured, InHand
<1>5. Books
  BY DEF Books, NotStarted
<1> QED
  BY <1>3, <1>4, <1>5 DEF IInv

\* What read_outcomes makes of a directory is an outcome.
LEMMA RecordedTyped ==
  ASSUME TypeOK, NEW e \in Episodes
  PROVE  Recorded(e) \in Outcomes
BY DEF TypeOK, Directories, Recorded, Finished, NotStarted, Outcomes

\* Writing one directory leaves the others as they are.
LEMMA HereWrites ==
  ASSUME TypeOK, cur \in Episodes, NEW d \in Directories, Here(d)
  PROVE  /\ disk' \in [Episodes -> Directories]
         /\ disk'[cur] = d
         /\ \A e \in Episodes \ {cur} : disk'[e] = disk[e]
BY DEF TypeOK, Here

\* What is not yet receipted can be written without moving the books.
LEMMA BooksUnmoved ==
  ASSUME TypeOK, cur \in Episodes, NEW d \in Directories, Here(d),
         disk[cur].receipt # "full", d.receipt # "full"
  PROVE  \A e \in Episodes : Recorded(e)' = Recorded(e)
BY HereWrites DEF Recorded

\* What is added to an account of whole numbers leaves one.
LEMMA AccountAdds ==
  ASSUME NEW f \in [Episodes -> Nat], NEW k \in Nat
  PROVE  [f EXCEPT ![cur] = @ + k] \in [Episodes -> Nat]
<1>1. \A e \in Episodes : f[e] + k \in Nat
  OBVIOUS
<1> QED
  BY <1>1

\* A pass that is over has nothing in hand.
LEMMA PassOver ==
  ASSUME pc' = "off", Idle,
         disk' \in [Episodes -> Directories], ledger' \in [Episodes -> Outcomes], config' \in Configs,
         spent' \in [Episodes -> Nat], lost' \in [Episodes -> Nat], missed' \in [Episodes -> Nat],
         crashes' \in 0 .. MaxCrashes, changes' \in 0 .. MaxChanges,
         \A e \in Episodes : ledger'[e].terminal => ledger'[e] = Recorded(e)'
  PROVE  IInv'
<1>1. NotStarted \in Outcomes
  BY DEF NotStarted, Outcomes
<1>2. TypeOK'
  BY <1>1, ConstantsAssumption DEF TypeOK, Idle, NoScore, Steps
<1>3. Open' /\ Sealed' /\ Books' /\ Measured'
  BY DEF Open, Sealed, Books, Measured, Idle, InHand
<1> QED
  BY <1>2, <1>3 DEF IInv

-----------------------------------------------------------------------------
(* The loop of a pass.                                                      *)

LEMMA StartPassKeeps == ASSUME IInv, StartPass PROVE IInv'
<1> USE DEF IInv
<1>0. /\ pc = "off" /\ pc' = "next" /\ disk' = disk /\ ledger' = ledger /\ executed' = executed
      /\ UNCHANGED <<config, cur, first, run, score, spent, lost, missed, crashes, changes>>
      /\ outcomes' = [e \in Episodes |-> Recorded(e)]
      /\ todo' = {e \in Episodes : ~Complete(e)}
  BY DEF StartPass, Goes, money
<1>1. TypeOK'
  BY <1>0, RecordedTyped DEF TypeOK, Steps
<1>2. Open'
  BY <1>0 DEF Open, InHand, Complete
<1>3. Sealed' /\ Measured'
  BY <1>0 DEF Sealed, Measured, InHand
<1>4. Books'
  BY <1>0 DEF Books, Recorded
<1> QED
  BY <1>1, <1>2, <1>3, <1>4

LEMMA EndLoopKeeps == ASSUME IInv, EndLoop PROVE IInv'
<1> USE DEF IInv
<1>0. /\ pc = "next" /\ pc' = "ledger"
      /\ UNCHANGED <<disk, ledger, config, cur, todo, executed, outcomes, first, run, score,
                     spent, lost, missed, crashes, changes>>
  BY DEF EndLoop, Goes, money
<1>1. TypeOK'
  BY <1>0 DEF TypeOK, Steps
<1>2. Open' /\ Sealed' /\ Measured'
  BY <1>0 DEF Open, Sealed, Measured, InHand
<1>3. Books'
  BY <1>0 DEF Books, Recorded
<1> QED
  BY <1>1, <1>2, <1>3

LEMMA BeginEpisodeKeeps == ASSUME IInv, BeginEpisode PROVE IInv'
<1> USE DEF IInv
<1>0. /\ pc = "next" /\ pc' = "seal"
      /\ UNCHANGED <<disk, ledger, config, executed, outcomes, first, run, score,
                     spent, lost, missed, crashes, changes>>
      /\ cur' \in todo /\ todo' = todo \ {cur'}
  BY DEF BeginEpisode, Goes, money
<1>1. TypeOK'
  BY <1>0 DEF TypeOK, Steps
<1>2. Open' /\ Sealed' /\ Measured'
  BY <1>0 DEF Open, Sealed, Measured, InHand
<1>3. Books'
  BY <1>0 DEF Books, Recorded
<1> QED
  BY <1>1, <1>2, <1>3

LEMMA WriteLedgerKeeps == ASSUME IInv, WriteLedger PROVE IInv'
<1> USE DEF IInv
<1>0. /\ pc = "ledger" /\ pc' = "off" /\ Idle /\ ledger' = outcomes
      /\ UNCHANGED <<disk, config, spent, lost, missed, crashes, changes>>
  BY DEF WriteLedger, Goes, money
<1>1. \A e \in Episodes : ledger'[e] = Recorded(e)'
  BY <1>0 DEF Books, Recorded
<1> QED
  BY <1>0, <1>1, PassOver DEF TypeOK

-----------------------------------------------------------------------------
(* One episode.                                                             *)

LEMMA SealOrResumeKeeps == ASSUME IInv, SealOrResume PROVE IInv'
<1> USE DEF IInv
<1> DEFINE d == disk[cur]
           sealed == [d EXCEPT !.manifest = config]
<1>0. /\ pc = "seal" /\ cur \in Episodes /\ d \in Directories
      /\ UNCHANGED <<ledger, config, spent, lost, missed, crashes, changes>>
  BY DEF SealOrResume, money, TypeOK
<1>1. CASE Refuse /\ UNCHANGED disk
  <2>1. \A e \in Episodes : ledger'[e].terminal => ledger'[e] = Recorded(e)'
    BY <1>0, <1>1 DEF Books, Recorded
  <2> QED
    BY <1>0, <1>1, <2>1, PassOver DEF TypeOK, Refuse
<1>2. CASE pc' = "run" /\ d.manifest = "none" /\ Here(sealed)
           /\ UNCHANGED <<cur, todo, executed, outcomes, first, run, score>>
  <2>1. /\ sealed \in Directories /\ sealed.receipt = d.receipt /\ sealed.manifest = config
        /\ config \in Configs
    BY <1>0 DEF Directories, TypeOK
  <2>2. d.receipt = "none" /\ cur \notin todo
    BY <1>0 DEF Open
  <2>3. /\ disk' \in [Episodes -> Directories] /\ disk'[cur] = sealed
        /\ \A e \in Episodes \ {cur} : disk'[e] = disk[e]
    BY <1>0, <1>2, <2>1, HereWrites
  <2>4. \A e \in Episodes : Recorded(e)' = Recorded(e)
    BY <1>0, <1>2, <2>1, <2>2, BooksUnmoved
  <2>5. TypeOK'
    BY <1>0, <1>2, <2>3 DEF TypeOK, Steps
  <2>6. Open' /\ Sealed'
    BY <1>0, <1>2, <2>1, <2>2, <2>3 DEF Open, Sealed, InHand, TypeOK
  <2>7. Books'
    BY <1>0, <1>2, <2>4 DEF Books
  <2>8. Measured'
    BY <1>0, <1>2, <2>2, <2>3 DEF Measured, InHand, TypeOK
  <2> QED
    BY <2>5, <2>6, <2>7, <2>8
<1>3. CASE pc' = "run" /\ SameDigest(d) /\ UNCHANGED <<disk, cur, todo, executed, outcomes, first, run, score>>
  <2>1. TypeOK'
    BY <1>0, <1>3 DEF TypeOK, Steps
  <2>2. Open' /\ Sealed' /\ Measured'
    BY <1>0, <1>3 DEF Open, Sealed, Measured, InHand, SameDigest, TypeOK
  <2>3. Books'
    BY <1>0, <1>3 DEF Books, Recorded
  <2> QED
    BY <2>1, <2>2, <2>3
<1> QED
  <2>1. CASE Complete(cur)
    BY <2>1, <1>1 DEF SealOrResume
  <2>2. CASE ~Complete(cur) /\ d.manifest = "none"
    BY <2>2, <1>2 DEF SealOrResume
  <2>3. CASE ~Complete(cur) /\ d.manifest # "none" /\ SameDigest(d)
    BY <2>3, <1>3 DEF SealOrResume
  <2>4. CASE ~Complete(cur) /\ d.manifest # "none" /\ ~SameDigest(d)
    BY <2>4, <1>1 DEF SealOrResume
  <2> QED
    BY <2>1, <2>2, <2>3, <2>4

\* A step that moves on with the episode in hand and writes no file.
LEMMA InHandKeeps ==
  ASSUME IInv, pc \in {"run", "score"}, pc' \in {"state", "scores"},
         UNCHANGED <<disk, ledger, config, cur, todo, executed, outcomes, first, lost, crashes, changes>>,
         run' \in GraphCosts \cup {0}, score' \in [judge : JudgeCosts \cup {0}, metric : BOOLEAN],
         spent' \in [Episodes -> Nat], missed' \in [Episodes -> Nat]
  PROVE  IInv'
<1> USE DEF IInv
<1>1. TypeOK'
  BY DEF TypeOK, Steps
<1>2. Open' /\ Sealed' /\ Measured'
  BY DEF Open, Sealed, Measured, InHand
<1>3. Books'
  BY DEF Books, Recorded
<1> QED
  BY <1>1, <1>2, <1>3

LEMMA RunGraphKeeps == ASSUME IInv, RunGraph PROVE IInv'
<1>1. PICK g \in GraphCosts : run' = g /\ spent' = [spent EXCEPT ![cur] = @ + g]
  BY DEF RunGraph
<1>2. spent' \in [Episodes -> Nat]
  <2>1. g \in Nat /\ spent \in [Episodes -> Nat]
    BY ConstantsAssumption DEF IInv, TypeOK
  <2> QED
    BY <1>1, <2>1, AccountAdds
<1> QED
  BY <1>1, <1>2, InHandKeeps DEF RunGraph, Goes, IInv, TypeOK

LEMMA RecoverKeeps == ASSUME IInv, Recover PROVE IInv'
<1>1. run' \in GraphCosts \cup {0}
  BY DEF Recover, Goes, IInv, TypeOK, Directories
<1> QED
  BY <1>1, InHandKeeps DEF Recover, Goes, IInv, TypeOK, money

LEMMA ScoreKeeps == ASSUME IInv, Score PROVE IInv'
<1>1. PICK j \in JudgeCosts :
        /\ spent' = [spent EXCEPT ![cur] = @ + j]
        /\ \/ (\E m \in BOOLEAN : score' = [judge |-> j, metric |-> m]) /\ UNCHANGED missed
           \/ score' = NoScore /\ missed' = [missed EXCEPT ![cur] = @ + 1]
  BY DEF Score
<1>2. spent' \in [Episodes -> Nat] /\ missed' \in [Episodes -> Nat]
  <2>1. j \in Nat /\ spent \in [Episodes -> Nat] /\ missed \in [Episodes -> Nat]
    BY ConstantsAssumption DEF IInv, TypeOK
  <2>2. spent' \in [Episodes -> Nat]
    BY <1>1, <2>1, AccountAdds
  <2>3. [missed EXCEPT ![cur] = @ + 1] \in [Episodes -> Nat]
    BY <2>1, AccountAdds
  <2> QED
    BY <1>1, <2>1, <2>2, <2>3
<1>3. score' \in [judge : JudgeCosts \cup {0}, metric : BOOLEAN]
  <2>1. CASE \E m \in BOOLEAN : score' = [judge |-> j, metric |-> m]
    BY <2>1
  <2>2. CASE score' = NoScore
    <3>1. NoScore \in [judge : JudgeCosts \cup {0}, metric : BOOLEAN]
      BY DEF NoScore
    <3> QED
      BY <2>2, <3>1
  <2> QED
    BY <1>1, <2>1, <2>2
<1> QED
  BY <1>1, <1>2, <1>3, InHandKeeps DEF Score, Goes, IInv, TypeOK

\* A step that rewrites one file of the episode in hand, the receipt aside.
LEMMA FileKeeps ==
  ASSUME IInv, pc \in {"state", "scores"}, pc' \in {"score", "receipt"},
         NEW d \in Directories, Here(d),
         d.receipt = disk[cur].receipt, d.manifest = disk[cur].manifest,
         pc' = "receipt" => d.scores = (IF score.metric THEN "metric" ELSE "null"),
         UNCHANGED <<ledger, config, cur, todo, executed, outcomes, first, run, score,
                     money, crashes, changes>>
  PROVE  IInv'
<1> USE DEF IInv
<1>0. cur \in Episodes /\ d.receipt = "none" /\ disk[cur].receipt = "none" /\ cur \notin todo
  BY DEF Open, InHand, TypeOK
<1>1. /\ disk' \in [Episodes -> Directories] /\ disk'[cur] = d
      /\ \A e \in Episodes \ {cur} : disk'[e] = disk[e]
  BY <1>0, HereWrites
<1>2. \A e \in Episodes : Recorded(e)' = Recorded(e)
  BY <1>0, BooksUnmoved
<1>3. TypeOK'
  BY <1>1 DEF TypeOK, Steps, money
<1>4. Open' /\ Sealed'
  BY <1>0, <1>1 DEF Open, Sealed, InHand, TypeOK
<1>5. Books'
  BY <1>2 DEF Books
<1>6. Measured'
  BY <1>0, <1>1 DEF Measured, InHand, TypeOK
<1> QED
  BY <1>3, <1>4, <1>5, <1>6

LEMMA WriteStateKeeps == ASSUME IInv, WriteState PROVE IInv'
<1>1. PICK s \in {"usable", "reduced"} : Here([disk[cur] EXCEPT !.state = s, !.paid = run])
  BY DEF WriteState
<1> DEFINE d == [disk[cur] EXCEPT !.state = s, !.paid = run]
<1>2. /\ d \in Directories /\ d.receipt = disk[cur].receipt /\ d.manifest = disk[cur].manifest
  <2>1. disk[cur] \in Directories /\ run \in GraphCosts \cup {0}
    BY DEF WriteState, Goes, IInv, TypeOK
  <2>2. s \in {"none", "torn", "reduced", "usable"}
    OBVIOUS
  <2> QED
    BY <2>1, <2>2 DEF Directories
<1>3. Here(d)
  BY <1>1
<1> HIDE DEF d
<1> QED
  BY <1>2, <1>3, FileKeeps DEF WriteState, Goes

LEMMA WriteScoresKeeps == ASSUME IInv, WriteScores PROVE IInv'
<1> DEFINE found == IF score.metric THEN "metric" ELSE "null"
           d == [disk[cur] EXCEPT !.scores = found]
<1>2. /\ d \in Directories /\ d.receipt = disk[cur].receipt /\ d.manifest = disk[cur].manifest
      /\ d.scores = found
  BY DEF WriteScores, Goes, IInv, TypeOK, Directories
<1>3. Here(d)
  BY DEF WriteScores
<1> HIDE DEF d
<1> QED
  BY <1>2, <1>3, FileKeeps DEF WriteScores, Goes

LEMMA WriteReceiptKeeps == ASSUME IInv, WriteReceipt PROVE IInv'
<1> USE DEF IInv
<1> DEFINE cost == run + score.judge
           d == [disk[cur] EXCEPT !.receipt = "full", !.cost = ReceiptCost]
<1>0. /\ pc = "receipt" /\ pc' = "observe" /\ cur \in Episodes /\ cur \notin todo
      /\ outcomes' = [outcomes EXCEPT ![cur] = Finished(cost, score.metric)]
      /\ executed' = executed \cup {cur}
      /\ UNCHANGED <<ledger, config, cur, todo, first, run, score, spent, lost, missed, crashes, changes>>
      /\ Here(d)
  BY DEF WriteReceipt, Goes, TypeOK, Open, InHand, money
<1>1. cost \in Nat /\ ReceiptCost = cost /\ score.metric \in BOOLEAN
  <2>1. run \in Nat
    BY ConstantsAssumption DEF TypeOK
  <2>2. score.judge \in JudgeCosts \cup {0} /\ score.metric \in BOOLEAN
    BY DEF TypeOK
  <2>3. score.judge \in Nat
    <3>1. JudgeCosts \cup {0} \subseteq Nat
      BY ConstantsAssumption
    <3> QED
      BY <2>2, <3>1, Zenon
  <2>4. ReceiptCost = cost /\ cost \in Nat
    BY <2>1, <2>3 DEF ReceiptCost
  <2> QED
    BY <2>2, <2>4, Zenon
<1>2. /\ d \in Directories /\ d.receipt = "full" /\ d.cost = cost
      /\ d.manifest = disk[cur].manifest /\ d.scores = disk[cur].scores
  <2>1. disk[cur] \in Directories
    BY <1>0 DEF TypeOK
  <2> QED
    BY <1>1, <2>1 DEF Directories
<1> HIDE DEF d
<1>3. /\ disk' \in [Episodes -> Directories] /\ disk'[cur] = d
      /\ \A e \in Episodes \ {cur} : disk'[e] = disk[e]
  BY <1>0, <1>2, HereWrites
<1>4. Finished(cost, score.metric) \in Outcomes
  BY <1>1 DEF Finished, Outcomes
<1>5. TypeOK'
  BY <1>0, <1>3, <1>4 DEF TypeOK, Steps
<1>6. Open' /\ Sealed'
  BY <1>0, <1>2, <1>3 DEF Open, Sealed, InHand, TypeOK
<1>7. Recorded(cur)' = Finished(cost, score.metric)
  <2>1. disk[cur].scores = (IF score.metric THEN "metric" ELSE "null")
    BY <1>0 DEF Sealed
  <2>2. (disk'[cur].scores # "null") = score.metric
    BY <1>1, <1>2, <1>3, <2>1
  <2>3. Recorded(cur)' = Finished(disk'[cur].cost, disk'[cur].scores # "null")
    BY <1>0, <1>2, <1>3 DEF Recorded
  <2> QED
    BY <1>2, <1>3, <2>2, <2>3
<1>8. \A e \in Episodes \ {cur} : Recorded(e)' = Recorded(e)
  BY <1>3 DEF Recorded
<1>9. Books'
  <2>1. \A e \in Episodes : outcomes'[e] = Recorded(e)'
    BY <1>0, <1>7, <1>8 DEF Books, TypeOK
  <2>2. Recorded(cur) = NotStarted /\ ~NotStarted.terminal
    BY <1>0 DEF Open, InHand, Recorded, NotStarted
  <2>3. \A e \in Episodes : ledger'[e].terminal => ledger'[e] = Recorded(e)'
    BY <1>0, <1>8, <2>2 DEF Books
  <2> QED
    BY <2>1, <2>3 DEF Books
<1>10. Measured'
  <2>1. \A e \in executed : disk[e].manifest = first /\ disk[e].receipt = "full"
    BY <1>0 DEF Measured, InHand
  <2>2. first # "none" \/ executed \ {cur} = {}
    BY <1>0, <2>1, ConstantsAssumption DEF Measured
  <2>3. disk[cur].manifest \in Configs /\ \A e \in executed : disk[e].manifest \in Configs
    BY <1>0 DEF Sealed, Measured, InHand
  <2> QED
    BY <1>0, <1>2, <1>3, <2>1, <2>3, <2>2 DEF Measured, InHand, TypeOK
<1> QED
  BY <1>5, <1>6, <1>9, <1>10

\* The instrument is compared after the receipt: the pass goes on only when
\* the episode agrees with the ones before it.
LEMMA ObserveKeeps == ASSUME IInv, Observe PROVE IInv'
<1> USE DEF IInv
<1> DEFINE c == disk[cur].manifest
<1>0. /\ pc = "observe" /\ cur \in Episodes /\ c \in Configs /\ disk[cur].receipt = "full"
      /\ pc' \in IF Drifted(c) THEN {"ledger"} ELSE {"next", "ledger"}
      /\ first' = IF first = "none" THEN c ELSE first
      /\ cur' = 0 /\ run' = 0 /\ score' = NoScore
      /\ UNCHANGED <<disk, ledger, config, todo, executed, outcomes, spent, lost, missed, crashes, changes>>
  BY DEF Observe, TypeOK, Open, Sealed, InHand, money
<1>1. pc' \in {"next", "ledger"}
  BY <1>0
<1>2. TypeOK'
  <2>1. first' \in Configs \cup {"none"}
    BY <1>0 DEF TypeOK
  <2>2. score' \in [judge : JudgeCosts \cup {0}, metric : BOOLEAN]
    BY <1>0 DEF NoScore
  <2> QED
    BY <1>0, <1>1, <2>1, <2>2 DEF TypeOK, Steps
<1>3. Open' /\ Sealed'
  BY <1>0, <1>1 DEF Open, Sealed, InHand
<1>4. Books'
  BY <1>0, <1>1 DEF Books, Recorded
<1>5. Measured'
  <2>1. \A e \in executed \ {cur} : first # "none" /\ disk[e].manifest = first
    BY <1>0 DEF Measured
  <2>2. CASE pc' = "next"
    <3>1. first' = c
      BY <1>0, <2>2 DEF Drifted
    <3>2. \A e \in executed : disk[e].manifest = first'
      BY <1>0, <2>1, <3>1
    <3> QED
      BY <1>0, <2>2, <3>2 DEF Measured, InHand
  <2>3. CASE pc' = "ledger"
    BY <1>0, <2>3 DEF Measured, InHand
  <2> QED
    BY <1>1, <2>2, <2>3
<1> QED
  BY <1>2, <1>3, <1>4, <1>5

-----------------------------------------------------------------------------
(* Faults.                                                                  *)

\* A file cut off is still not a receipt that can be read.
LEMMA RemainsTyped ==
  ASSUME IInv, pc \notin {"off", "next", "ledger"}, NEW d \in Remains(disk[cur], pc)
  PROVE  /\ d \in Directories
         /\ d.receipt = "full" <=> disk[cur].receipt = "full"
         /\ disk[cur].receipt = "full" => d = disk[cur]
<1> USE DEF IInv
<1>1. disk[cur] \in Directories
  BY DEF TypeOK
<1>2. CASE d = disk[cur]
  BY <1>1, <1>2
<1>3. CASE pc = "seal" /\ d = [disk[cur] EXCEPT !.manifest = "lone"]
  BY <1>1, <1>3 DEF Directories, Open
<1>4. CASE pc = "state" /\ d = [disk[cur] EXCEPT !.state = "torn"]
  BY <1>1, <1>4 DEF Directories, Open, InHand
<1>5. CASE pc = "scores" /\ d = [disk[cur] EXCEPT !.scores = "torn"]
  BY <1>1, <1>5 DEF Directories, Open, InHand
<1>6. CASE pc = "receipt" /\ d = [disk[cur] EXCEPT !.receipt = "torn"]
  BY <1>1, <1>6 DEF Directories, Open, InHand
<1>7. CASE pc \notin {"seal", "state", "scores", "receipt"}
  BY <1>2, <1>7 DEF Remains
<1> QED
  <2>1. CASE pc = "seal"
    BY <1>2, <1>3, <2>1 DEF Remains
  <2>2. CASE pc = "state"
    BY <1>2, <1>4, <2>2 DEF Remains
  <2>3. CASE pc = "scores"
    BY <1>2, <1>5, <2>3 DEF Remains
  <2>4. CASE pc = "receipt"
    BY <1>2, <1>6, <2>4 DEF Remains
  <2> QED
    BY <1>7, <2>1, <2>2, <2>3, <2>4

LEMMA CrashKeeps == ASSUME IInv, Crash PROVE IInv'
<1> USE DEF IInv
<1>0. /\ pc # "off" /\ pc' = "off" /\ Idle /\ UNCHANGED <<config, changes>>
      /\ crashes' \in 0 .. MaxCrashes
      /\ ledger' = IF pc = "ledger" THEN [e \in Episodes |-> NotStarted] ELSE ledger
  BY ConstantsAssumption DEF Crash, TypeOK
<1>1. ledger' \in [Episodes -> Outcomes]
  BY <1>0 DEF TypeOK, NotStarted, Outcomes
<1>2. CASE pc \in {"next", "ledger"}
  <2>1. UNCHANGED <<disk, spent, lost, missed>>
    BY <1>2 DEF Crash, money
  <2>2. \A e \in Episodes : ledger'[e].terminal => ledger'[e] = Recorded(e)'
    BY <1>0, <2>1 DEF Books, Recorded, NotStarted
  <2> QED
    BY <1>0, <1>1, <2>1, <2>2, PassOver DEF TypeOK
<1>3. CASE pc \notin {"next", "ledger"}
  <2>0. cur \in Episodes
    BY <1>0, <1>3 DEF TypeOK
  <2>1. PICK d \in Remains(disk[cur], pc) :
          /\ Here(d)
          /\ lost' = [lost EXCEPT ![cur] = IF InFlight /\ d.state # "usable" THEN @ + 1 ELSE @]
    BY <1>3 DEF Crash
  <2>2. /\ d \in Directories
        /\ d.receipt = "full" <=> disk[cur].receipt = "full"
        /\ disk[cur].receipt = "full" => d = disk[cur]
    BY <1>0, <1>3, RemainsTyped
  <2>3. /\ disk' \in [Episodes -> Directories] /\ disk'[cur] = d
        /\ \A e \in Episodes \ {cur} : disk'[e] = disk[e]
    BY <2>0, <2>1, <2>2, HereWrites
  <2>4. \A e \in Episodes : Recorded(e)' = Recorded(e)
    <3> SUFFICES ASSUME NEW e \in Episodes PROVE Recorded(e)' = Recorded(e)
      OBVIOUS
    <3>1. CASE e = cur
      BY <2>0, <2>2, <2>3, <3>1 DEF Recorded
    <3>2. CASE e # cur
      BY <2>3, <3>2 DEF Recorded
    <3> QED
      BY <3>1, <3>2
  <2>5. \A e \in Episodes : ledger'[e].terminal => ledger'[e] = Recorded(e)'
    BY <1>0, <1>3, <2>4 DEF Books
  <2>6. spent' \in [Episodes -> Nat]
    <3>1. PICK part \in CASE pc = "run" /\ ~Usable(disk[cur]) -> GraphCosts \cup {0}
                          [] pc = "score" -> JudgeCosts \cup {0}
                          [] OTHER -> {0} :
            spent' = [spent EXCEPT ![cur] = @ + part]
      BY <1>3 DEF Crash
    <3>2. part \in Nat
      <4>1. CASE pc = "run" /\ ~Usable(disk[cur])
        BY <3>1, <4>1, ConstantsAssumption
      <4>2. CASE pc = "score"
        BY <3>1, <4>2, ConstantsAssumption
      <4>3. CASE ~(pc = "run" /\ ~Usable(disk[cur])) /\ pc # "score"
        BY <3>1, <4>3
      <4> QED
        BY <4>1, <4>2, <4>3
    <3> QED
      BY <3>1, <3>2, AccountAdds DEF TypeOK
  <2>7. lost' \in [Episodes -> Nat] /\ missed' \in [Episodes -> Nat]
    <3>1. [lost EXCEPT ![cur] = @ + 1] \in [Episodes -> Nat]
          /\ [missed EXCEPT ![cur] = @ + 1] \in [Episodes -> Nat]
      BY AccountAdds DEF TypeOK
    <3>2. lost' = lost \/ lost' = [lost EXCEPT ![cur] = @ + 1]
      BY <2>0, <2>1 DEF TypeOK
    <3>3. missed' = missed \/ missed' = [missed EXCEPT ![cur] = @ + 1]
      BY <1>3, <2>0 DEF Crash, TypeOK
    <3> QED
      BY <3>1, <3>2, <3>3 DEF TypeOK
  <2> QED
    BY <1>0, <1>1, <2>3, <2>5, <2>6, <2>7, PassOver DEF TypeOK
<1> QED
  BY <1>2, <1>3

LEMMA ReconfigureKeeps == ASSUME IInv, Reconfigure PROVE IInv'
<1> USE DEF IInv
<1>0. /\ config' \in Configs /\ changes' \in 0 .. MaxChanges
      /\ UNCHANGED <<disk, ledger, pc, cur, todo, executed, outcomes, first, run, score,
                     spent, lost, missed, crashes>>
  BY ConstantsAssumption DEF Reconfigure, TypeOK, pass, money
<1>1. TypeOK'
  BY <1>0 DEF TypeOK
<1>2. Open' /\ Sealed' /\ Measured'
  BY <1>0 DEF Open, Sealed, Measured, InHand
<1>3. Books'
  BY <1>0 DEF Books, Recorded
<1> QED
  BY <1>1, <1>2, <1>3

LEMMA StutterKeeps == ASSUME IInv, UNCHANGED vars PROVE IInv'
<1> USE DEF IInv, vars, pass, money
<1>1. TypeOK'
  BY DEF TypeOK
<1>2. Open' /\ Sealed' /\ Measured'
  BY DEF Open, Sealed, Measured, InHand
<1>3. Books'
  BY DEF Books, Recorded
<1> QED
  BY <1>1, <1>2, <1>3

LEMMA StepKeeps == ASSUME IInv, [Next]_vars PROVE IInv'
<1>1. CASE StartPass
  BY <1>1, StartPassKeeps
<1>2. CASE PassStep
  BY <1>2, EndLoopKeeps, BeginEpisodeKeeps, SealOrResumeKeeps, RunGraphKeeps, RecoverKeeps,
     WriteStateKeeps, ScoreKeeps, WriteScoresKeeps, WriteReceiptKeeps, ObserveKeeps,
     WriteLedgerKeeps DEF PassStep
<1>3. CASE Crash
  BY <1>3, CrashKeeps
<1>4. CASE Reconfigure
  BY <1>4, ReconfigureKeeps
<1>5. CASE UNCHANGED vars
  BY <1>5, StutterKeeps
<1> QED
  BY <1>1, <1>2, <1>3, <1>4, <1>5 DEF Next

LEMMA Inductive == Spec => []IInv
BY InitHolds, StepKeeps, PTL DEF Spec

-----------------------------------------------------------------------------
\* Every directory, ledger entry and book of a pass has its type, whichever
\* passes died and whatever was reconfigured (execute_campaign).
THEOREM TypeCorrect == Spec => []TypeOK
<1>1. IInv => TypeOK
  BY DEF IInv
<1> QED
  BY <1>1, Inductive, PTL

\* What a pass adds up between episodes, and every outcome the ledger lists,
\* is what the receipts say (read_outcomes, write_ledger).
THEOREM BooksAgree == Spec => []BooksMatchDisk
<1>1. IInv => BooksMatchDisk
  BY DEF IInv, Books, BooksMatchDisk
<1> QED
  BY <1>1, Inductive, PTL

\* While a pass goes on, all it completed was sealed under one configuration
\* (_provider_drift).
THEOREM OneInstrumentPerPass == Spec => []PassMeasuresOneInstrument
<1>1. IInv => PassMeasuresOneInstrument
  BY DEF IInv, Measured, PassMeasuresOneInstrument, InHand
<1> QED
  BY <1>1, Inductive, PTL

\* A step that writes a directory writes one that holds no receipt yet.
LEMMA StepLeavesReceipts ==
  ASSUME IInv, [Next]_vars
  PROVE  \A e \in Episodes : disk[e].receipt = "full" => disk'[e] = disk[e]
<1> USE DEF IInv
<1>1. CASE \E d : Here(d) /\ cur \in Episodes /\ disk[cur].receipt # "full"
  BY <1>1 DEF Here, TypeOK
<1>2. CASE UNCHANGED disk
  BY <1>2
<1>3. ASSUME NEW d, Here(d), pc \in InHand \cup {"seal"}
      PROVE  \A e \in Episodes : disk[e].receipt = "full" => disk'[e] = disk[e]
  BY <1>1, <1>3 DEF TypeOK, Open, InHand
<1>4. CASE SealOrResume
  BY <1>2, <1>3, <1>4 DEF SealOrResume, Refuse
<1>5. CASE WriteState
  BY <1>3, <1>5 DEF WriteState, Goes, InHand
<1>6. CASE WriteScores
  BY <1>3, <1>6 DEF WriteScores, Goes, InHand
<1>7. CASE WriteReceipt
  BY <1>3, <1>7 DEF WriteReceipt, Goes, InHand
<1>8. CASE Crash
  <2>1. CASE pc \in {"next", "ledger"}
    BY <1>2, <1>8, <2>1 DEF Crash
  <2>2. CASE pc \notin {"next", "ledger"}
    <3>1. pc # "off" /\ cur \in Episodes
      BY <1>8, <2>2 DEF Crash, TypeOK
    <3>2. PICK d \in Remains(disk[cur], pc) : Here(d)
      BY <1>8, <2>2 DEF Crash
    <3>3. disk[cur].receipt = "full" => d = disk[cur]
      BY <2>2, <3>1, RemainsTyped
    <3> QED
      BY <3>1, <3>2, <3>3 DEF Here, TypeOK
  <2> QED
    BY <2>1, <2>2
<1>9. CASE StartPass \/ EndLoop \/ BeginEpisode \/ RunGraph \/ Recover \/ Score \/ Observe
           \/ WriteLedger \/ Reconfigure \/ UNCHANGED vars
  BY <1>2, <1>9 DEF StartPass, EndLoop, BeginEpisode, RunGraph, Recover, Score, Observe,
     WriteLedger, Reconfigure, vars
<1> QED
  BY <1>4, <1>5, <1>6, <1>7, <1>8, <1>9 DEF Next, PassStep

\* The directory of a completed episode never changes again, in no pass and
\* through no crash (assert_not_overwriting).
THEOREM ReceiptsStay == Spec => ReceiptsFinal
<1>1. IInv /\ [Next]_vars =>
        [\A e \in Episodes : disk[e].receipt = "full" => disk'[e] = disk[e]]_vars
  BY StepLeavesReceipts
<1> QED
  BY <1>1, Inductive, PTL DEF Spec, ReceiptsFinal

-----------------------------------------------------------------------------
(* The money of an episode.                                                 *)

MostGraph == MostOf(GraphCosts)
MostJudge == MostOf(JudgeCosts)

\* From the state to the receipt the pass holds what the episode has cost.
Holding == InHand \ {"run"}

\* What an episode has cost as far as it is written down: in its receipt, with
\* the pass that has it in hand, or in a snapshot that stands in for its run.
Booked(e) ==
  IF disk[e].receipt = "full" THEN disk[e].cost
  ELSE IF cur = e /\ pc \in Holding THEN run + score.judge
  ELSE IF Usable(disk[e]) THEN disk[e].paid ELSE 0

\* The run in hand is the one in its snapshot, and scores are in hand only
\* between scoring and the receipt.
Held ==
  /\ pc = "state" /\ Usable(disk[cur]) => run = disk[cur].paid
  /\ pc \in {"score", "scores", "receipt"} => run = disk[cur].paid
  /\ pc \notin {"scores", "receipt", "observe"} => score.judge = 0

\* What is spent and not booked is covered by the crashes and the scorings
\* nobody booked.
Accounted(e) ==
  /\ Booked(e) <= spent[e]
  /\ spent[e] <= Booked(e) + lost[e] * MostGraph + missed[e] * MostJudge

Spending == Held /\ \A e \in Episodes : Accounted(e)

\* The most a run and a scoring cost.
LEMMA MostBounds ==
  /\ MostGraph \in Nat /\ \A g \in GraphCosts \cup {0} : g \in Nat /\ g <= MostGraph
  /\ MostJudge \in Nat /\ \A j \in JudgeCosts \cup {0} : j \in Nat /\ j <= MostJudge
<1>1. ASSUME NEW costs \in {GraphCosts, JudgeCosts}
      PROVE  MostOf(costs) \in costs /\ \A k \in costs : k <= MostOf(costs)
  BY CostsBounded DEF MostOf
<1>2. GraphCosts \subseteq Nat /\ JudgeCosts \subseteq Nat
  BY ConstantsAssumption
<1>3. MostOf(GraphCosts) \in GraphCosts /\ \A k \in GraphCosts : k <= MostOf(GraphCosts)
  BY <1>1
<1>4. MostOf(JudgeCosts) \in JudgeCosts /\ \A k \in JudgeCosts : k <= MostOf(JudgeCosts)
  BY <1>1
<1>5. ASSUME NEW costs \in SUBSET Nat, NEW most \in costs, \A k \in costs : k <= most
      PROVE  most \in Nat /\ \A k \in costs \cup {0} : k \in Nat /\ k <= most
  BY <1>5
<1>6. MostGraph \in Nat /\ \A g \in GraphCosts \cup {0} : g \in Nat /\ g <= MostGraph
  BY <1>2, <1>3, <1>5 DEF MostGraph
<1>7. MostJudge \in Nat /\ \A j \in JudgeCosts \cup {0} : j \in Nat /\ j <= MostJudge
  BY <1>2, <1>4, <1>5 DEF MostJudge
<1> QED
  BY <1>6, <1>7, Zenon

LEMMA Scales == ASSUME NEW n \in Nat, NEW k \in Nat PROVE n * k \in Nat /\ (n + 1) * k = n * k + k
OBVIOUS

LEMMA BookedTyped ==
  ASSUME TypeOK, TypeOK', NEW e \in Episodes
  PROVE  Booked(e) \in Nat /\ Booked(e)' \in Nat
<1>1. /\ disk[e].cost \in Nat /\ disk[e].paid \in Nat
      /\ disk'[e].cost \in Nat /\ disk'[e].paid \in Nat
  BY MostBounds DEF TypeOK, Directories
<1>2. run \in Nat /\ run' \in Nat
  BY MostBounds DEF TypeOK
<1>3. score.judge \in Nat /\ score'.judge \in Nat
  BY MostBounds DEF TypeOK
<1> QED
  BY <1>1, <1>2, <1>3 DEF Booked

\* An account after a step that spent a, took l runs and left m scorings
\* unbooked.
LEMMA AccountMoves ==
  ASSUME TypeOK, TypeOK', NEW e \in Episodes, Accounted(e),
         NEW a \in Nat, NEW l \in {0, 1}, NEW m \in {0, 1},
         spent'[e] = spent[e] + a, lost'[e] = lost[e] + l, missed'[e] = missed[e] + m,
         Booked(e)' <= Booked(e) + a,
         Booked(e) + a <= Booked(e)' + (IF l = 1 THEN MostGraph ELSE 0) + (IF m = 1 THEN MostJudge ELSE 0)
  PROVE  Accounted(e)'
<1>1. /\ spent[e] \in Nat /\ lost[e] \in Nat /\ missed[e] \in Nat
      /\ Booked(e) \in Nat /\ Booked(e)' \in Nat /\ MostGraph \in Nat /\ MostJudge \in Nat
  BY BookedTyped, MostBounds DEF TypeOK
<1>2. /\ lost[e] * MostGraph \in Nat /\ missed[e] * MostJudge \in Nat
      /\ lost'[e] * MostGraph = lost[e] * MostGraph + (IF l = 1 THEN MostGraph ELSE 0)
      /\ missed'[e] * MostJudge = missed[e] * MostJudge + (IF m = 1 THEN MostJudge ELSE 0)
  BY <1>1, Scales
<1> DEFINE x == lost[e] * MostGraph
           y == missed[e] * MostJudge
<1>3. Booked(e) <= spent[e] /\ spent[e] <= Booked(e) + x + y
  BY DEF Accounted
<1>4. /\ Booked(e)' <= spent'[e]
      /\ spent'[e] <= Booked(e)' + (x + (IF l = 1 THEN MostGraph ELSE 0)) + (y + (IF m = 1 THEN MostJudge ELSE 0))
  <2>1. x \in Nat /\ y \in Nat
    BY <1>2
  <2> HIDE DEF x, y
  <2> QED
    BY <1>1, <1>3, <2>1
<1> QED
  BY <1>2, <1>4 DEF Accounted

\* A step that moves no money and books nothing.
LEMMA AccountsStay ==
  ASSUME TypeOK, TypeOK', Spending, UNCHANGED money, \A e \in Episodes : Booked(e)' = Booked(e)
  PROVE  \A e \in Episodes : Accounted(e)'
BY DEF Spending, Accounted, money

LEMMA InitSpends == Init => Spending
<1> SUFFICES ASSUME Init PROVE Spending
  OBVIOUS
<1>1. Held
  BY DEF Init, Held, NoScore
<1>2. ASSUME NEW e \in Episodes PROVE Accounted(e)
  <2>1. Booked(e) = 0
    BY DEF Init, Booked, Holding, InHand, EmptyDirectory, Usable
  <2>2. spent[e] = 0 /\ lost[e] = 0 /\ missed[e] = 0
    BY DEF Init, Zero
  <2> QED
    BY <2>1, <2>2, MostBounds DEF Accounted
<1> QED
  BY <1>1, <1>2 DEF Spending

\* Steps between episodes, and those that only move what is booked from the
\* pass to a file.
LEMMA StartPassSpends == ASSUME IInv, IInv', Spending, StartPass PROVE Spending'
<1>1. /\ UNCHANGED <<disk, cur, run, score, money>> /\ pc = "off" /\ pc' = "next"
  BY DEF StartPass, Goes
<1>2. Held'
  BY <1>1 DEF Spending, Held
<1>3. \A e \in Episodes : Booked(e)' = Booked(e)
  BY <1>1 DEF Booked, Holding, InHand, Usable
<1> QED
  BY <1>1, <1>2, <1>3, AccountsStay DEF Spending, IInv

LEMMA LoopSpends == ASSUME IInv, IInv', Spending, EndLoop \/ BeginEpisode PROVE Spending'
<1>1. /\ UNCHANGED <<disk, run, score, money>> /\ pc = "next" /\ pc' \in {"ledger", "seal"}
  BY DEF EndLoop, BeginEpisode, Goes
<1>2. Held'
  BY <1>1 DEF Spending, Held
<1>3. \A e \in Episodes : Booked(e)' = Booked(e)
  BY <1>1 DEF Booked, Holding, InHand, Usable
<1> QED
  BY <1>1, <1>2, <1>3, AccountsStay DEF Spending, IInv

\* A pass that is over, and had nothing in hand that is not in a file.
LEMMA OverSpends ==
  ASSUME IInv, IInv', Spending, pc' = "off", Idle, UNCHANGED <<disk, money>>, pc \notin Holding
  PROVE  Spending'
<1>1. Held'
  BY DEF Idle, NoScore, Held
<1>2. \A e \in Episodes : Booked(e)' = Booked(e)
  BY DEF Booked, Holding, InHand, Usable
<1> QED
  BY <1>1, <1>2, AccountsStay DEF Spending, IInv

LEMMA SealOrResumeSpends == ASSUME IInv, IInv', Spending, SealOrResume PROVE Spending'
<1>0. pc = "seal" /\ cur \in Episodes /\ UNCHANGED money
  BY DEF SealOrResume, IInv, TypeOK
<1>1. CASE Refuse /\ UNCHANGED disk
  BY <1>0, <1>1, OverSpends DEF Refuse, Holding, InHand, money
<1>2. CASE /\ pc' = "run" /\ UNCHANGED <<cur, run, score>>
           /\ Here([disk[cur] EXCEPT !.manifest = config]) \/ UNCHANGED disk
  <2>1. Held'
    BY <1>0, <1>2 DEF Spending, Held
  <2>2. \A e \in Episodes : /\ disk'[e].receipt = disk[e].receipt /\ disk'[e].cost = disk[e].cost
                            /\ disk'[e].state = disk[e].state /\ disk'[e].paid = disk[e].paid
    BY <1>0, <1>2 DEF Here, IInv, TypeOK, Directories
  <2>3. \A e \in Episodes : Booked(e)' = Booked(e)
    BY <1>0, <1>2, <2>2 DEF Booked, Holding, InHand, Usable
  <2> QED
    BY <1>0, <2>1, <2>3, AccountsStay DEF Spending, IInv
<1> QED
  BY <1>1, <1>2 DEF SealOrResume

LEMMA RecoverSpends == ASSUME IInv, IInv', Spending, Recover PROVE Spending'
<1>1. /\ UNCHANGED <<disk, cur, score, money>> /\ pc = "run" /\ pc' = "state"
      /\ Usable(disk[cur]) /\ run' = disk[cur].paid /\ cur \in Episodes
  BY DEF Recover, Goes, IInv, TypeOK
<1>2. score.judge = 0 /\ disk[cur].receipt = "none"
  BY <1>1 DEF Spending, Held, IInv, Open, InHand
<1>3. Held'
  BY <1>1, <1>2 DEF Held
<1>4. disk[cur].paid \in Nat
  BY <1>1, MostBounds DEF IInv, TypeOK, Directories
<1>5. \A e \in Episodes : Booked(e)' = Booked(e)
  BY <1>1, <1>2, <1>4 DEF Booked, Holding, InHand, Usable
<1> QED
  BY <1>1, <1>3, <1>5, AccountsStay DEF Spending, IInv

LEMMA WriteSpends == ASSUME IInv, IInv', Spending, WriteState \/ WriteScores PROVE Spending'
<1>0. (pc = "state" /\ pc' = "score") \/ (pc = "scores" /\ pc' = "receipt")
  BY DEF WriteState, WriteScores, Goes
<1>1. UNCHANGED <<cur, run, score, money>> /\ cur \in Episodes
  BY <1>0 DEF WriteState, WriteScores, IInv, TypeOK
<1>2. disk[cur].receipt = "none" /\ disk[cur] \in Directories
  BY <1>0, <1>1 DEF IInv, Open, InHand, TypeOK
<1>3. /\ \A e \in Episodes \ {cur} : disk'[e] = disk[e]
      /\ disk'[cur].receipt = "none"
      /\ disk'[cur].paid = run
  <2>1. CASE WriteState
    BY <1>0, <1>1, <1>2, <2>1 DEF WriteState, Here, IInv, TypeOK, Directories
  <2>2. CASE WriteScores
    BY <1>0, <1>1, <1>2, <2>2 DEF WriteScores, Goes, Here, IInv, TypeOK, Directories, Spending, Held
  <2> QED
    BY <2>1, <2>2
<1>4. Held'
  BY <1>0, <1>1, <1>3 DEF Spending, Held
<1>5. \A e \in Episodes : Booked(e)' = Booked(e)
  BY <1>0, <1>1, <1>2, <1>3 DEF Booked, Holding, InHand, Usable
<1> QED
  BY <1>1, <1>4, <1>5, AccountsStay DEF Spending, IInv

LEMMA WriteReceiptSpends == ASSUME IInv, IInv', Spending, WriteReceipt PROVE Spending'
<1>1. /\ UNCHANGED <<cur, run, score, money>> /\ cur \in Episodes
      /\ pc = "receipt" /\ pc' = "observe"
      /\ Here([disk[cur] EXCEPT !.receipt = "full", !.cost = ReceiptCost])
  BY DEF WriteReceipt, Goes, IInv, TypeOK
<1>2. disk[cur].receipt = "none" /\ disk[cur] \in Directories
  BY <1>1 DEF IInv, Open, InHand, TypeOK
<1>3. /\ \A e \in Episodes \ {cur} : disk'[e] = disk[e]
      /\ disk'[cur].receipt = "full"
      /\ disk'[cur].cost = run + score.judge
  BY <1>1, <1>2 DEF Here, IInv, TypeOK, Directories, ReceiptCost
<1>4. Held'
  BY <1>1 DEF Held
<1>5. \A e \in Episodes : Booked(e)' = Booked(e)
  BY <1>1, <1>2, <1>3 DEF Booked, Holding, InHand, Usable
<1> QED
  BY <1>1, <1>4, <1>5, AccountsStay DEF Spending, IInv

LEMMA ObserveSpends == ASSUME IInv, IInv', Spending, Observe PROVE Spending'
<1>1. /\ UNCHANGED <<disk, money>> /\ pc = "observe" /\ pc' \in {"next", "ledger"}
      /\ score' = NoScore
  BY DEF Observe
<1>2. Held'
  BY <1>1 DEF Held, NoScore
<1>3. \A e \in Episodes : Booked(e)' = Booked(e)
  BY <1>1 DEF Booked, Holding, InHand, Usable, IInv, Open
<1> QED
  BY <1>1, <1>2, <1>3, AccountsStay DEF Spending, IInv

\* A step that moves only the account of the episode in hand.
LEMMA AccountsMove ==
  ASSUME IInv, IInv', Spending, Held', NEW c \in Episodes, c = cur, Accounted(c)',
         \A e \in Episodes \ {c} :
            /\ spent'[e] = spent[e] /\ lost'[e] = lost[e] /\ missed'[e] = missed[e]
            /\ disk'[e] = disk[e],
         cur' = cur \/ cur' = 0
  PROVE  Spending'
<1>1. ASSUME NEW e \in Episodes, e # c PROVE Accounted(e)'
  <2>1. cur # e /\ cur' # e
    BY <1>1 DEF Episodes
  <2>2. Booked(e)' = Booked(e)
    BY <1>1, <2>1 DEF Booked, Usable
  <2> QED
    BY <1>1, <2>2 DEF Spending, Accounted
<1>2. \A e \in Episodes : Accounted(e)'
  BY <1>1
<1> QED
  BY <1>2 DEF Spending

LEMMA RunGraphSpends == ASSUME IInv, IInv', Spending, RunGraph PROVE Spending'
<1>1. PICK g \in GraphCosts : run' = g /\ spent' = [spent EXCEPT ![cur] = @ + g]
  BY DEF RunGraph
<1>2. PICK c \in Episodes : c = cur
  BY DEF RunGraph, Goes, IInv, TypeOK
<1>3. /\ UNCHANGED <<disk, cur, score, lost, missed>> /\ pc = "run" /\ pc' = "state"
      /\ ~Usable(disk[c])
  BY <1>2 DEF RunGraph, Goes
<1>4. score.judge = 0 /\ disk[c].receipt = "none" /\ g \in Nat
  BY <1>2, <1>3, MostBounds DEF Spending, Held, IInv, Open, InHand
<1>5. Held'
  BY <1>1, <1>2, <1>3, <1>4 DEF Held
<1>6. Booked(c) = 0 /\ Booked(c)' = g
  BY <1>1, <1>2, <1>3, <1>4 DEF Booked, Holding, InHand, Usable
<1>7. /\ spent'[c] = spent[c] + g /\ lost'[c] = lost[c] + 0 /\ missed'[c] = missed[c] + 0
      /\ \A e \in Episodes \ {c} : spent'[e] = spent[e]
  BY <1>1, <1>2, <1>3, <1>4 DEF IInv, TypeOK
<1>8. Accounted(c)'
  <2>1. Booked(c)' <= Booked(c) + g /\ Booked(c) + g <= Booked(c)' + 0 + 0
    BY <1>4, <1>6
  <2>2. Accounted(c)
    BY <1>2 DEF Spending
  <2> QED
    BY <1>4, <1>7, <2>1, <2>2, AccountMoves DEF IInv
<1> QED
  BY <1>2, <1>3, <1>5, <1>7, <1>8, AccountsMove

LEMMA ScoreSpends == ASSUME IInv, IInv', Spending, Score PROVE Spending'
<1>1. PICK j \in JudgeCosts :
        /\ spent' = [spent EXCEPT ![cur] = @ + j]
        /\ \/ (\E m \in BOOLEAN : score' = [judge |-> j, metric |-> m]) /\ UNCHANGED missed
           \/ score' = NoScore /\ missed' = [missed EXCEPT ![cur] = @ + 1]
  BY DEF Score
<1>2. PICK c \in Episodes : c = cur
  BY DEF Score, Goes, IInv, TypeOK
<1>3. /\ UNCHANGED <<disk, cur, run, lost>> /\ pc = "score" /\ pc' = "scores"
  BY DEF Score, Goes
<1>4. score.judge = 0 /\ disk[c].receipt = "none" /\ j \in Nat /\ j <= MostJudge
  BY <1>2, <1>3, MostBounds DEF Spending, Held, IInv, Open, InHand
<1>5. Held'
  BY <1>1, <1>2, <1>3 DEF Spending, Held
<1>6. PICK m \in {0, 1} : /\ missed'[c] = missed[c] + m
                          /\ score'.judge = IF m = 1 THEN 0 ELSE j
                          /\ \A e \in Episodes \ {c} : missed'[e] = missed[e]
  <2>1. CASE (\E m \in BOOLEAN : score' = [judge |-> j, metric |-> m]) /\ UNCHANGED missed
    <3>1. missed'[c] = missed[c] + 0
      BY <2>1 DEF IInv, TypeOK
    <3> QED
      BY <2>1, <3>1
  <2>2. CASE score' = NoScore /\ missed' = [missed EXCEPT ![cur] = @ + 1]
    BY <1>2, <2>2 DEF NoScore, IInv, TypeOK
  <2> QED
    BY <1>1, <2>1, <2>2
<1>7. /\ Booked(c) = run + 0
      /\ Booked(c)' = run + (IF m = 1 THEN 0 ELSE j)
  BY <1>2, <1>3, <1>4, <1>6 DEF Booked, Holding, InHand
<1>8. /\ spent'[c] = spent[c] + j /\ lost'[c] = lost[c] + 0
      /\ \A e \in Episodes \ {c} : spent'[e] = spent[e]
  BY <1>1, <1>2, <1>3, <1>4 DEF IInv, TypeOK
<1>9. Accounted(c)'
  <2>1. /\ Booked(c)' <= Booked(c) + j
        /\ Booked(c) + j <= Booked(c)' + 0 + (IF m = 1 THEN MostJudge ELSE 0)
    <3>1. run \in Nat
      BY MostBounds DEF IInv, TypeOK
    <3> QED
      BY <1>4, <1>7, <3>1, MostBounds
  <2>2. Accounted(c)
    BY <1>2 DEF Spending
  <2> QED
    BY <1>4, <1>6, <1>8, <2>1, <2>2, AccountMoves DEF IInv
<1> QED
  BY <1>2, <1>3, <1>5, <1>6, <1>8, <1>9, AccountsMove


\* What a pass that dies leaves of the snapshot: as it was, or torn while it
\* is written.
LEMMA RemainsOfState ==
  ASSUME IInv, pc \in InHand, NEW d \in Remains(disk[cur], pc)
  PROVE  /\ d.paid = disk[cur].paid
         /\ d.state = disk[cur].state \/ (pc = "state" /\ d.state = "torn")
         /\ d.receipt # "full"
<1>1. disk[cur] \in Directories /\ disk[cur].receipt = "none"
  BY DEF IInv, TypeOK, Open, InHand
<1>2. \/ d = disk[cur]
      \/ pc = "state" /\ d = [disk[cur] EXCEPT !.state = "torn"]
      \/ pc = "scores" /\ d = [disk[cur] EXCEPT !.scores = "torn"]
      \/ pc = "receipt" /\ d = [disk[cur] EXCEPT !.receipt = "torn"]
  BY DEF Remains, InHand
<1>3. CASE d = disk[cur]
  BY <1>1, <1>3
<1>4. CASE pc = "state" /\ d = [disk[cur] EXCEPT !.state = "torn"]
  BY <1>1, <1>4 DEF Directories
<1>5. CASE d = [disk[cur] EXCEPT !.scores = "torn"] \/ d = [disk[cur] EXCEPT !.receipt = "torn"]
  BY <1>1, <1>5 DEF Directories
<1> QED
  BY <1>2, <1>3, <1>4, <1>5

\* A pass that dies with an episode in hand: a run that left no usable
\* snapshot is lost, scores that are not in a receipt are missed.
LEMMA CrashInHandSpends ==
  ASSUME IInv, IInv', Spending, Crash, pc \in InHand
  PROVE  Spending'
<1>0. pc' = "off" /\ Idle /\ cur' = 0
  BY DEF Crash, Idle
<1>1. PICK c \in Episodes : c = cur
  BY DEF IInv, TypeOK, InHand
<1>2. PICK d \in Remains(disk[cur], pc) :
        /\ Here(d)
        /\ lost' = [lost EXCEPT ![cur] = IF InFlight /\ d.state # "usable" THEN @ + 1 ELSE @]
  BY DEF Crash, InHand
<1>3. PICK part \in CASE pc = "run" /\ ~Usable(disk[cur]) -> GraphCosts \cup {0}
                      [] pc = "score" -> JudgeCosts \cup {0}
                      [] OTHER -> {0} :
        spent' = [spent EXCEPT ![cur] = @ + part]
  BY DEF Crash, InHand
<1>4. missed' = [missed EXCEPT ![cur] = IF pc \in {"score", "scores", "receipt"} THEN @ + 1 ELSE @]
  BY DEF Crash, InHand
<1>5. InFlight
  BY DEF InFlight, InHand
<1>6. /\ d.paid = disk[c].paid
      /\ d.state = disk[c].state \/ (pc = "state" /\ d.state = "torn")
      /\ d.receipt # "full" /\ disk[c].receipt = "none"
  BY <1>1, <1>2, RemainsOfState DEF IInv, Open
<1>7. /\ disk'[c] = d
      /\ \A e \in Episodes \ {c} : /\ disk'[e] = disk[e] /\ spent'[e] = spent[e]
                                   /\ lost'[e] = lost[e] /\ missed'[e] = missed[e]
  BY <1>1, <1>2, <1>3, <1>4 DEF Here, IInv, TypeOK
<1> DEFINE l == IF d.state # "usable" THEN 1 ELSE 0
           m == IF pc \in {"score", "scores", "receipt"} THEN 1 ELSE 0
<1>8. spent'[c] = spent[c] + part /\ lost'[c] = lost[c] + l /\ missed'[c] = missed[c] + m
  BY <1>1, <1>2, <1>3, <1>4, <1>5 DEF IInv, TypeOK
<1>9. Booked(c)' = IF d.state = "usable" THEN disk[c].paid ELSE 0
  BY <1>0, <1>1, <1>6, <1>7 DEF Booked, Usable, Holding, InHand
<1>10. /\ run \in Nat /\ run <= MostGraph /\ score.judge \in Nat /\ score.judge <= MostJudge
       /\ disk[c].paid \in Nat
       /\ MostGraph \in Nat /\ MostJudge \in Nat
  <2>1. run \in GraphCosts \cup {0} /\ score.judge \in JudgeCosts \cup {0}
    BY DEF IInv, TypeOK
  <2>2. disk[c].paid \in GraphCosts \cup {0}
    BY DEF IInv, TypeOK, Directories
  <2> QED
    BY <2>1, <2>2, MostBounds
<1>11. /\ part \in Nat /\ Booked(c)' <= Booked(c) + part
       /\ Booked(c) + part <= Booked(c)' + (IF l = 1 THEN MostGraph ELSE 0) + (IF m = 1 THEN MostJudge ELSE 0)
  <2>1. CASE pc = "run"
    <3>1. /\ Booked(c) = IF disk[c].state = "usable" THEN disk[c].paid ELSE 0
          /\ d.state = disk[c].state /\ m = 0
      BY <1>1, <1>6, <2>1 DEF Booked, Usable, Holding, InHand
    <3>2. CASE disk[c].state = "usable"
      <4>1. part = 0
        BY <1>1, <1>3, <2>1, <3>2 DEF Usable
      <4> QED
        BY <1>9, <1>10, <3>1, <3>2, <4>1
    <3>3. CASE disk[c].state # "usable"
      <4>1. part \in Nat /\ part <= MostGraph
        BY <1>1, <1>3, <2>1, <3>3, MostBounds DEF Usable
      <4> QED
        BY <1>9, <1>10, <3>1, <3>3, <4>1
    <3> QED
      BY <3>2, <3>3
  <2>2. CASE pc # "run"
    <3>1. /\ Booked(c) = run + score.judge
          /\ d.state = "usable" => run = disk[c].paid
      BY <1>1, <1>6, <2>2 DEF Booked, Usable, Holding, InHand, Spending, Held
    <3>2. CASE pc = "score"
      <4>1. score.judge = 0 /\ m = 1
        BY <3>2 DEF Spending, Held
      <4>2. part \in Nat /\ part <= MostJudge
        BY <1>3, <3>2, MostBounds
      <4> QED
        BY <1>9, <1>10, <3>1, <4>1, <4>2
    <3>3. CASE pc = "state"
      <4>1. score.judge = 0 /\ m = 0 /\ part = 0
        BY <1>3, <3>3 DEF Spending, Held
      <4> QED
        BY <1>9, <1>10, <3>1, <4>1
    <3>4. CASE pc \in {"scores", "receipt"}
      <4>1. m = 1 /\ part = 0
        BY <1>3, <3>4
      <4> QED
        BY <1>9, <1>10, <3>1, <4>1
    <3> QED
      BY <2>2, <3>2, <3>3, <3>4 DEF InHand
  <2> QED
    BY <2>1, <2>2
<1>12. Held'
  BY <1>0 DEF Held, Idle, NoScore
<1>13. Accounted(c)'
  <2>1. Accounted(c) /\ l \in {0, 1} /\ m \in {0, 1}
    BY DEF Spending
  <2> HIDE DEF l, m
  <2> QED
    BY <1>8, <1>11, <2>1, AccountMoves DEF IInv
<1> QED
  BY <1>0, <1>1, <1>7, <1>12, <1>13, AccountsMove

LEMMA CrashSpends == ASSUME IInv, IInv', Spending, Crash PROVE Spending'
<1>0. pc # "off" /\ pc' = "off" /\ Idle
  BY DEF Crash
<1>1. CASE pc \in {"next", "ledger"}
  BY <1>0, <1>1, OverSpends DEF Crash, Holding, InHand
<1>2. CASE pc \in {"seal", "observe"}
  <2>0. cur \in Episodes /\ ~InFlight
    BY <1>2 DEF IInv, TypeOK, InFlight
  <2>1. PICK d \in Remains(disk[cur], pc) :
          /\ Here(d)
          /\ lost' = [lost EXCEPT ![cur] = IF InFlight /\ d.state # "usable" THEN @ + 1 ELSE @]
    BY <1>2 DEF Crash
  <2>2. /\ missed' = [missed EXCEPT ![cur] = IF pc \in {"score", "scores", "receipt"} THEN @ + 1 ELSE @]
        /\ spent' = [spent EXCEPT ![cur] = @ + 0]
    BY <1>2 DEF Crash
  <2>3. UNCHANGED money
    BY <1>2, <2>0, <2>1, <2>2 DEF IInv, TypeOK, money
  <2>4. d = disk[cur] \/ d = [disk[cur] EXCEPT !.manifest = "lone"]
    BY <1>2, <2>1 DEF Remains
  <2>5. \A e \in Episodes : /\ disk'[e].receipt = disk[e].receipt /\ disk'[e].cost = disk[e].cost
                            /\ disk'[e].state = disk[e].state /\ disk'[e].paid = disk[e].paid
    BY <2>0, <2>1, <2>4 DEF Here, IInv, TypeOK, Directories
  <2>6. \A e \in Episodes : Booked(e)' = Booked(e)
    BY <1>0, <1>2, <2>5 DEF Booked, Holding, InHand, Usable, IInv, Open
  <2>7. Held'
    BY <1>0 DEF Held, Idle, NoScore
  <2> QED
    BY <2>3, <2>6, <2>7, AccountsStay DEF Spending, IInv
<1>3. CASE pc \in InHand
  BY <1>3, CrashInHandSpends
<1> QED
  BY <1>0, <1>1, <1>2, <1>3 DEF InHand, IInv, TypeOK, Steps

LEMMA StepSpends == ASSUME IInv, IInv', Spending, [Next]_vars PROVE Spending'
<1>1. CASE Reconfigure \/ UNCHANGED vars
  <2>1. UNCHANGED <<disk, pc, cur, run, score, money>>
    BY <1>1 DEF Reconfigure, vars, pass
  <2>2. Held'
    BY <2>1 DEF Spending, Held
  <2>3. \A e \in Episodes : Booked(e)' = Booked(e)
    BY <2>1 DEF Booked, Usable
  <2> QED
    BY <2>1, <2>2, <2>3, AccountsStay DEF Spending, IInv
<1>2. CASE WriteLedger
  BY <1>2, OverSpends DEF WriteLedger, Goes, Holding, InHand
<1>3. CASE PassStep /\ ~WriteLedger
  BY <1>3, LoopSpends, SealOrResumeSpends, RunGraphSpends, RecoverSpends, WriteSpends, ScoreSpends,
     WriteReceiptSpends, ObserveSpends DEF PassStep
<1> QED
  BY <1>1, <1>2, <1>3, StartPassSpends, CrashSpends DEF Next

\* Recovery pays for nothing twice: through every crash the receipt of an
\* episode covers what it spent but for one run for each crash that left no
\* usable snapshot and one scoring for each that nobody booked
\* (_recoverable_run, _score_safely).
THEOREM SpendIsAccounted == Spec => []SpendAccounted
<1>1. IInv /\ Spending => SpendAccounted
  BY DEF Spending, Accounted, Booked, SpendAccounted, MostGraph, MostJudge
<1>2. IInv /\ IInv' /\ Spending /\ [Next]_vars => Spending'
  BY StepSpends
<1> QED
  BY <1>1, <1>2, InitSpends, Inductive, PTL DEF Spec

-----------------------------------------------------------------------------
(* The cap.                                                                 *)

Cost(os) == [e \in Episodes |-> os[e].cost]

\* The outcomes the receipts on disk report.
OnRecord == [e \in Episodes |-> Recorded(e)]

\* The receipts exceed the cap by less than an episode, and a pass that has
\* an episode in hand began it below the cap.
Below ==
  Cap > 0 =>
    /\ Total(OnRecord) < Cap + MostGraph + MostJudge
    /\ pc \in InHand \cup {"seal"} => Total(OnRecord) < Cap

LEMMA EpisodesFinite == IsFiniteSet(Episodes)
BY FS_Interval, ConstantsAssumption DEF Episodes

\* The total of outcomes is the sum of their costs.
LEMMA TotalAddsUp ==
  ASSUME NEW os \in [Episodes -> Outcomes]
  PROVE  /\ Cost(os) \in [Episodes -> Nat]
         /\ Total(os) = AddUp(Cost(os)) /\ Total(os) \in Nat
<1> DEFINE S == Episodes
           Takes(g) == g = [t \in SUBSET S |-> IF t = {} THEN 0 ELSE os[Pick(t)].cost + g[t \ {Pick(t)}]]
<1>1. Cost(os) \in [S -> Nat] /\ DOMAIN os = S
  BY DEF Cost, Outcomes
<1>2. \A g : Takes(g) <=> Sums(g, Cost(os), S)
  <2>1. \A t \in SUBSET S : t # {} => Cost(os)[Pick(t)] = os[Pick(t)].cost
    BY PickIn DEF Cost
  <2> QED
    BY <2>1 DEF Sums, Adds
<1>3. Total(os) = (CHOOSE g : Takes(g))[S]
  BY <1>1 DEF Total, FoldFunction, FoldFunctionOnSet, MapThenFoldSet, Pick
<1>4. Takes(CHOOSE g : Takes(g))
  <2>1. \E g : Takes(g)
    BY <1>2, EpisodesFinite, SumsExist
  <2> HIDE DEF Takes
  <2> QED
    BY <2>1
<1>5. PICK h : Sums(h, Cost(os), S) /\ AddUp(Cost(os)) = h[S]
  BY <1>1, EpisodesFinite, FoldSums DEF AddUp
<1>6. (CHOOSE g : Takes(g))[S] = h[S]
  <2>1. Sums(CHOOSE g : Takes(g), Cost(os), S)
    BY <1>2, <1>4
  <2> HIDE DEF Takes
  <2> QED
    BY <1>5, <2>1, EpisodesFinite, SumsAgree
<1>7. AddUp(Cost(os)) \in Nat
  BY <1>1, EpisodesFinite, AddUpNat
<1> QED
  BY <1>1, <1>3, <1>5, <1>6, <1>7

LEMMA OnRecordTyped ==
  ASSUME TypeOK
  PROVE  OnRecord \in [Episodes -> Outcomes] /\ Total(OnRecord) \in Nat
<1>1. OnRecord \in [Episodes -> Outcomes]
  BY RecordedTyped DEF OnRecord
<1> QED
  BY <1>1, TotalAddsUp

\* Only the receipt changes what is on record.
LEMMA RecordsStay ==
  ASSUME IInv, [Next]_vars, ~WriteReceipt
  PROVE  OnRecord' = OnRecord
<1> SUFFICES \A e \in Episodes : Recorded(e)' = Recorded(e)
  BY DEF OnRecord
<1>1. CASE UNCHANGED disk
  BY <1>1 DEF Recorded
<1>2. ASSUME NEW d \in Directories, Here(d), cur \in Episodes, disk[cur].receipt # "full", d.receipt # "full"
      PROVE  \A e \in Episodes : Recorded(e)' = Recorded(e)
  BY <1>2, BooksUnmoved DEF IInv
<1>3. CASE SealOrResume
  <2>1. /\ pc = "seal" /\ cur \in Episodes /\ disk[cur] \in Directories /\ disk[cur].receipt = "none"
        /\ config \in Configs
    BY <1>3 DEF SealOrResume, IInv, TypeOK, Open
  <2> DEFINE d == [disk[cur] EXCEPT !.manifest = config]
  <2>2. UNCHANGED disk \/ Here(d)
    BY <1>3 DEF SealOrResume
  <2>3. d \in Directories /\ d.receipt = "none"
    BY <2>1 DEF Directories
  <2> HIDE DEF d
  <2> QED
    BY <1>1, <1>2, <2>1, <2>2, <2>3
<1>4. CASE WriteState
  <2>1. /\ cur \in Episodes /\ disk[cur] \in Directories /\ disk[cur].receipt = "none"
        /\ run \in GraphCosts \cup {0}
    BY <1>4 DEF WriteState, Goes, IInv, TypeOK, Open, InHand
  <2>2. PICK s \in {"usable", "reduced"} : Here([disk[cur] EXCEPT !.state = s, !.paid = run])
    BY <1>4 DEF WriteState
  <2> DEFINE d == [disk[cur] EXCEPT !.state = s, !.paid = run]
  <2>3. d \in Directories /\ d.receipt = "none" /\ Here(d)
    BY <2>1, <2>2 DEF Directories
  <2> HIDE DEF d
  <2> QED
    BY <1>2, <2>1, <2>3
<1>5. CASE WriteScores
  <2>1. cur \in Episodes /\ disk[cur] \in Directories /\ disk[cur].receipt = "none"
    BY <1>5 DEF WriteScores, Goes, IInv, TypeOK, Open, InHand
  <2> DEFINE d == [disk[cur] EXCEPT !.scores = IF score.metric THEN "metric" ELSE "null"]
  <2>2. d \in Directories /\ d.receipt = "none" /\ Here(d)
    BY <1>5, <2>1 DEF Directories, WriteScores
  <2> HIDE DEF d
  <2> QED
    BY <1>2, <2>1, <2>2
<1>6. CASE Crash
  <2>1. CASE pc \in {"next", "ledger"}
    BY <1>1, <1>6, <2>1 DEF Crash
  <2>2. CASE pc \notin {"next", "ledger"}
    <3>1. pc # "off" /\ cur \in Episodes
      BY <1>6, <2>2 DEF Crash, IInv, TypeOK
    <3>2. PICK d \in Remains(disk[cur], pc) : Here(d)
      BY <1>6, <2>2 DEF Crash
    <3>3. /\ d \in Directories
          /\ d.receipt = "full" <=> disk[cur].receipt = "full"
          /\ disk[cur].receipt = "full" => d = disk[cur]
      BY <2>2, <3>1, RemainsTyped
    <3>4. CASE disk[cur].receipt = "full"
      BY <3>1, <3>2, <3>3, <3>4 DEF Here, Recorded, IInv, TypeOK
    <3>5. CASE disk[cur].receipt # "full"
      BY <1>2, <3>1, <3>2, <3>3, <3>5
    <3> QED
      BY <3>4, <3>5
  <2> QED
    BY <2>1, <2>2
<1>7. CASE StartPass \/ EndLoop \/ BeginEpisode \/ RunGraph \/ Recover \/ Score \/ Observe
           \/ WriteLedger \/ Reconfigure \/ UNCHANGED vars
  BY <1>1, <1>7 DEF StartPass, EndLoop, BeginEpisode, RunGraph, Recover, Score, Observe,
     WriteLedger, Reconfigure, vars
<1> QED
  BY <1>3, <1>4, <1>5, <1>6, <1>7 DEF Next, PassStep

\* A receipt adds the run and the scores of its episode to the record.
LEMMA ReceiptAdds ==
  ASSUME IInv, IInv', WriteReceipt
  PROVE  Total(OnRecord)' = Total(OnRecord) + (run + score.judge)
<1>1. PICK c \in Episodes : c = cur
  BY DEF WriteReceipt, Goes, IInv, TypeOK
<1>2. /\ disk[c].receipt = "none" /\ disk[c] \in Directories
      /\ Here([disk[cur] EXCEPT !.receipt = "full", !.cost = ReceiptCost])
  BY <1>1 DEF WriteReceipt, Goes, IInv, TypeOK, Open, InHand
<1>3. /\ \A e \in Episodes \ {c} : disk'[e] = disk[e]
      /\ disk'[c].receipt = "full" /\ disk'[c].cost = run + score.judge
  BY <1>1, <1>2 DEF Here, IInv, TypeOK, Directories, ReceiptCost
<1> DEFINE w == Cost(OnRecord)
           v == Cost(OnRecord')
<1>4. /\ OnRecord \in [Episodes -> Outcomes] /\ OnRecord' \in [Episodes -> Outcomes]
  BY DEF IInv, TypeOK, Directories, OnRecord, Recorded, NotStarted, Finished, Outcomes
<1>5. w[c] = 0 /\ v[c] = run + score.judge
  BY <1>2, <1>3 DEF Cost, OnRecord, Recorded, NotStarted, Finished
<1>6. \A e \in Episodes \ {c} : v[e] = w[e]
  BY <1>3 DEF Cost, OnRecord, Recorded
<1>7. AddUp(v) = AddUp(w) - w[c] + v[c]
  <2>1. w \in [Episodes -> Nat] /\ v \in [Episodes -> Nat]
    BY <1>4, TotalAddsUp
  <2> HIDE DEF w, v
  <2> QED
    BY <1>6, <2>1, EpisodesFinite, AddUpMoves
<1>8. Total(OnRecord) = AddUp(w) /\ AddUp(w) \in Nat /\ Total(OnRecord)' = AddUp(v)
  BY <1>4, TotalAddsUp
<1> QED
  BY <1>5, <1>7, <1>8

LEMMA SameTotal ==
  ASSUME IInv, IInv', OnRecord' = OnRecord
  PROVE  Total(OnRecord)' = Total(OnRecord)
<1>1. OnRecord \in [Episodes -> Outcomes]
  BY OnRecordTyped DEF IInv
<1>2. Total(OnRecord) = AddUp(Cost(OnRecord)) /\ Total(OnRecord)' = AddUp(Cost(OnRecord'))
  BY <1>1, TotalAddsUp
<1> QED
  BY <1>2

LEMMA StepStaysBelow == ASSUME IInv, IInv', Below, [Next]_vars PROVE Below'
<1>0. Total(OnRecord) \in Nat /\ MostGraph \in Nat /\ MostJudge \in Nat /\ Cap \in Nat
  BY OnRecordTyped, MostBounds, ConstantsAssumption DEF IInv
<1> SUFFICES ASSUME Cap > 0
             PROVE  /\ Total(OnRecord)' < Cap + MostGraph + MostJudge
                    /\ pc' \in InHand \cup {"seal"} => Total(OnRecord)' < Cap
  BY DEF Below, MostGraph, MostJudge
<1>1. CASE WriteReceipt
  <2>1. pc = "receipt" /\ pc' = "observe"
    BY <1>1 DEF WriteReceipt, Goes
  <2>2. Total(OnRecord) < Cap
    BY <2>1 DEF Below, InHand
  <2>3. run \in Nat /\ run <= MostGraph
    BY MostBounds DEF IInv, TypeOK
  <2>4. score.judge \in Nat /\ score.judge <= MostJudge
    BY MostBounds DEF IInv, TypeOK
  <2>5. Total(OnRecord)' < Cap + MostGraph + MostJudge
    BY <1>0, <1>1, <2>2, <2>3, <2>4, ReceiptAdds
  <2> QED
    BY <2>1, <2>5 DEF InHand
<1>2. CASE BeginEpisode
  <2>1. ~CapReached(outcomes) /\ pc = "next"
    BY <1>2 DEF BeginEpisode, Goes
  <2>2. outcomes = OnRecord
    BY <2>1 DEF IInv, TypeOK, Books, OnRecord
  <2>3. Total(OnRecord) < Cap
    BY <1>0, <2>1, <2>2 DEF CapReached
  <2>4. OnRecord' = OnRecord
    BY <1>2 DEF BeginEpisode, OnRecord, Recorded
  <2>5. Total(OnRecord)' = Total(OnRecord)
    BY <2>4, SameTotal
  <2> QED
    BY <1>0, <2>3, <2>5
<1>3. CASE ~WriteReceipt /\ ~BeginEpisode
  <2>1. OnRecord' = OnRecord
    BY <1>3, RecordsStay
  <2>2. Total(OnRecord)' = Total(OnRecord)
    BY <2>1, SameTotal
  <2>3. pc' \in InHand \cup {"seal"} => pc \in InHand \cup {"seal"}
    BY <1>3 DEF Next, PassStep, StartPass, EndLoop, SealOrResume, RunGraph, Recover, WriteState,
       Score, WriteScores, Observe, WriteLedger, Crash, Reconfigure, vars, pass, Goes, InHand, Refuse
  <2> QED
    BY <2>2, <2>3 DEF Below
<1> QED
  BY <1>1, <1>2, <1>3

LEMMA InitBelow == Init => Below
<1> SUFFICES ASSUME Init, Cap > 0 PROVE Below
  BY DEF Below
<1>1. \A e \in Episodes : Recorded(e) = NotStarted
  BY DEF Init, Recorded, EmptyDirectory
<1>2. /\ OnRecord \in [Episodes -> Outcomes] /\ Cost(OnRecord) \in [Episodes -> Nat]
      /\ \A e \in Episodes : Cost(OnRecord)[e] = 0
  <2>1. OnRecord \in [Episodes -> Outcomes]
    <3>1. NotStarted \in Outcomes
      BY DEF NotStarted, Outcomes
    <3> QED
      BY <1>1, <3>1 DEF OnRecord
  <2>2. \A e \in Episodes : Cost(OnRecord)[e] = 0
    BY <1>1 DEF OnRecord, Cost, NotStarted
  <2> QED
    BY <2>1, <2>2, TotalAddsUp
<1>3. Total(OnRecord) = 0
  BY <1>2, TotalAddsUp, EpisodesFinite, AddUpZero
<1> QED
  BY <1>3, MostBounds, ConstantsAssumption DEF Init, InHand, Below

-----------------------------------------------------------------------------
(* The money, receipts or not.                                              *)

\* Episodes are begun in the order of the plan: while one has no receipt none
\* after it has one or has cost anything.
InOrder ==
  /\ \A e, f \in Episodes : e < f /\ disk[e].receipt # "full" => disk[f].receipt # "full" /\ spent[f] = 0
  /\ pc # "off" => \A e \in Episodes : e \in todo \/ e = cur \/ disk[e].receipt = "full"
  /\ pc # "off" => \A e \in todo : cur < e
  /\ pc \in {"off", "next", "ledger"} => cur = 0

\* An episode that cost something and has no receipt was begun below the cap.
Prudent ==
  Cap > 0 /\ (\E e \in Episodes : disk[e].receipt # "full" /\ spent[e] > 0) => Total(OnRecord) < Cap

\* Only the episode in hand is paid for, and gets a receipt.
LEMMA StepPaysCur ==
  ASSUME IInv, [Next]_vars
  PROVE  \A e \in Episodes : (e # cur \/ pc \notin InHand) =>
           /\ spent'[e] = spent[e]
           /\ disk'[e].receipt = "full" => disk[e].receipt = "full"
<1> SUFFICES ASSUME NEW e \in Episodes, e # cur \/ pc \notin InHand
             PROVE  spent'[e] = spent[e] /\ (disk'[e].receipt = "full" => disk[e].receipt = "full")
  OBVIOUS
<1>1. CASE UNCHANGED <<disk, money>>
  BY <1>1 DEF money
<1>2. CASE SealOrResume
  <2>1. pc = "seal" /\ cur \in Episodes /\ disk[cur] \in Directories
    BY <1>2 DEF SealOrResume, IInv, TypeOK
  <2>2. CASE UNCHANGED disk
    BY <1>2, <2>2 DEF SealOrResume, money
  <2>3. CASE Here([disk[cur] EXCEPT !.manifest = config])
    BY <1>2, <2>1, <2>3 DEF SealOrResume, Here, IInv, TypeOK, Directories, money
  <2> QED
    BY <1>2, <2>2, <2>3 DEF SealOrResume
<1>3. CASE RunGraph \/ Score
  BY <1>3 DEF RunGraph, Score, Goes, InHand, IInv, TypeOK
<1>4. CASE WriteState \/ WriteScores \/ WriteReceipt
  BY <1>4 DEF WriteState, WriteScores, WriteReceipt, Goes, InHand, Here, IInv, TypeOK, money
<1>5. CASE Crash
  <2>1. CASE pc \in {"next", "ledger"}
    BY <1>1, <1>5, <2>1 DEF Crash
  <2>2. CASE pc \notin {"next", "ledger"}
    <3>1. pc # "off" /\ cur \in Episodes /\ disk[cur] \in Directories
      BY <1>5, <2>2 DEF Crash, IInv, TypeOK
    <3>2. PICK d \in Remains(disk[cur], pc) : Here(d)
      BY <1>5, <2>2 DEF Crash
    <3>3. d.receipt = "full" <=> disk[cur].receipt = "full"
      BY <2>2, <3>1, RemainsTyped
    <3>4. disk'[e].receipt = "full" => disk[e].receipt = "full"
      BY <3>1, <3>2, <3>3 DEF Here, IInv, TypeOK
    <3>5. PICK part \in CASE pc = "run" /\ ~Usable(disk[cur]) -> GraphCosts \cup {0}
                          [] pc = "score" -> JudgeCosts \cup {0}
                          [] OTHER -> {0} :
            spent' = [spent EXCEPT ![cur] = @ + part]
      BY <1>5, <2>2 DEF Crash
    <3>6. spent'[e] = spent[e]
      <4>1. CASE e # cur
        BY <3>5, <4>1 DEF IInv, TypeOK
      <4>2. CASE pc \notin InHand
        <5>1. part = 0
          BY <3>5, <4>2 DEF InHand
        <5> QED
          BY <3>1, <3>5, <5>1 DEF IInv, TypeOK
      <4> QED
        BY <4>1, <4>2
    <3> QED
      BY <3>4, <3>6
  <2> QED
    BY <2>1, <2>2
<1>6. CASE StartPass \/ EndLoop \/ BeginEpisode \/ Recover \/ Observe \/ WriteLedger \/ Reconfigure
           \/ UNCHANGED vars
  BY <1>1, <1>6 DEF StartPass, EndLoop, BeginEpisode, Recover, Observe, WriteLedger, Reconfigure, vars
<1> QED
  BY <1>2, <1>3, <1>4, <1>5, <1>6 DEF Next, PassStep

LEMMA StepKeepsOrder == ASSUME IInv, IInv', InOrder, [Next]_vars PROVE InOrder'
<1>1. \A e \in Episodes : disk[e].receipt = "full" => disk'[e].receipt = "full"
  BY StepLeavesReceipts
<1>2. /\ todo \subseteq Episodes /\ cur \in Episodes \cup {0} /\ Episodes \subseteq Int
      /\ disk \in [Episodes -> Directories]
  BY DEF IInv, TypeOK, Episodes
<1>3. pc \in InHand => cur \in Episodes /\ disk[cur].receipt # "full"
  BY DEF InHand, IInv, TypeOK, Open
<1>4. ASSUME NEW e \in Episodes, NEW f \in Episodes, e < f, disk'[e].receipt # "full"
      PROVE  disk'[f].receipt # "full" /\ spent'[f] = 0
  <2>1. disk[e].receipt # "full" /\ disk[f].receipt # "full" /\ spent[f] = 0
    BY <1>1, <1>4 DEF InOrder
  <2>2. f # cur \/ pc \notin InHand
    <3> SUFFICES ASSUME f = cur, pc \in InHand PROVE FALSE
      OBVIOUS
    <3>0. e \in Int /\ f \in Int /\ pc # "off"
      BY <1>2 DEF InHand
    <3>1. e \notin todo /\ e # cur
      BY <1>4, <3>0 DEF InOrder
    <3> QED
      BY <2>1, <3>1 DEF InOrder, InHand
  <2> QED
    BY <2>1, <2>2, StepPaysCur
<1>5. ASSUME pc' # "off"
      PROVE  /\ \A e \in Episodes : e \in todo' \/ e = cur' \/ disk'[e].receipt = "full"
             /\ \A e \in todo' : cur' < e
  <2>1. CASE StartPass
    <3>1. \A e \in Episodes : disk[e].receipt \in {"none", "full"}
      BY <1>2, <2>1 DEF StartPass, Directories
    <3>2. cur = 0
      BY <2>1 DEF StartPass, Goes, InOrder
    <3> QED
      BY <1>2, <2>1, <3>1, <3>2 DEF StartPass, Complete, Episodes
  <2>2. CASE BeginEpisode
    <3>1. PICK c \in todo : (\A k \in todo : c <= k) /\ cur' = c /\ todo' = todo \ {c}
      BY <2>2 DEF BeginEpisode
    <3>2. \A k \in todo \ {c} : c < k
      BY <1>2, <3>1
    <3>3. cur = 0 /\ pc # "off" /\ UNCHANGED disk
      BY <2>2 DEF BeginEpisode, Goes, InOrder
    <3> QED
      BY <1>2, <3>1, <3>2, <3>3 DEF InOrder, Episodes
  <2>3. CASE Observe
    <3>1. /\ pc = "observe" /\ cur' = 0 /\ UNCHANGED <<disk, todo>> /\ disk[cur].receipt = "full"
      BY <2>3 DEF Observe, IInv, Open
    <3> QED
      BY <1>2, <3>1 DEF InOrder, Episodes
  <2>4. CASE UNCHANGED <<todo, cur>> /\ pc # "off"
    BY <1>1, <2>4 DEF InOrder
  <2>5. CASE EndLoop \/ RunGraph \/ Recover \/ WriteState \/ Score \/ WriteScores \/ WriteReceipt
             \/ SealOrResume \/ Reconfigure \/ UNCHANGED vars
    BY <1>5, <2>4, <2>5 DEF EndLoop, RunGraph, Recover, WriteState, Score, WriteScores, WriteReceipt,
       SealOrResume, Refuse, Reconfigure, Goes, vars, pass
  <2>6. CASE WriteLedger \/ Crash
    BY <1>5, <2>6 DEF WriteLedger, Crash, Goes
  <2> QED
    BY <2>1, <2>2, <2>3, <2>5, <2>6 DEF Next, PassStep
<1>6. ASSUME pc' \in {"off", "next", "ledger"} PROVE cur' = 0
  <2>1. CASE SealOrResume \/ WriteLedger \/ Crash \/ Observe
    BY <1>6, <2>1 DEF SealOrResume, Refuse, WriteLedger, Crash, Observe, Idle
  <2>2. CASE StartPass \/ EndLoop \/ Reconfigure \/ UNCHANGED vars
    BY <1>6, <2>2 DEF StartPass, EndLoop, Reconfigure, vars, pass, Goes, InOrder
  <2> QED
    BY <1>6, <2>1, <2>2 DEF Next, PassStep, BeginEpisode, RunGraph, Recover, WriteState, Score,
       WriteScores, WriteReceipt, Goes
<1> QED
  BY <1>4, <1>5, <1>6 DEF InOrder

\* An episode that is paid for was begun below the cap, and a receipt leaves
\* no other episode open.
LEMMA StepStaysPrudent ==
  ASSUME IInv, IInv', InOrder, Below, Prudent, [Next]_vars PROVE Prudent'
<1> SUFFICES ASSUME Cap > 0, NEW e \in Episodes, disk'[e].receipt # "full", spent'[e] > 0
             PROVE  Total(OnRecord)' < Cap
  BY DEF Prudent
<1>1. disk[e].receipt # "full"
  BY StepLeavesReceipts
<1>2. CASE WriteReceipt
  <2>1. cur \in Episodes /\ pc = "receipt" /\ disk[cur].receipt # "full"
    BY <1>2 DEF WriteReceipt, Goes, InHand, IInv, TypeOK, Open
  <2>2. e # cur /\ spent'[e] = spent[e]
    BY <1>2, <2>1 DEF WriteReceipt, Here, IInv, TypeOK, Directories, money
  <2>3. cur < e
    BY <1>1, <2>1, <2>2 DEF InOrder
  <2>4. spent[e] = 0
    BY <2>1, <2>3 DEF InOrder
  <2> QED
    BY <2>2, <2>4
<1>3. CASE ~WriteReceipt
  <2>1. Total(OnRecord)' = Total(OnRecord)
    BY <1>3, RecordsStay, SameTotal
  <2>2. CASE pc \in InHand
    BY <2>1, <2>2 DEF Below
  <2>3. CASE pc \notin InHand
    <3>1. spent[e] > 0
      BY <2>3, StepPaysCur
    <3> QED
      BY <1>1, <2>1, <3>1 DEF Prudent
  <2> QED
    BY <2>2, <2>3
<1> QED
  BY <1>2, <1>3

LEMMA InitOrders == Init => InOrder /\ Prudent
<1> SUFFICES ASSUME Init PROVE InOrder /\ Prudent
  OBVIOUS
<1>1. \A e \in Episodes : disk[e].receipt = "none" /\ spent[e] = 0
  BY DEF Init, EmptyDirectory, Zero
<1> QED
  BY <1>1 DEF Init, InOrder, Prudent

\* What is booked of an episode without a receipt is one run and one scoring
\* at most.
LEMMA OpenIsOneEpisode ==
  ASSUME TypeOK, NEW e \in Episodes
  PROVE  /\ Booked(e) \in Nat
         /\ disk[e].receipt # "full" => Booked(e) <= MostGraph + MostJudge
<1>1. /\ run \in Nat /\ run <= MostGraph /\ MostGraph \in Nat
      /\ disk[e].paid \in Nat /\ disk[e].paid <= MostGraph
  BY MostBounds DEF TypeOK, Directories
<1>2. score.judge \in Nat /\ score.judge <= MostJudge /\ MostJudge \in Nat
  BY MostBounds DEF TypeOK
<1>3. disk[e].cost \in Nat
  BY DEF TypeOK, Directories
<1> QED
  BY <1>1, <1>2, <1>3 DEF Booked

\* What is booked adds up to the record and at most one episode more.
LEMMA BookedAddsUp ==
  ASSUME IInv, Spending, Below, InOrder, Prudent, Cap > 0
  PROVE  /\ [e \in Episodes |-> Booked(e)] \in [Episodes -> Nat]
         /\ AddUp([e \in Episodes |-> Booked(e)]) < Cap + MostGraph + MostJudge
<1> DEFINE b == [e \in Episodes |-> Booked(e)]
           r == Cost(OnRecord)
<1>1. b \in [Episodes -> Nat]
  BY OpenIsOneEpisode DEF IInv
<1>2. r \in [Episodes -> Nat] /\ Total(OnRecord) = AddUp(r) /\ AddUp(r) \in Nat
  BY OnRecordTyped, TotalAddsUp DEF IInv
<1>3. \A e \in Episodes : b[e] = Booked(e) /\ r[e] = IF disk[e].receipt = "full" THEN Booked(e) ELSE 0
  BY DEF Cost, OnRecord, Recorded, Booked, NotStarted, Finished
<1>4. \A e \in Episodes : Booked(e) \in Nat /\ spent[e] \in Nat /\ Booked(e) <= spent[e]
  BY OpenIsOneEpisode DEF IInv, TypeOK, Spending, Accounted
<1>5. MostGraph \in Nat /\ MostJudge \in Nat /\ Cap \in Nat
  BY MostBounds, ConstantsAssumption
<1>6. CASE \E x \in Episodes : disk[x].receipt # "full" /\ Booked(x) > 0
  <2>1. PICK x \in Episodes : disk[x].receipt # "full" /\ Booked(x) > 0
    BY <1>6
  <2>2. spent[x] > 0
    BY <1>4, <2>1
  <2>3. AddUp(r) < Cap
    BY <1>2, <2>1, <2>2 DEF Prudent
  <2>4. ASSUME NEW e \in Episodes \ {x} PROVE b[e] = r[e]
    <3>1. CASE disk[e].receipt = "full"
      BY <1>3, <3>1
    <3>2. CASE disk[e].receipt # "full"
      <4>1. e < x \/ x < e
        BY DEF Episodes
      <4>2. ~(e < x)
        BY <2>2, <3>2 DEF InOrder
      <4>3. spent[e] = 0
        BY <2>1, <4>1, <4>2 DEF InOrder
      <4>4. Booked(e) = 0
        BY <1>4, <4>3
      <4> QED
        BY <1>3, <4>4
    <3> QED
      BY <3>1, <3>2
  <2>5. AddUp(b) = AddUp(r) - r[x] + b[x]
    <3> HIDE DEF b, r
    <3> QED
      BY <1>1, <1>2, <2>4, EpisodesFinite, AddUpMoves
  <2>6. r[x] = 0 /\ b[x] = Booked(x) /\ b[x] <= MostGraph + MostJudge /\ b[x] \in Nat
    BY <1>3, <1>4, <2>1, OpenIsOneEpisode DEF IInv
  <2> HIDE DEF b, r
  <2> QED
    BY <1>1, <1>2, <1>5, <2>3, <2>5, <2>6 DEF b
<1>7. CASE \A x \in Episodes : disk[x].receipt # "full" => Booked(x) = 0
  <2>1. \A e \in Episodes : b[e] = r[e]
    BY <1>3, <1>7
  <2>2. b = r
    <3> HIDE DEF b, r
    <3> QED
      BY <1>1, <1>2, <2>1
  <2> HIDE DEF b, r
  <2> QED
    BY <1>1, <1>2, <2>2 DEF Below, b
<1> QED
  BY <1>4, <1>6, <1>7

\* The money spent over all passes.
LEMMA SpentAddsUp ==
  ASSUME IInv, Spending, Below, InOrder, Prudent, Cap > 0
  PROVE  Altogether(spent) < Cap + (1 + Altogether(lost)) * MostGraph + (1 + Altogether(missed)) * MostJudge
<1> DEFINE S == Episodes
           b == [e \in S |-> Booked(e)]
           l == [e \in S |-> lost[e] * MostGraph]
           m == [e \in S |-> missed[e] * MostJudge]
           c == [e \in S |-> l[e] + m[e]]
           t == [e \in S |-> b[e] + c[e]]
<1>1. b \in [S -> Nat] /\ AddUp(b) < Cap + MostGraph + MostJudge
  BY BookedAddsUp
<1>2. /\ spent \in [S -> Nat] /\ lost \in [S -> Nat] /\ missed \in [S -> Nat]
      /\ MostGraph \in Nat /\ MostJudge \in Nat /\ Cap \in Nat
  BY MostBounds, ConstantsAssumption DEF IInv, TypeOK
<1>3. l \in [S -> Nat] /\ m \in [S -> Nat]
  BY <1>2, Products
<1>4. c \in [S -> Nat] /\ t \in [S -> Nat]
  <2> HIDE DEF b, l, m
  <2> QED
    BY <1>1, <1>3
<1>5. \A e \in S : spent[e] <= t[e]
  <2>1. \A e \in S : t[e] = Booked(e) + (lost[e] * MostGraph + missed[e] * MostJudge)
    OBVIOUS
  <2>2. \A e \in S : /\ spent[e] <= Booked(e) + lost[e] * MostGraph + missed[e] * MostJudge
                     /\ Booked(e) \in Nat /\ lost[e] * MostGraph \in Nat /\ missed[e] * MostJudge \in Nat
    BY <1>2, Products, OpenIsOneEpisode DEF Spending, Accounted, IInv
  <2> HIDE DEF t
  <2>3. ASSUME NEW e \in S PROVE spent[e] <= t[e]
    <3> DEFINE x == lost[e] * MostGraph
               y == missed[e] * MostJudge
    <3>1. t[e] = Booked(e) + (x + y) /\ spent[e] <= Booked(e) + x + y /\ x \in Nat /\ y \in Nat
          /\ Booked(e) \in Nat
      BY <2>1, <2>2
    <3> HIDE DEF x, y
    <3> QED
      BY <3>1
  <2> QED
    BY <2>3
<1>6. IsFiniteSet(S)
  BY EpisodesFinite
<1>7. AddUp(l) = AddUp(lost) * MostGraph /\ AddUp(m) = AddUp(missed) * MostJudge
  BY <1>2, <1>6, AddUpTimes
<1> HIDE DEF b, l, m, S
<1>8. AddUp(c) = AddUp(l) + AddUp(m)
  BY <1>3, <1>6, AddUpPlus
<1> HIDE DEF c
<1>9. AddUp(t) = AddUp(b) + AddUp(c)
  BY <1>1, <1>4, <1>6, AddUpPlus
<1> HIDE DEF t
<1>10. AddUp(spent) <= AddUp(t)
  BY <1>2, <1>4, <1>5, <1>6, AddUpAtMost
<1>11. /\ AddUp(spent) \in Nat /\ AddUp(b) \in Nat /\ AddUp(lost) \in Nat /\ AddUp(missed) \in Nat
  BY <1>1, <1>2, <1>6, AddUpNat
<1>12. /\ AddUp(l) \in Nat /\ (1 + AddUp(lost)) * MostGraph = MostGraph + AddUp(l)
       /\ AddUp(m) \in Nat /\ (1 + AddUp(missed)) * MostJudge = MostJudge + AddUp(m)
  <2>1. \A n, k \in Nat : n * k \in Nat /\ (1 + n) * k = k + n * k
    OBVIOUS
  <2> QED
    BY <1>2, <1>7, <1>11, <2>1
<1>13. AddUp(spent) < Cap + (MostGraph + AddUp(l)) + (MostJudge + AddUp(m))
  BY <1>1, <1>2, <1>8, <1>9, <1>10, <1>11, <1>12
<1> QED
  BY <1>12, <1>13 DEF Altogether, AddUp

\* Over all passes the receipts exceed the cap by less than one episode,
\* whatever crashes between them, and so does the money but for the runs the
\* crashes took and the scorings nobody booked (budget_stop_reached).
THEOREM CapOvershootBounded == Spec => []CapOvershoot
<1>1. IInv /\ Spending /\ Below /\ InOrder /\ Prudent => CapOvershoot
  <2> SUFFICES ASSUME IInv, Spending, Below, InOrder, Prudent, Cap > 0 PROVE CapOvershoot
    BY DEF CapOvershoot
  <2>1. Total(OnRecord) < Cap + MostGraph + MostJudge
    BY DEF Below
  <2> QED
    BY <2>1, SpentAddsUp DEF CapOvershoot, OnRecord, MostGraph, MostJudge
<1>2. IInv /\ IInv' /\ Spending /\ Below /\ InOrder /\ Prudent /\ [Next]_vars
        => Spending' /\ Below' /\ InOrder' /\ Prudent'
  BY StepSpends, StepStaysBelow, StepKeepsOrder, StepStaysPrudent
<1> QED
  BY <1>1, <1>2, InitSpends, InitBelow, InitOrders, Inductive, PTL DEF Spec
-----------------------------------------------------------------------------
(* A campaign implements its record.                                        *)

\* The receipt concludes the episode in hand: it had none, all before it have
\* one, and what those cost has not reached the cap.
LEMMA ReceiptConcludes ==
  ASSUME IInv, IInv', Below, InOrder, WriteReceipt
  PROVE  \E e \in Episodes : Record!Conclude(e)
<1>1. /\ pc = "receipt" /\ cur \in Episodes /\ disk[cur] \in Directories /\ disk[cur].receipt # "full"
      /\ Here([disk[cur] EXCEPT !.receipt = "full", !.cost = ReceiptCost])
      /\ UNCHANGED ledger
  BY DEF WriteReceipt, Goes, IInv, TypeOK, Open, InHand
<1>2. PICK c \in Episodes : c = cur
  BY <1>1
<1>3. /\ disk'[c].receipt = "full"
      /\ \A e \in Episodes \ {c} : disk'[e] = disk[e]
  BY <1>1, <1>2 DEF Here, IInv, TypeOK, Directories
<1>4. /\ OnRecord \in [Episodes -> Outcomes] /\ OnRecord' \in [Episodes -> Outcomes]
      /\ \A e \in Episodes : OnRecord[e].terminal <=> disk[e].receipt = "full"
      /\ OnRecord'[c] \in Record!Over
      /\ \A e \in Episodes \ {c} : OnRecord'[e] = OnRecord[e]
  <2>1. OnRecord \in [Episodes -> Outcomes] /\ OnRecord' \in [Episodes -> Outcomes]
    <3>1. \A e \in Episodes : Recorded(e)' \in Outcomes
      BY DEF IInv, TypeOK, Directories, Recorded, Finished, NotStarted, Outcomes
    <3> QED
      BY <3>1, OnRecordTyped DEF IInv, OnRecord
  <2>2. \A e \in Episodes : OnRecord[e].terminal <=> disk[e].receipt = "full"
    BY DEF OnRecord, Recorded, Finished, NotStarted
  <2>3. OnRecord'[c] \in Record!Over
    <3>1. OnRecord'[c] \in Outcomes /\ OnRecord'[c].terminal
      BY <1>3, <2>1 DEF OnRecord, Recorded, Finished
    <3> QED
      BY <3>1 DEF Outcomes, Record!Over
  <2>4. \A e \in Episodes \ {c} : OnRecord'[e] = OnRecord[e]
    BY <1>3 DEF OnRecord, Recorded
  <2> QED
    BY <2>1, <2>2, <2>3, <2>4
<1>5. OnRecord' = [OnRecord EXCEPT ![c] = OnRecord'[c]]
  BY <1>4
<1>6. \A f \in Episodes : f < c => OnRecord[f].terminal
  <2> SUFFICES ASSUME NEW f \in Episodes, f < c, disk[f].receipt # "full" PROVE FALSE
    BY <1>4
  <2>1. f \in Int /\ c \in Int
    BY DEF Episodes
  <2>2. f \notin todo /\ f # cur
    BY <1>1, <1>2, <2>1 DEF InOrder
  <2> QED
    BY <1>1, <2>2 DEF InOrder
<1>7. Cap > 0 => Total(OnRecord) < Cap
  BY <1>1 DEF Below, InHand
<1>8. Record!Spent = Total(OnRecord)
  BY DEF Record!Spent, Total, OnRecord, FoldFunction, FoldFunctionOnSet, MapThenFoldSet,
     Record!FoldFunction, Record!FoldFunctionOnSet, Record!MapThenFoldSet
<1> QED
  BY <1>1, <1>2, <1>4, <1>5, <1>6, <1>7, <1>8 DEF Record!Conclude, OnRecord

\* Every step is one of the record or leaves it alone.
LEMMA StepRecords ==
  ASSUME IInv, IInv', Below, InOrder, [Next]_vars
  PROVE  [Record!Next]_(Record!vars)
<1> USE DEF OnRecord
<1>1. CASE WriteReceipt
  BY <1>1, ReceiptConcludes DEF Record!Next
<1>2. ~WriteReceipt => OnRecord' = OnRecord
  BY RecordsStay
<1>3. CASE WriteLedger
  <2>1. ledger' = outcomes /\ pc # "off" /\ ~WriteReceipt
    BY <1>3 DEF WriteLedger, WriteReceipt, Goes
  <2>2. outcomes = OnRecord
    BY <2>1 DEF IInv, TypeOK, Books
  <2> QED
    BY <1>2, <2>1, <2>2 DEF Record!Next, Record!Publish
<1>4. CASE Crash
  <2>1. ~WriteReceipt
    BY <1>4 DEF Crash, WriteReceipt, Goes
  <2>2. ledger' \in {[e \in Episodes |-> NotStarted], ledger}
    BY <1>4 DEF Crash
  <2> QED
    BY <1>2, <2>1, <2>2 DEF Record!Next, Record!Publish, Record!Nothing, Record!NotStarted, NotStarted, Record!vars
<1>5. CASE ~WriteReceipt /\ ~WriteLedger /\ ~Crash
  <2>1. UNCHANGED ledger
    BY <1>5 DEF Next, PassStep, StartPass, EndLoop, BeginEpisode, SealOrResume, RunGraph, Recover,
       WriteState, Score, WriteScores, Observe, Reconfigure, vars
  <2> QED
    BY <1>2, <1>5, <2>1 DEF Record!vars
<1> QED
  BY <1>1, <1>3, <1>4, <1>5

LEMMA InitRecords == Init => Record!Init
<1> SUFFICES ASSUME Init PROVE Record!Init
  OBVIOUS
<1>1. \A e \in Episodes : Recorded(e) = NotStarted
  BY DEF Init, Recorded, EmptyDirectory
<1> QED
  BY <1>1 DEF Init, Record!Init, Record!Nothing, Record!NotStarted, NotStarted

\* However often its passes die, a campaign keeps one record: outcomes in the
\* order of the plan, each once and for good and none past the cap, and a
\* ledger that lists them or, torn, nothing (execute_campaign, reconcile).
THEOREM CampaignImplementsRecord == Spec => RecordSpec
<1>1. IInv /\ IInv' /\ Below /\ InOrder /\ [Next]_vars => Below' /\ InOrder'
  BY StepStaysBelow, StepKeepsOrder
<1>2. IInv /\ IInv' /\ Below /\ InOrder /\ [Next]_vars => [Record!Next]_(Record!vars)
  BY StepRecords
<1> QED
  BY <1>1, <1>2, InitRecords, InitBelow, InitOrders, Inductive, PTL DEF Spec, RecordSpec, Record!Spec
================================================================================
