-------------------------- MODULE EventStream_proofs --------------------------
(***************************************************************************)
(* Proofs about EventStream, for every number of clients, frames, pauses,   *)
(* lost publishes and reconnections: the types, that a subscribed response  *)
(* neither loses nor reorders a frame, that a pause reaches the client, and *)
(* that the runner's row and closing frame are those of JobOutcome.         *)
(***************************************************************************)
EXTENDS EventStream, FiniteSetTheorems, TLAPS

\* What the frames of the queue make of it.
LEMMA QueueFinite ==
  ASSUME NEW q \in SUBSET Frames
  PROVE  IsFiniteSet(q) /\ Cardinality(q) \in Nat
<1>1. IsFiniteSet(Frames)
  BY ConstantsAssumption, FS_Interval DEF Frames
<1>2. IsFiniteSet(q)
  BY <1>1, FS_Subset, Zenon
<1> QED
  BY <1>2, FS_CardinalityType, Zenon

\* Dropping the oldest frame when it is full keeps the queue within its size.
LEMMA EnqueueBounded ==
  ASSUME queue \in SUBSET Frames, Cardinality(queue) <= QueueMax,
         NEW f \in Frames, Enqueue(f)
  PROVE  queue' \in SUBSET Frames /\ Cardinality(queue') <= QueueMax
<1> USE ConstantsAssumption
<1>1. IsFiniteSet(queue) /\ Cardinality(queue) \in Nat
  BY QueueFinite
<1>2. CASE Cardinality(queue) < QueueMax
  <2>1. queue' = queue \cup {f}
    BY <1>2 DEF Enqueue
  <2>2. Cardinality(queue \cup {f}) =
          IF f \in queue THEN Cardinality(queue) ELSE Cardinality(queue) + 1
    BY <1>1, FS_AddElement, Zenon
  <2> QED
    BY <1>1, <1>2, <2>1, <2>2
<1>3. CASE ~(Cardinality(queue) < QueueMax)
  <2>1. PICK old \in queue : queue' = (queue \ {old}) \cup {f}
    BY <1>3 DEF Enqueue
  <2> DEFINE rest == queue \ {old}
  <2>2. IsFiniteSet(rest) /\ Cardinality(rest) = Cardinality(queue) - 1
    <3>1. IsFiniteSet(rest) /\ Cardinality(rest) =
            IF old \in queue THEN Cardinality(queue) - 1 ELSE Cardinality(queue)
      BY <1>1, FS_RemoveElement, Zenon
    <3> QED
      BY <3>1
  <2>3. Cardinality(rest \cup {f}) = IF f \in rest THEN Cardinality(rest) ELSE Cardinality(rest) + 1
    BY <2>2, FS_AddElement, Zenon
  <2> QED
    BY <1>1, <2>1, <2>2, <2>3
<1> QED
  BY <1>2, <1>3

\* Reading a frame does not make the queue longer.
LEMMA DequeueBounded ==
  ASSUME queue \in SUBSET Frames, Cardinality(queue) <= QueueMax, NEW f \in queue
  PROVE  queue \ {f} \in SUBSET Frames /\ Cardinality(queue \ {f}) <= QueueMax
<1>1. IsFiniteSet(queue) /\ Cardinality(queue) \in Nat
  BY QueueFinite
<1>2. Cardinality(queue \ {f}) = IF f \in queue THEN Cardinality(queue) - 1 ELSE Cardinality(queue)
  BY <1>1, FS_RemoveElement, Zenon
<1> QED
  BY <1>1, <1>2, ConstantsAssumption

-----------------------------------------------------------------------------
(* Types, by the groups of variables a step may touch.                      *)

RunnerType ==
  /\ run \in RunPc
  /\ n \in 0 .. MaxFrames /\ parks \in 0 .. MaxParks
  /\ pause \in 0 .. n /\ closing \in 0 .. n
  /\ lost \in 0 .. MaxLost

QueueType == queue \in SUBSET Frames /\ Cardinality(queue) <= QueueMax

ResponseType ==
  /\ drops \in 0 .. MaxDrops
  /\ conn \in [Clients -> {"off", "routed", "top", "wait"}]
  /\ got \in [Clients -> [status : Statuses \cup {"live"}, parks : 0 .. MaxParks]]
  /\ late \in [Clients -> BOOLEAN]
  /\ ended \in [Clients -> {"never", "outcome", "timeout", "drained", "gone"}]

ReadingType ==
  /\ read \in [Clients -> {"none", "subscribing", "pending", "frame", "stop"}]
  /\ sub \in [Clients -> BOOLEAN]
  /\ from \in [Clients -> 0 .. MaxFrames]
  /\ chan \in [Clients -> SUBSET Frames]
  /\ held \in [Clients -> 0 .. MaxFrames]

ScreenType ==
  /\ seen \in [Clients -> SUBSET Frames]
  /\ shown \in [Clients -> 0 .. MaxParks] /\ told \in [Clients -> BOOLEAN]

\* A read holds a frame exactly when it has finished with one.
Holding == \A c \in Clients : read[c] = "frame" <=> held[c] # 0

IType ==
  /\ transport \in Transports
  /\ RunnerType /\ QueueType /\ ResponseType /\ ReadingType /\ ScreenType /\ Holding

LEMMA ITypeIsType == IType => TypeOK
  BY DEF IType, TypeOK, RunnerType, QueueType, ResponseType, ReadingType, ScreenType

LEMMA ITypeInit == Init => IType
<1>1. IsFiniteSet({}) /\ Cardinality({}) = 0
  BY FS_EmptySet, Zenon
<1> QED
  BY <1>1, ConstantsAssumption DEF Init, IType, RunnerType, QueueType, ResponseType, ReadingType,
     ScreenType, Holding, RunPc, Statuses

\* A frame that goes out keeps the types of what it touches.
LEMMA PublishTypes ==
  ASSUME IType, Publish
  PROVE  /\ n' \in 0 .. MaxFrames /\ n' = n + 1 /\ n \in Nat
         /\ QueueType' /\ ReadingType' /\ UNCHANGED <<read, held>>
<1> USE ConstantsAssumption
<1>1. n \in Nat /\ n' = n + 1 /\ n' \in Frames /\ n' \in 0 .. MaxFrames
  BY DEF IType, RunnerType, Publish, Frames
<1>2. UNCHANGED <<read, sub, from, held>>
  BY DEF Publish
<1>3. QueueType'
  <2>1. CASE Remote
    BY <2>1 DEF Publish, QueueType, IType
  <2>2. CASE ~Remote
    BY <1>1, <2>2, EnqueueBounded DEF Publish, QueueType, IType
  <2> QED
    BY <2>1, <2>2
<1>4. chan' \in [Clients -> SUBSET Frames]
  BY <1>1 DEF Publish, IType, ReadingType
<1> QED
  BY <1>1, <1>2, <1>3, <1>4 DEF IType, ReadingType

\* The row and the instance have a status.
LEMMA StatusTypes == run \in RunPc => Live \in Statuses /\ Row \in Statuses
  BY DEF RunPc, Live, Row, Statuses

\* Ending a response keeps the types, whatever the reason.
LEMMA CloseTypes ==
  ASSUME ResponseType, ReadingType, Holding, NEW c \in Clients,
         NEW why \in {"outcome", "timeout", "drained", "gone"}, CloseAs(c, why), UNCHANGED drops
  PROVE  ResponseType' /\ ReadingType' /\ Holding'
<1>1. ResponseType'
  BY DEF ResponseType, CloseAs
<1>2. ReadingType'
  BY ConstantsAssumption DEF ReadingType, CloseAs
<1>3. Holding'
  BY DEF Holding, CloseAs, ReadingType
<1> QED
  BY <1>1, <1>2, <1>3

\* Writing a held frame out keeps the types.
LEMMA SendTypes ==
  ASSUME IType, NEW c \in Clients, read[c] = "frame", NEW to \in {"top", "timeout"},
         Send(c, to), UNCHANGED <<transport, runner, drops>>
  PROVE  IType'
<1> USE ConstantsAssumption DEF IType
<1>1. held[c] \in Frames
  BY DEF Holding, ReadingType, Frames
<1>2. seen' = [seen EXCEPT ![c] = @ \cup {held[c]}]
  BY DEF Send
<1>3. shown' \in [Clients -> 0 .. MaxParks] /\ told' \in [Clients -> BOOLEAN]
  <2>1. shown' = [shown EXCEPT ![c] = IF held[c] = pause THEN parks ELSE @]
    BY DEF Send
  <2>2. told' = [told EXCEPT ![c] = @ \/ held[c] = closing]
    BY DEF Send
  <2>3. parks \in 0 .. MaxParks
    BY DEF RunnerType
  <2>4. shown' \in [Clients -> 0 .. MaxParks]
    BY <2>1, <2>3 DEF ScreenType
  <2>5. told' \in [Clients -> BOOLEAN]
    BY <2>2, Zenon DEF ScreenType
  <2> QED
    BY <2>4, <2>5
<1>4. ScreenType'
  BY <1>1, <1>2, <1>3 DEF ScreenType
<1>5. ResponseType' /\ ReadingType' /\ Holding'
  <2>1. CASE Closes(held[c])
    BY <2>1, CloseTypes DEF Send
  <2>2. CASE ~Closes(held[c]) /\ to = "top"
    <3>1. /\ conn' = [conn EXCEPT ![c] = "top"]
          /\ read' = [read EXCEPT ![c] = "none"]
          /\ held' = [held EXCEPT ![c] = 0]
          /\ UNCHANGED <<sub, from, chan, got, late, ended, drops>>
      BY <2>2 DEF Send
    <3>2. ResponseType'
      BY <3>1 DEF ResponseType
    <3>3. ReadingType'
      BY <3>1 DEF ReadingType
    <3>4. Holding'
      BY <3>1 DEF ReadingType, Holding
    <3> QED
      BY <3>2, <3>3, <3>4
  <2>3. CASE ~Closes(held[c]) /\ to # "top"
    BY <2>3, CloseTypes DEF Send
  <2> QED
    BY <2>1, <2>2, <2>3
<1> QED
  BY <1>4, <1>5 DEF RunnerType, QueueType, runner

\* A step of the run keeps the types.
LEMMA RunTypes ==
  ASSUME IType, UNCHANGED transport, Progress \/ Park \/ Resume \/ End \/ RunStep
  PROVE  IType'
<1> USE ConstantsAssumption
<1> USE DEF IType, RunnerType, RunPc, response, screen
<1>1. ASSUME UNCHANGED <<response, screen>> PROVE ResponseType' /\ ScreenType'
  BY <1>1 DEF ResponseType, ScreenType
<1>2. ASSUME UNCHANGED reading PROVE ReadingType' /\ Holding'
  BY <1>2 DEF ReadingType, Holding, reading
<1>3. ASSUME UNCHANGED queue PROVE QueueType'
  BY <1>3 DEF QueueType
<1>4. CASE Progress
  BY <1>1, <1>4, PublishTypes DEF Progress, Goes, Holding
<1>5. CASE ParkRow
  BY <1>1, <1>2, <1>3, <1>5 DEF ParkRow, Goes
<1>6. CASE Park
  <2>1. CASE Remote
    BY <1>1, <1>2, <1>3, <1>6, <2>1 DEF Park, Goes
  <2>2. CASE ~Remote
    BY <1>1, <1>6, <2>2, PublishTypes DEF Park, Goes, Holding
  <2> QED
    BY <2>1, <2>2
<1>7. CASE PauseFrame
  <2>1. CASE Publish /\ UNCHANGED lost /\ pause' = n'
    BY <1>1, <1>7, <2>1, PublishTypes DEF PauseFrame, Holding
  <2>2. CASE PublishRaises /\ UNCHANGED pause
    BY <1>1, <1>2, <1>3, <1>7, <2>2 DEF PauseFrame, PublishRaises
  <2> QED
    BY <1>7, <2>1, <2>2 DEF PauseFrame
<1>8. CASE Resume
  BY <1>1, <1>2, <1>3, <1>8 DEF Resume, Goes
<1>9. CASE UnparkRow
  BY <1>1, <1>2, <1>3, <1>9 DEF UnparkRow, Goes
<1>10. CASE End
  BY <1>1, <1>2, <1>3, <1>10 DEF End, Goes
<1>11. CASE EndRow
  BY <1>1, <1>2, <1>3, <1>11 DEF EndRow, Goes
<1>12. CASE ClosingFrame
  <2>1. CASE Publish /\ UNCHANGED lost /\ closing' = n'
    BY <1>1, <1>12, <2>1, PublishTypes DEF ClosingFrame, Holding
  <2>2. CASE PublishRaises /\ UNCHANGED closing
    BY <1>1, <1>2, <1>3, <1>12, <2>2 DEF ClosingFrame, PublishRaises
  <2> QED
    BY <1>12, <2>1, <2>2 DEF ClosingFrame
<1> QED
  BY <1>4, <1>5, <1>6, <1>7, <1>8, <1>9, <1>10, <1>11, <1>12 DEF RunStep

\* A step of a response keeps the types.
LEMMA ResponseTypes ==
  ASSUME IType, NEW c \in Clients,
         Get(c) \/ ResponseStep(c) \/ Heartbeat(c) \/ Elapse(c) \/ Disconnect(c)
  PROVE  IType'
<1> USE ConstantsAssumption
<1> USE DEF IType
<1>1. ASSUME UNCHANGED runner PROVE RunnerType' /\ QueueType'
  BY <1>1 DEF RunnerType, QueueType, runner
<1>2. ASSUME UNCHANGED reading PROVE ReadingType' /\ Holding'
  BY <1>2 DEF ReadingType, Holding, reading
<1>3. ASSUME UNCHANGED screen PROVE ScreenType'
  BY <1>3 DEF ScreenType, screen
<1>4. ASSUME UNCHANGED response PROVE ResponseType'
  BY <1>4 DEF ResponseType, response
<1>5. Live \in Statuses /\ Row \in Statuses /\ parks \in 0 .. MaxParks
  BY StatusTypes DEF RunnerType
<1>6. CASE Get(c)
  <2>1. got' \in [Clients -> [status : Statuses \cup {"live"}, parks : 0 .. MaxParks]]
    BY <1>5, <1>6 DEF Get, Job, ResponseType
  <2>2. ResponseType' /\ ScreenType'
    BY <1>6, <2>1 DEF Get, Moves, ResponseType, ScreenType
  <2> QED
    BY <1>1, <1>2, <1>6, <2>2 DEF Get
<1>7. CASE Start(c)
  <2> DEFINE j == IF got[c].status = "live" THEN Job(Live) ELSE got[c]
  <2>1. j \in [status : Statuses \cup {"live"}, parks : 0 .. MaxParks]
    BY <1>5 DEF Job, ResponseType
  <2>2. CASE HasEnded(j)
    BY <1>1, <1>7, <2>2, CloseTypes DEF Start, ScreenType
  <2>3. CASE ~HasEnded(j)
    <3>1. Replays(j) \in 0 .. MaxParks
      BY <2>1 DEF Replays
    <3>a. /\ conn' = [conn EXCEPT ![c] = "top"]
          /\ got' = [got EXCEPT ![c] = j]
          /\ shown' = [shown EXCEPT ![c] = Replays(j)]
          /\ UNCHANGED <<late, ended, drops, told, seen>>
      BY <1>7, <2>3 DEF Start
    <3>b. ResponseType'
      <4> HIDE DEF j
      <4> QED
        BY <2>1, <3>a DEF ResponseType
    <3>c. ScreenType'
      <4> HIDE DEF j
      <4> QED
        BY <3>1, <3>a DEF ScreenType
    <3>2. ResponseType' /\ ScreenType'
      BY <3>b, <3>c
    <3> QED
      BY <1>1, <1>2, <1>7, <2>3, <3>2 DEF Start
  <2> QED
    BY <2>2, <2>3
<1>8. CASE Await(c)
  <2>1. ResponseType'
    BY <1>8 DEF Await, Moves, ResponseType
  <2>2. ReadingType' /\ Holding'
    BY <1>8 DEF Await, ReadingType, Holding
  <2> QED
    BY <1>1, <1>3, <1>8, <2>1, <2>2 DEF Await
<1>9. CASE Subscribe(c)
  BY <1>1, <1>3, <1>4, <1>9 DEF Subscribe, ReadingType, Holding, RunnerType
<1>10. CASE Pull(c)
  <2>1. PICK f \in Frames :
          /\ held' = [held EXCEPT ![c] = f]
          /\ IF Remote
               THEN Oldest(f, chan[c]) /\ chan' = [chan EXCEPT ![c] = @ \ {f}] /\ UNCHANGED queue
               ELSE Oldest(f, queue) /\ queue' = queue \ {f} /\ UNCHANGED chan
    BY <1>10 DEF Pull
  <2>2. f \in 0 .. MaxFrames /\ f # 0
    BY DEF Frames
  <2>3. ReadingType' /\ Holding'
    BY <1>10, <2>1, <2>2 DEF Pull, ReadingType, Holding
  <2>4. QueueType'
    BY <2>1, DequeueBounded DEF QueueType, Oldest
  <2>5. RunnerType'
    BY <1>10 DEF Pull, RunnerType
  <2> QED
    BY <1>3, <1>4, <1>10, <2>3, <2>4, <2>5 DEF Pull
<1>11. CASE Drained(c)
  BY <1>1, <1>3, <1>4, <1>11 DEF Drained, ReadingType, Holding
<1>12. CASE Wake(c)
  <2>1. CASE read[c] = "frame"
    BY <1>12, <2>1, SendTypes DEF Wake
  <2>2. CASE read[c] # "frame"
    BY <1>1, <1>3, <1>12, <2>2, CloseTypes DEF Wake
  <2> QED
    BY <2>1, <2>2
<1>13. CASE Deadline(c)
  <2>1. CASE read[c] = "frame"
    BY <1>13, <2>1, SendTypes DEF Deadline
  <2>2. CASE read[c] # "frame"
    BY <1>1, <1>3, <1>13, <2>2, CloseTypes DEF Deadline
  <2> QED
    BY <2>1, <2>2
<1>14. CASE Heartbeat(c)
  BY <1>1, <1>2, <1>3, <1>14 DEF Heartbeat, Moves, ResponseType
<1>15. CASE Elapse(c)
  BY <1>1, <1>2, <1>3, <1>15 DEF Elapse, ResponseType
<1>16. CASE Disconnect(c)
  <2>1. ResponseType' /\ ReadingType' /\ Holding'
    <3>1. conn' = [conn EXCEPT ![c] = "off"] /\ ended' = [ended EXCEPT ![c] = "gone"]
          /\ drops' \in 0 .. MaxDrops
      BY <1>16 DEF Disconnect, CloseAs, ResponseType
    <3>2. ResponseType'
      BY <1>16, <3>1 DEF Disconnect, CloseAs, ResponseType
    <3>3. ReadingType' /\ Holding'
      BY <1>16 DEF Disconnect, CloseAs, ReadingType, Holding
    <3> QED
      BY <3>2, <3>3
  <2> QED
    BY <1>1, <1>3, <1>16, <2>1 DEF Disconnect
<1> QED
  BY <1>6, <1>7, <1>8, <1>9, <1>10, <1>11, <1>12, <1>13, <1>14, <1>15, <1>16 DEF ResponseStep

LEMMA ITypeHolds == Spec => []IType
<1>1. IType /\ [Next]_vars => IType'
  <2>1. ASSUME IType, UNCHANGED vars PROVE IType'
    BY <2>1 DEF IType, RunnerType, QueueType, ResponseType, ReadingType, ScreenType, Holding,
       vars, runner, response, reading, screen
  <2> QED
    BY <2>1, RunTypes, ResponseTypes DEF Next
<1> QED
  BY ITypeInit, <1>1, PTL DEF Spec

\* Every variable keeps its type, the queue its bound: in both transports, for
\* any clients, through drops, deadlines and lost publishes.
THEOREM TypeCorrect == Spec => []TypeOK
  BY ITypeHolds, ITypeIsType, PTL

-----------------------------------------------------------------------------
(* Subscribed responses.                                                    *)

Mine(c) == seen[c] \cup ({held[c]} \ {0})

\* NothingMissed for one client.
Complete(c) ==
  /\ Mine(c) \cup chan[c] = (from[c] + 1) .. n
  /\ \A i \in Mine(c), k \in chan[c] : i < k
  /\ held[c] \notin seen[c]

\* A response that has yet to subscribe has nothing of an earlier one.
Order(c) ==
  /\ sub[c] => Complete(c) /\ from[c] <= n /\ Remote /\ conn[c] \in {"top", "wait"}
  /\ ~sub[c] => chan[c] = {}
  /\ Remote /\ ~sub[c] => held[c] = 0
  /\ Remote /\ ~sub[c] /\ conn[c] # "off" => seen[c] = {}
  /\ read[c] # "none" => conn[c] \in {"top", "wait"}
  /\ read[c] = "subscribing" => ~sub[c] /\ Remote

LEMMA OrderInit == Init => \A c \in Clients : Order(c)
  BY DEF Init, Order

\* A frame that goes out is the newest of every subscription.
LEMMA OrderPublish ==
  ASSUME IType, Publish, UNCHANGED <<transport, response, screen>>,
         NEW c \in Clients, Order(c)
  PROVE  Order(c)'
<1> USE ConstantsAssumption DEF response, screen
<1>1. /\ n \in Nat /\ n' = n + 1 /\ UNCHANGED <<read, sub, from, held>>
      /\ from[c] \in Nat /\ chan[c] \subseteq Frames /\ seen[c] \subseteq Frames
      /\ held[c] \in Nat
  BY DEF IType, RunnerType, ReadingType, ScreenType, Publish
<1>2. CASE ~Remote
  BY <1>1, <1>2 DEF Publish, Order, Remote, IType, ReadingType
<1>3. CASE Remote /\ sub[c]
  <2>1. chan'[c] = chan[c] \cup {n + 1}
    BY <1>1, <1>3 DEF Publish, IType, ReadingType
  <2>2. Mine(c)' = Mine(c)
    BY <1>1 DEF Mine
  <2>3. Mine(c) \cup chan[c] = (from[c] + 1) .. n /\ from[c] <= n
    BY <1>3 DEF Order, Complete
  <2>4. (from[c] + 1) .. (n + 1) = ((from[c] + 1) .. n) \cup {n + 1}
    BY <1>1, <2>3
  <2>5. \A i \in Mine(c) : i \in Nat /\ i <= n
    BY <1>1, <2>3
  <2>6. Complete(c)'
    <3>1. (Mine(c) \cup chan[c])' = ((from[c] + 1) .. n)'
      BY <1>1, <2>1, <2>2, <2>3, <2>4
    <3>2. (\A i \in Mine(c), k \in chan[c] : i < k)'
      BY <1>1, <1>3, <2>1, <2>2, <2>5 DEF Order, Complete
    <3> QED
      BY <1>1, <1>3, <3>1, <3>2 DEF Complete, Order
  <2> QED
    BY <1>1, <1>3, <2>3, <2>6 DEF Order, Remote
<1>4. CASE Remote /\ ~sub[c]
  BY <1>1, <1>4 DEF Publish, Order, Remote, IType, ReadingType
<1> QED
  BY <1>2, <1>3, <1>4

\* What does not touch a client's reading or screen, nor publishes, keeps its order.
LEMMA OrderUntouched ==
  ASSUME NEW c \in Clients, Order(c), UNCHANGED <<transport, n>>,
         sub'[c] = sub[c], from'[c] = from[c], chan'[c] = chan[c], held'[c] = held[c],
         read'[c] = read[c], seen'[c] = seen[c], conn'[c] = conn[c]
  PROVE  Order(c)'
  BY DEF Order, Complete, Mine, Remote

LEMMA OrderRun ==
  ASSUME IType, UNCHANGED transport, Progress \/ Park \/ Resume \/ End \/ RunStep,
         NEW c \in Clients, Order(c)
  PROVE  Order(c)'
<1>1. UNCHANGED <<response, screen>>
  BY DEF Progress, Park, Resume, End, RunStep, ParkRow, PauseFrame, UnparkRow, EndRow, ClosingFrame
<1>2. Publish \/ UNCHANGED <<n, reading>>
  BY DEF Progress, Park, Resume, End, RunStep, ParkRow, PauseFrame, UnparkRow, EndRow,
     ClosingFrame, PublishRaises
<1> QED
  BY <1>1, <1>2, OrderPublish, OrderUntouched DEF response, screen, reading

\* The end of a response leaves nothing behind that the next one would use.
LEMMA OrderClose ==
  ASSUME IType, NEW c \in Clients, NEW why, CloseAs(c, why)
  PROVE  Order(c)'
  BY DEF CloseAs, Order, IType, ReadingType, ResponseType

\* Writing the held frame out moves it from the read to what was sent.
LEMMA OrderSend ==
  ASSUME IType, NEW c \in Clients, Order(c), read[c] = "frame", conn[c] \in {"top", "wait"},
         NEW to, Send(c, to), UNCHANGED <<transport, n>>
  PROVE  Order(c)'
<1>1. CASE Closes(held[c]) \/ to # "top"
  BY <1>1, OrderClose DEF Send
<1>2. CASE ~Closes(held[c]) /\ to = "top"
  <2>1. /\ held[c] # 0 /\ held'[c] = 0 /\ seen'[c] = seen[c] \cup {held[c]}
        /\ read'[c] = "none" /\ conn'[c] = "top" /\ UNCHANGED <<sub, from, chan>>
        /\ 0 \notin seen[c]
    BY <1>2 DEF Send, IType, Holding, ReadingType, ScreenType, ResponseType, Frames
  <2>2. Mine(c)' = Mine(c)
    BY <2>1 DEF Mine
  <2>3. held'[c] \notin seen'[c]
    BY <2>1
  <2>4. Remote' = Remote
    BY DEF Remote
  <2> QED
    BY <2>1, <2>2, <2>3, <2>4 DEF Order, Complete
<1> QED
  BY <1>1, <1>2

\* The oldest frame of the subscription becomes the held one.
LEMMA OrderPull ==
  ASSUME IType, NEW c \in Clients, Order(c), Pull(c)
  PROVE  Order(c)'
<1>1. PICK f \in Frames :
        /\ held' = [held EXCEPT ![c] = f]
        /\ IF Remote
             THEN Oldest(f, chan[c]) /\ chan' = [chan EXCEPT ![c] = @ \ {f}] /\ UNCHANGED queue
             ELSE Oldest(f, queue) /\ queue' = queue \ {f} /\ UNCHANGED chan
  BY DEF Pull
<1>2. /\ read[c] = "pending" /\ read'[c] = "frame" /\ held[c] = 0 /\ held'[c] = f /\ f # 0
      /\ UNCHANGED <<transport, n, conn, sub, from, seen>>
  BY <1>1 DEF Pull, IType, ReadingType, Holding, Frames, response, screen
<1>3. Remote' = Remote
  BY <1>2 DEF Remote
<1>4. CASE Remote
  <2>1. sub[c]
    BY <1>1, <1>4 DEF Order, Oldest
  <2>2. f \in chan[c] /\ (\A k \in chan[c] : f <= k) /\ chan'[c] = chan[c] \ {f}
    BY <1>1, <1>4 DEF Oldest, IType, ReadingType
  <2>3. Mine(c) = seen[c] /\ Mine(c)' = seen[c] \cup {f}
    BY <1>2, ConstantsAssumption DEF Mine, IType, ScreenType, Frames
  <2>4. Complete(c)
    BY <2>1 DEF Order
  <2>5. chan[c] \subseteq Int /\ seen[c] \subseteq Int
    BY DEF IType, ReadingType, ScreenType, Frames
  <2>6. Complete(c)'
    <3>1. (Mine(c) \cup chan[c])' = ((from[c] + 1) .. n)'
      BY <1>2, <2>2, <2>3, <2>4 DEF Complete
    <3>2. (\A i \in Mine(c), k \in chan[c] : i < k)'
      BY <2>2, <2>3, <2>4, <2>5 DEF Complete
    <3>3. f \notin seen[c]
      BY <2>2, <2>3, <2>4, <2>5 DEF Complete
    <3> QED
      BY <1>2, <3>1, <3>2, <3>3 DEF Complete
  <2> QED
    BY <1>2, <1>3, <2>1, <2>6 DEF Order
<1>5. CASE ~Remote
  BY <1>1, <1>2, <1>3, <1>5 DEF Order
<1> QED
  BY <1>4, <1>5

LEMMA OrderResponse ==
  ASSUME IType, NEW d \in Clients,
         Get(d) \/ ResponseStep(d) \/ Heartbeat(d) \/ Elapse(d) \/ Disconnect(d),
         NEW c \in Clients, Order(c)
  PROVE  Order(c)'
<1> USE DEF IType, ReadingType, ScreenType, ResponseType
<1>1. UNCHANGED <<transport, n>>
  BY DEF Get, ResponseStep, Start, Await, Subscribe, Pull, Drained, Wake, Deadline, Heartbeat,
     Elapse, Disconnect, runner
<1>2. CASE c # d
  <2>1. /\ sub'[c] = sub[c] /\ from'[c] = from[c] /\ chan'[c] = chan[c] /\ held'[c] = held[c]
        /\ read'[c] = read[c] /\ seen'[c] = seen[c] /\ conn'[c] = conn[c]
    <3>1. ASSUME NEW why, CloseAs(d, why)
          PROVE  /\ sub'[c] = sub[c] /\ from'[c] = from[c] /\ chan'[c] = chan[c]
                 /\ held'[c] = held[c] /\ read'[c] = read[c] /\ conn'[c] = conn[c]
      BY <1>2, <3>1 DEF CloseAs
    <3>2. CASE Get(d)
      BY <1>2, <3>2 DEF Get, Moves, reading
    <3>3. CASE Start(d)
      BY <1>2, <3>1, <3>3 DEF Start, reading
    <3>4. CASE Await(d) \/ Subscribe(d) \/ Pull(d) \/ Drained(d)
      BY <1>2, <3>4 DEF Await, Subscribe, Pull, Drained, Moves, response, screen
    <3>5. ASSUME NEW to, Send(d, to)
          PROVE  <2>1!1 /\ <2>1!2
      BY <1>2, <3>1, <3>5 DEF Send
    <3>6. CASE Wake(d) \/ Deadline(d)
      BY <3>1, <3>5, <3>6 DEF Wake, Deadline, screen
    <3>7. CASE Heartbeat(d) \/ Elapse(d)
      BY <1>2, <3>7 DEF Heartbeat, Elapse, Moves, reading, screen
    <3>8. CASE Disconnect(d)
      BY <3>1, <3>8 DEF Disconnect, screen
    <3> QED
      BY <3>2, <3>3, <3>4, <3>6, <3>7, <3>8 DEF ResponseStep
  <2> QED
    BY <1>1, <2>1, OrderUntouched
<1>3. CASE c = d
  <2>0. Remote' = Remote
    BY <1>1 DEF Remote
  <2>1. CASE Get(c)
    BY <2>0, <2>1 DEF Get, Moves, reading, Order
  <2>2. CASE Start(c)
    <3>1. CASE CloseAs(c, "outcome")
      BY <3>1, OrderClose
    <3>2. CASE conn' = [conn EXCEPT ![c] = "top"] /\ UNCHANGED reading
      BY <1>1, <2>0, <2>2, <3>2 DEF Start, reading, Order, Complete, Mine
    <3> QED
      BY <2>2, <3>1, <3>2 DEF Start
  <2>3. CASE Await(c)
    BY <1>1, <2>0, <2>3 DEF Await, Moves, screen, Order, Complete, Mine
  <2>4. CASE Subscribe(c)
    <3>1. /\ ~sub[c] /\ Remote /\ chan[c] = {} /\ held[c] = 0 /\ seen[c] = {}
          /\ conn[c] \in {"top", "wait"}
      BY <2>4 DEF Subscribe, Order
    <3>2. /\ sub'[c] /\ from'[c] = n /\ read'[c] = "pending"
          /\ UNCHANGED <<conn, chan, held, seen>>
      BY <2>4 DEF Subscribe, response, screen
    <3>3. n \in Nat
      BY DEF RunnerType
    <3>4. Mine(c)' = {} /\ (n + 1) .. n = {}
      BY <3>1, <3>2, <3>3 DEF Mine
    <3>5. Complete(c)'
      BY <1>1, <3>1, <3>2, <3>4 DEF Complete
    <3> QED
      BY <1>1, <2>0, <3>1, <3>2, <3>3, <3>5 DEF Order
  <2>5. CASE Pull(c)
    BY <2>5, OrderPull
  <2>6. CASE Drained(c)
    BY <1>1, <2>0, <2>6 DEF Drained, response, screen, Order, Complete, Mine
  <2>7. CASE Wake(c) \/ Deadline(c)
    BY <1>1, <2>7, OrderSend, OrderClose DEF Wake, Deadline
  <2>8. CASE Heartbeat(c) \/ Elapse(c)
    BY <1>1, <2>0, <2>8 DEF Heartbeat, Elapse, Moves, reading, screen, Order, Complete, Mine
  <2>9. CASE Disconnect(c)
    BY <2>9, OrderClose DEF Disconnect
  <2> QED
    BY <1>3, <2>1, <2>2, <2>3, <2>4, <2>5, <2>6, <2>7, <2>8, <2>9 DEF ResponseStep
<1> QED
  BY <1>2, <1>3

Ordered == \A c \in Clients : Order(c)

LEMMA OrderedHolds == Spec => []Ordered
<1>1. Init => Ordered
  BY OrderInit DEF Ordered
<1>2. IType /\ Ordered /\ [Next]_vars => Ordered'
  <2>1. ASSUME Ordered, UNCHANGED vars PROVE Ordered'
    BY <2>1, OrderUntouched DEF Ordered, vars, runner, response, reading, screen
  <2> QED
    BY <2>1, OrderRun, OrderResponse DEF Ordered, Next
<1> QED
  BY ITypeHolds, <1>1, <1>2, PTL DEF Spec

\* Keepalives, deadlines and reads that span them lose nothing: what a
\* subscribed response has sent, holds and will read is all that went out since.
THEOREM SubscribedResponsesMissNothing == Spec => []NothingMissed
<1>1. Ordered => NothingMissed
  BY DEF Ordered, NothingMissed, Order, Complete, Mine
<1> QED
  BY OrderedHolds, <1>1, PTL

-----------------------------------------------------------------------------
(* What happens to a frame that was taken.                                  *)

\* A frame read off its channel is written out unless its client has left.
LEMMA TakenStep ==
  ASSUME IType, [Next]_vars, NEW c \in Clients, Order(c), held[c] # 0, held'[c] # held[c]
  PROVE  held[c] \in seen'[c] \/ ended'[c] = "gone"
<1> USE DEF IType, ReadingType, ScreenType, ResponseType
<1>1. read[c] = "frame"
  BY DEF Holding
<1>2. ASSUME NEW to, Send(c, to) PROVE held[c] \in seen'[c]
  BY <1>2 DEF Send
<1>3. ~(UNCHANGED held)
  OBVIOUS
<1>4. PICK d \in Clients : Get(d) \/ ResponseStep(d) \/ Heartbeat(d) \/ Elapse(d) \/ Disconnect(d)
  BY <1>3 DEF Next, vars, reading, Progress, Park, Resume, End, RunStep, ParkRow, PauseFrame,
     UnparkRow, EndRow, ClosingFrame, Publish, PublishRaises
<1>5. d = c
  BY <1>4 DEF Get, ResponseStep, Start, Await, Subscribe, Pull, Drained, Wake, Deadline, Heartbeat,
     Elapse, Disconnect, CloseAs, Send, reading
<1>6. CASE Get(c) \/ Await(c) \/ Subscribe(c) \/ Pull(c) \/ Drained(c) \/ Heartbeat(c) \/ Elapse(c)
  BY <1>1, <1>6 DEF Get, Await, Subscribe, Pull, Drained, Heartbeat, Elapse, reading
<1>7. CASE Wake(c) \/ Deadline(c)
  BY <1>1, <1>2, <1>7 DEF Wake, Deadline
<1>8. CASE Disconnect(c)
  BY <1>8 DEF Disconnect, CloseAs
<1>9. ~Start(c)
  BY <1>1 DEF Order, Start
<1> QED
  BY <1>4, <1>5, <1>6, <1>7, <1>8, <1>9 DEF ResponseStep

\* No frame that was taken off its channel is dropped by an interval that ends
\* or a deadline that passes.
THEOREM TakenFramesAreSent == Spec => TakenIsSent
<1>1. ASSUME IType, Ordered, [Next]_vars
      PROVE  [\A c \in Clients : (held[c] # 0 /\ held'[c] # held[c]) =>
                held[c] \in seen'[c] \/ ended'[c] = "gone"]_vars
  BY <1>1, TakenStep DEF Ordered
<1> QED
  BY ITypeHolds, OrderedHolds, <1>1, PTL DEF Spec, TakenIsSent

-----------------------------------------------------------------------------
(* The outcome and the deadline.                                            *)

\* No frame is one that has yet to go out.
Past == /\ queue \subseteq 1 .. n
        /\ \A c \in Clients : seen[c] \subseteq 1 .. n /\ chan[c] \subseteq 1 .. n /\ held[c] <= n

\* A response that goes on, or ended at its deadline, has not sent the outcome.
Unaware == \A c \in Clients :
  conn[c] # "off" \/ ended[c] = "timeout" => closing \notin seen[c] \/ closing = 0

LEMMA UnawareInit == Init => Past /\ Unaware
  BY DEF Init, Past, Unaware

LEMMA PastStep ==
  ASSUME IType, Past, [Next]_vars
  PROVE  Past'
<1> USE DEF IType, RunnerType, ReadingType, ScreenType, ResponseType
<1>1. n \in Nat /\ 1 .. n \subseteq 1 .. (n + 1)
  OBVIOUS
<1>2. CASE Publish /\ UNCHANGED seen
  <2>1. n' = n + 1 /\ UNCHANGED held
    BY <1>2 DEF Publish
  <2>2. queue' \subseteq queue \cup {n + 1}
    BY <1>2 DEF Publish, Enqueue
  <2>3. \A c \in Clients : chan'[c] \subseteq chan[c] \cup {n + 1}
    BY <1>2 DEF Publish
  <2>4. \A S : S \subseteq (1 .. n) \cup {n + 1} => S \subseteq 1 .. (n + 1)
    BY <1>1
  <2>5. queue' \subseteq 1 .. n'
    BY <2>1, <2>2, <2>4 DEF Past
  <2>6. ASSUME NEW c \in Clients
        PROVE  seen'[c] \subseteq 1 .. n' /\ chan'[c] \subseteq 1 .. n' /\ held'[c] <= n'
    <3>1. chan'[c] \subseteq 1 .. n'
      BY <2>1, <2>3, <2>4 DEF Past
    <3>2. seen'[c] \subseteq 1 .. n'
      BY <1>1, <1>2, <2>1 DEF Past
    <3>3. held'[c] <= n'
      BY <1>1, <2>1 DEF Past
    <3> QED
      BY <3>1, <3>2, <3>3
  <2> QED
    BY <2>5, <2>6 DEF Past
<1>3. CASE UNCHANGED <<n, queue, reading, seen>>
  BY <1>3 DEF Past, reading
<1>4. ASSUME NEW c \in Clients, n' = n, queue' \subseteq queue,
             \A d \in Clients : chan'[d] \subseteq chan[d],
             \A d \in Clients : held'[d] \in {held[d], 0} \cup queue \cup chan[d],
             \A d \in Clients : seen'[d] \subseteq seen[d] \cup ({held[d]} \ {0})
      PROVE  Past'
  <2>1. ASSUME NEW d \in Clients
        PROVE  seen'[d] \subseteq 1 .. n' /\ chan'[d] \subseteq 1 .. n' /\ held'[d] <= n'
    <3>1. held[d] \in Nat /\ held[d] <= n /\ queue \subseteq 1 .. n /\ chan[d] \subseteq 1 .. n
      BY DEF Past
    <3>2. held'[d] <= n'
      <4>1. held'[d] \in {held[d], 0} \cup queue \cup chan[d] /\ n' = n
        BY <1>4
      <4>2. \A k \in 1 .. n : k <= n
        BY <1>1
      <4> HIDE DEF IType, RunnerType, ReadingType, ScreenType, ResponseType
      <4>3. CASE held'[d] \in queue \cup chan[d]
        <5>1. held'[d] \in 1 .. n
          BY <3>1, <4>3, Zenon
        <5> QED
          BY <4>1, <4>2, <5>1
      <4>4. CASE held'[d] \in {held[d], 0}
        BY <1>1, <3>1, <4>1, <4>4
      <4> QED
        BY <4>1, <4>3, <4>4
    <3>3. seen'[d] \subseteq 1 .. n'
      BY <1>1, <1>4, <3>1 DEF Past
    <3> QED
      BY <1>4, <3>1, <3>2, <3>3
  <2> QED
    BY <1>4, <2>1 DEF Past
<1>5. ASSUME NEW c \in Clients, NEW to, read[c] = "frame", Send(c, to), UNCHANGED runner
      PROVE  Past'
  <2>1. held[c] # 0 /\ \A d \in Clients : seen'[d] \subseteq seen[d] \cup ({held[d]} \ {0})
    BY <1>5 DEF Send, Holding
  <2>2. \A d \in Clients : held'[d] \in {held[d], 0} /\ chan'[d] \subseteq chan[d]
    BY <1>5 DEF Send, CloseAs
  <2> QED
    BY <1>4, <1>5, <2>1, <2>2 DEF runner
<1>6. ASSUME NEW c \in Clients, NEW why, CloseAs(c, why), UNCHANGED <<runner, seen>>
      PROVE  Past'
  <2>1. \A d \in Clients : held'[d] \in {held[d], 0} /\ chan'[d] \subseteq chan[d]
    BY <1>6 DEF CloseAs
  <2> QED
    BY <1>4, <1>6, <2>1 DEF runner
<1>7. ASSUME NEW c \in Clients, Pull(c) PROVE Past'
  <2>1. PICK f \in Frames :
          /\ held' = [held EXCEPT ![c] = f]
          /\ IF Remote
               THEN Oldest(f, chan[c]) /\ chan' = [chan EXCEPT ![c] = @ \ {f}] /\ UNCHANGED queue
               ELSE Oldest(f, queue) /\ queue' = queue \ {f} /\ UNCHANGED chan
    BY <1>7 DEF Pull
  <2>2. \A d \in Clients : held'[d] \in {held[d], 0} \cup queue \cup chan[d]
    BY <2>1 DEF Oldest
  <2>3. queue' \subseteq queue /\ \A d \in Clients : chan'[d] \subseteq chan[d]
    BY <2>1
  <2>4. UNCHANGED <<n, seen>>
    BY <1>7 DEF Pull, screen
  <2> QED
    BY <1>4, <2>2, <2>3, <2>4
<1>8. ASSUME NEW c \in Clients, Get(c) PROVE Past'
  <2>1. UNCHANGED <<runner, reading>> /\ seen' = [seen EXCEPT ![c] = {}]
    BY <1>8 DEF Get
  <2> QED
    BY <1>4, <2>1 DEF runner, reading
<1>9. CASE UNCHANGED transport /\ (Progress \/ Park \/ Resume \/ End \/ RunStep)
  BY <1>2, <1>3, <1>9 DEF Progress, Park, Resume, End, RunStep, ParkRow, PauseFrame, UnparkRow,
     EndRow, ClosingFrame, PublishRaises, screen
<1>10. ASSUME NEW c \in Clients,
              Await(c) \/ Subscribe(c) \/ Drained(c) \/ Heartbeat(c) \/ Elapse(c)
       PROVE  Past'
  BY <1>10 DEF Await, Subscribe, Drained, Heartbeat, Elapse, Past, runner, reading, screen
<1>11. ASSUME NEW c \in Clients, Start(c) PROVE Past'
  BY <1>3, <1>6, <1>11 DEF Start, runner
<1>12. ASSUME NEW c \in Clients, Wake(c) \/ Deadline(c) \/ Disconnect(c) PROVE Past'
  BY <1>5, <1>6, <1>12 DEF Wake, Deadline, Disconnect, screen
<1>13. CASE UNCHANGED vars
  BY <1>3, <1>13 DEF vars, runner, screen
<1> QED
  BY <1>7, <1>8, <1>9, <1>10, <1>11, <1>12, <1>13 DEF Next, ResponseStep

Informed(c) == conn[c] # "off" \/ ended[c] = "timeout" => closing \notin seen[c] \/ closing = 0

LEMMA UnawareStep ==
  ASSUME IType, Past, Unaware, [Next]_vars
  PROVE  Unaware'
<1> USE DEF IType, RunnerType, ScreenType, ResponseType
<1>1. ASSUME UNCHANGED closing, NEW d \in Clients,
             conn'[d] = conn[d], ended'[d] = ended[d], seen'[d] = seen[d]
      PROVE  Informed(d)'
  BY <1>1 DEF Informed, Unaware
<1>2. CASE UNCHANGED <<response, screen>>
  <2>1. closing' = closing \/ closing' = n + 1
    BY <1>2 DEF Next, vars, runner, Progress, Park, Resume, End, RunStep, ParkRow, PauseFrame,
       UnparkRow, EndRow, ClosingFrame, Publish, Get, ResponseStep, Start, Await, Subscribe, Pull,
       Drained, Wake, Deadline, Heartbeat, Elapse, Disconnect
  <2>2. \A c \in Clients : seen'[c] = seen[c] /\ (n + 1) \notin seen[c]
    BY <1>2 DEF Past, screen
  <2> QED
    BY <1>2, <2>1, <2>2 DEF Unaware, response, screen
<1>3. ASSUME NEW c \in Clients,
             Get(c) \/ ResponseStep(c) \/ Heartbeat(c) \/ Elapse(c) \/ Disconnect(c)
      PROVE  Unaware'
  <2>1. UNCHANGED closing
    BY <1>3 DEF Get, ResponseStep, Start, Await, Subscribe, Pull, Drained, Wake, Deadline, Heartbeat,
       Elapse, Disconnect, runner
  <2>2. ASSUME NEW d \in Clients, d # c PROVE Informed(d)'
    <3>1. conn'[d] = conn[d] /\ ended'[d] = ended[d] /\ seen'[d] = seen[d]
      BY <1>3, <2>2 DEF Get, ResponseStep, Start, Await, Subscribe, Pull, Drained, Wake, Deadline,
         Heartbeat, Elapse, Disconnect, CloseAs, Send, Moves, response, screen
    <3> QED
      BY <1>1, <2>1, <3>1
  <2>3. ASSUME NEW why, CloseAs(c, why), conn[c] # "off", UNCHANGED seen PROVE Informed(c)'
    BY <2>1, <2>3 DEF CloseAs, Informed, Unaware
  <2>4. ASSUME NEW to, Send(c, to), conn[c] # "off" PROVE Informed(c)'
    <3>1. seen'[c] = seen[c] \cup {held[c]}
      BY <2>4 DEF Send
    <3>2. CASE Closes(held[c])
      BY <2>1, <2>4, <3>2 DEF Send, CloseAs, Informed
    <3>3. CASE ~Closes(held[c])
      BY <2>1, <2>4, <3>1, <3>3 DEF Closes, Informed, Unaware
    <3> QED
      BY <3>2, <3>3
  <2> SUFFICES Informed(c)'
    BY <2>2 DEF Unaware, Informed
  <2>5. CASE Get(c)
    <3>1. seen' = [seen EXCEPT ![c] = {}]
      BY <2>5 DEF Get
    <3>2. seen'[c] = {}
      BY <3>1
    <3> QED
      BY <3>2 DEF Informed
  <2>6. CASE Start(c)
    <3>1. CASE CloseAs(c, "outcome")
      BY <3>1 DEF CloseAs, Informed
    <3>2. CASE conn' = [conn EXCEPT ![c] = "top"]
      BY <2>1, <2>6, <3>2 DEF Start, Informed, Unaware
    <3> QED
      BY <2>6, <3>1, <3>2 DEF Start
  <2>7. CASE Await(c) \/ Heartbeat(c)
    BY <2>1, <2>7 DEF Await, Heartbeat, Moves, screen, Informed, Unaware
  <2>8. CASE Subscribe(c) \/ Pull(c) \/ Drained(c) \/ Elapse(c)
    BY <1>1, <2>1, <2>8 DEF Subscribe, Pull, Drained, Elapse, response, screen
  <2>9. CASE Wake(c) \/ Deadline(c)
    BY <2>3, <2>4, <2>9 DEF Wake, Deadline, screen
  <2>10. CASE Disconnect(c)
    BY <2>3, <2>10 DEF Disconnect, screen
  <2> QED
    BY <1>3, <2>5, <2>6, <2>7, <2>8, <2>9, <2>10 DEF ResponseStep
<1>4. Next => UNCHANGED <<response, screen>> \/ \E c \in Clients :
        Get(c) \/ ResponseStep(c) \/ Heartbeat(c) \/ Elapse(c) \/ Disconnect(c)
  BY DEF Next, Progress, Park, Resume, End, RunStep, ParkRow, PauseFrame, UnparkRow, EndRow,
     ClosingFrame
<1> QED
  BY <1>2, <1>3, <1>4 DEF vars

\* A client told to reconnect was not told the outcome in the same breath.
THEOREM TimeoutsAreNotOutcomes == Spec => []TimeoutMeansGoingOn
<1>1. Unaware => TimeoutMeansGoingOn
  BY DEF Unaware, TimeoutMeansGoingOn
<1> QED
  BY ITypeHolds, UnawareInit, PastStep, UnawareStep, <1>1, PTL DEF Spec

-----------------------------------------------------------------------------
(* The question of a pause.                                                 *)

Attached(c) == conn[c] \in {"top", "wait"}

\* Where the question is for a response: in what it replayed, on its way, or on
\* the screen.
Asked(c) ==
  /\ got[c].parks <= parks
  /\ conn[c] = "routed" => seen[c] = {} /\ (~Remote => got[c].status = "live")
  /\ Remote /\ read[c] = "pending" => sub[c]
  /\ Attached(c) /\ got[c] = Job("parked") => shown[c] = parks
  /\ conn[c] # "off" /\ pause \in seen[c] => shown[c] = parks
  /\ ~Remote /\ Clients = {c} /\ run = "parked" /\ Attached(c)
       => pause \in queue \/ held[c] = pause \/ shown[c] = parks
  /\ ~Remote /\ run = "parked" => pause # 0

Asking == \A c \in Clients : Asked(c)

LEMMA AskingInit == Init => Asking
  BY DEF Init, Asking, Asked, Attached

\* A step of the run: its pause is the newest frame, and a new pause outdates
\* what responses were built from.
LEMMA AskedRun ==
  ASSUME IType, Past, UNCHANGED transport, Progress \/ Park \/ Resume \/ End \/ RunStep,
         NEW c \in Clients, Order(c), Asked(c)
  PROVE  Asked(c)'
<1> USE DEF IType, RunnerType, ResponseType, ReadingType, ScreenType
<1>1. UNCHANGED <<conn, got, read, sub, held, seen, shown>>
  BY DEF Progress, Park, Resume, End, RunStep, ParkRow, PauseFrame, UnparkRow, EndRow,
     ClosingFrame, Publish, PublishRaises, response, screen, reading
<1>2. Remote' = Remote
  BY DEF Remote
<1>3. n \in Nat /\ n + 1 \notin seen[c] /\ 0 \notin seen[c]
  BY DEF Past, Frames
<1>4. CASE UNCHANGED <<parks, pause>> /\ (run' = "parked" => run = "parked" \/ Remote)
           /\ (~Remote /\ run' = "parked" => UNCHANGED queue)
  BY <1>1, <1>2, <1>4 DEF Asked, Attached, Job
<1>5. CASE Park
  <2>1. parks' = parks + 1 /\ parks \in Nat /\ got[c].parks <= parks
        /\ got[c].parks \in Nat
    BY <1>5 DEF Park, Asked
  <2>2. got[c] # Job("parked")'
    BY <2>1 DEF Job
  <2>3. pause' \notin seen[c]
    BY <1>3, <1>5 DEF Park, Publish
  <2>4. ~Remote => pause' \in queue'
    BY <1>5 DEF Park, Publish, Enqueue
  <2>5. ~Remote => pause' # 0
    BY <1>3, <1>5 DEF Park, Publish
  <2> QED
    BY <1>1, <1>2, <2>1, <2>2, <2>3, <2>4, <2>5 DEF Asked, Attached
<1>6. CASE PauseFrame /\ Publish /\ pause' = n'
  <2>1. UNCHANGED parks /\ pause' \notin seen[c]
    BY <1>3, <1>6 DEF PauseFrame, Publish
  <2>2. Job("parked")' = Job("parked")
    BY <2>1 DEF Job
  <2>3. ~Remote => pause' \in queue'
    BY <1>6 DEF Publish, Enqueue
  <2>4. pause' # 0
    BY <1>3, <1>6 DEF Publish
  <2> QED
    BY <1>1, <1>2, <2>1, <2>2, <2>3, <2>4 DEF Asked, Attached
<1>7. CASE PauseFrame /\ PublishRaises /\ UNCHANGED pause
  BY <1>4, <1>7 DEF PauseFrame, PublishRaises
<1>8. CASE Progress \/ Resume \/ End \/ ParkRow \/ UnparkRow \/ EndRow \/ ClosingFrame
  BY <1>4, <1>8 DEF Progress, Resume, End, ParkRow, UnparkRow, EndRow, ClosingFrame, Goes
<1> QED
  BY <1>5, <1>6, <1>7, <1>8 DEF RunStep, PauseFrame

\* The frame of the pause is shown when it is sent, and nothing else hides it.
LEMMA AskedSend ==
  ASSUME IType, NEW c \in Clients, Asked(c), read[c] = "frame", Attached(c),
         NEW to, Send(c, to), UNCHANGED <<transport, run, n, parks, pause, queue>>
  PROVE  Asked(c)'
<1> USE DEF IType, ResponseType, ReadingType, ScreenType
<1>1. Remote' = Remote /\ Job("parked")' = Job("parked") /\ got' = got
  BY DEF Remote, Job, Send, CloseAs
<1>2. CASE Closes(held[c]) \/ to # "top"
  <2>1. conn'[c] = "off" /\ read'[c] = "none"
    BY <1>2 DEF Send, CloseAs
  <2> QED
    BY <1>1, <2>1 DEF Asked, Attached
<1>3. CASE ~Closes(held[c]) /\ to = "top"
  <2>1. /\ conn'[c] = "top" /\ read'[c] = "none" /\ held'[c] = 0
        /\ seen'[c] = seen[c] \cup {held[c]}
        /\ shown'[c] = IF held[c] = pause THEN parks ELSE shown[c]
    BY <1>3 DEF Send
  <2> QED
    BY <1>1, <2>1 DEF Asked, Attached
<1> QED
  BY <1>2, <1>3

\* A response replays the pause it finds, and keeps looking for the next.
LEMMA AskedResponse ==
  ASSUME IType, Past, NEW d \in Clients,
         Get(d) \/ ResponseStep(d) \/ Heartbeat(d) \/ Elapse(d) \/ Disconnect(d),
         NEW c \in Clients, Order(c), Asked(c)
  PROVE  Asked(c)'
<1> USE DEF IType, RunnerType, ResponseType, ReadingType, ScreenType
<1>1. UNCHANGED <<transport, run, n, parks, pause>>
  BY DEF Get, ResponseStep, Start, Await, Subscribe, Pull, Drained, Wake, Deadline, Heartbeat,
     Elapse, Disconnect, runner
<1>2. Remote' = Remote /\ Job("parked")' = Job("parked")
  BY <1>1 DEF Remote, Job
<1>3. CASE c # d
  <2>1. /\ sub'[c] = sub[c] /\ held'[c] = held[c] /\ read'[c] = read[c] /\ seen'[c] = seen[c]
        /\ conn'[c] = conn[c] /\ got'[c] = got[c] /\ shown'[c] = shown[c]
    <3>1. ASSUME NEW why, CloseAs(d, why)
          PROVE  /\ sub'[c] = sub[c] /\ held'[c] = held[c] /\ read'[c] = read[c]
                 /\ conn'[c] = conn[c] /\ got'[c] = got[c]
      BY <1>3, <3>1 DEF CloseAs
    <3>2. CASE Get(d)
      BY <1>3, <3>2 DEF Get, Moves, reading
    <3>3. CASE Start(d)
      BY <1>3, <3>1, <3>3 DEF Start, reading
    <3>4. CASE Await(d) \/ Subscribe(d) \/ Pull(d) \/ Drained(d)
      BY <1>3, <3>4 DEF Await, Subscribe, Pull, Drained, Moves, response, screen
    <3>5. ASSUME NEW to, Send(d, to)
          PROVE  <2>1
      BY <1>3, <3>1, <3>5 DEF Send
    <3>6. CASE Wake(d) \/ Deadline(d)
      BY <3>1, <3>5, <3>6 DEF Wake, Deadline, screen
    <3>7. CASE Heartbeat(d) \/ Elapse(d)
      BY <1>3, <3>7 DEF Heartbeat, Elapse, Moves, reading, screen
    <3>8. CASE Disconnect(d)
      BY <3>1, <3>8 DEF Disconnect, screen
    <3> QED
      BY <3>2, <3>3, <3>4, <3>6, <3>7, <3>8 DEF ResponseStep
  <2>2. Clients # {c}
    BY <1>3
  <2> QED
    BY <1>1, <1>2, <2>1, <2>2 DEF Asked, Attached
<1>4. CASE c = d
  <2>1. CASE Get(c)
    <3>1. /\ conn'[c] = "routed" /\ seen'[c] = {} /\ read' = read /\ sub' = sub
          /\ got'[c].parks = parks /\ (~Remote => got'[c].status = "live") /\ conn[c] = "off"
      BY <2>1 DEF Get, Moves, Job, reading
    <3> QED
      BY <1>1, <1>2, <3>1 DEF Asked, Attached, Order
  <2>2. CASE Start(c)
    <3> DEFINE j == IF got[c].status = "live" THEN Job(Live) ELSE got[c]
    <3>1. CASE HasEnded(j)
      <4>1. conn'[c] = "off" /\ read'[c] = "none" /\ got' = got
        BY <2>2, <3>1 DEF Start, CloseAs
      <4> QED
        BY <1>1, <1>2, <4>1 DEF Asked, Attached
    <3>2. CASE ~HasEnded(j)
      <4>1. /\ conn'[c] = "top" /\ got'[c] = j /\ shown'[c] = Replays(j) /\ seen' = seen
            /\ read' = read /\ sub' = sub /\ conn[c] = "routed"
        BY <2>2, <3>2 DEF Start, reading
      <4>2. seen[c] = {} /\ read[c] = "none" /\ j.parks <= parks
        BY <4>1 DEF Asked, Order, Job
      <4>3. j = Job("parked") => Replays(j) = parks
        BY DEF Replays, Job
      <4>4. ~Remote /\ run = "parked" => j = Job("parked")
        BY <4>1 DEF Asked, Live
      <4> QED
        BY <1>1, <1>2, <4>1, <4>2, <4>3, <4>4 DEF Asked, Attached
    <3> QED
      BY <3>1, <3>2
  <2>3. CASE Await(c)
    BY <1>1, <1>2, <2>3 DEF Await, Moves, screen, runner, Asked, Attached
  <2>4. CASE Subscribe(c)
    BY <1>1, <1>2, <2>4 DEF Subscribe, response, screen, runner, Asked, Attached
  <2>5. CASE Pull(c)
    <3>1. /\ read'[c] = "frame" /\ held[c] = 0 /\ read[c] = "pending"
          /\ UNCHANGED <<conn, got, sub, seen, shown>>
      BY <2>5 DEF Pull, response, screen, Holding
    <3>2. ~Remote => queue' = queue \ {held'[c]}
      BY <2>5 DEF Pull
    <3>3. ~Remote /\ pause \in queue => pause \in queue' \/ held'[c] = pause
      BY <3>2
    <3> QED
      BY <1>1, <1>2, <3>1, <3>3 DEF Asked, Attached
  <2>6. CASE Drained(c)
    BY <1>1, <1>2, <2>6 DEF Drained, response, screen, runner, Asked, Attached
  <2>7. ASSUME NEW why, CloseAs(c, why) PROVE Asked(c)'
    <3>1. conn'[c] = "off" /\ read'[c] = "none" /\ got' = got
      BY <2>7 DEF CloseAs
    <3> QED
      BY <1>1, <1>2, <3>1 DEF Asked, Attached
  <2>8. CASE Wake(c) \/ Deadline(c)
    BY <1>1, <2>7, <2>8, AskedSend DEF Wake, Deadline, Attached, runner
  <2>9. CASE Heartbeat(c) \/ Elapse(c)
    BY <1>1, <1>2, <2>9 DEF Heartbeat, Elapse, Moves, reading, screen, runner, Asked, Attached
  <2>10. CASE Disconnect(c)
    BY <2>7, <2>10 DEF Disconnect
  <2> QED
    BY <1>4, <2>1, <2>2, <2>3, <2>4, <2>5, <2>6, <2>8, <2>9, <2>10 DEF ResponseStep
<1> QED
  BY <1>3, <1>4

LEMMA AskingHolds == Spec => [](Asking /\ Past)
<1>1. Init => Asking /\ Past
  BY AskingInit, UnawareInit
<1>2. IType /\ Ordered /\ Asking /\ Past /\ [Next]_vars => Asking' /\ Past'
  <2>1. ASSUME Asking, UNCHANGED vars PROVE Asking'
    BY <2>1 DEF Asking, Asked, Attached, Remote, Job, vars, runner, response, reading, screen
  <2> QED
    BY <2>1, PastStep, AskedRun, AskedResponse DEF Asking, Ordered, Next
<1> QED
  BY ITypeHolds, OrderedHolds, <1>1, <1>2, PTL DEF Spec

\* A client before a silent stream has been shown the question of the pause,
\* if its response found the row parked, subscribed before the frame went out,
\* or is the only one that reads the in-memory queue.
THEOREM PausesReachClients == Spec => []PauseReaches
<1>1. ASSUME IType, Ordered, Asking, run = "parked", NEW c \in Clients, Quiet(c),
             \/ got[c] = Job("parked")
             \/ Remote /\ from[c] < pause
             \/ ~Remote /\ Clients = {c}
      PROVE  shown[c] = parks
  <2>0. Asked(c) /\ Order(c) /\ Attached(c) /\ read[c] = "pending" /\ held[c] = 0
        /\ chan[c] = {} /\ queue = {}
    BY <1>1 DEF Asking, Ordered, Quiet, Attached, IType, Holding, ReadingType
  <2>1. CASE got[c] = Job("parked")
    BY <2>0, <2>1 DEF Asked
  <2>2. CASE Remote /\ from[c] < pause
    <3>1. Complete(c)
      BY <2>0, <2>2 DEF Asked, Order
    <3>2. pause \in (from[c] + 1) .. n
      BY <1>1, <2>2 DEF IType, RunnerType, ReadingType
    <3>3. pause \in seen[c]
      BY <2>0, <3>1, <3>2 DEF Complete, Mine
    <3> QED
      BY <2>0, <3>3 DEF Asked, Attached
  <2>3. CASE ~Remote /\ Clients = {c}
    BY <1>1, <2>0, <2>3 DEF Asked
  <2> QED
    BY <1>1, <2>1, <2>2, <2>3
<1>2. IType /\ Ordered /\ Asking => PauseReaches
  BY <1>1 DEF PauseReaches
<1> QED
  BY ITypeHolds, OrderedHolds, AskingHolds, <1>2, PTL

-----------------------------------------------------------------------------
(* The runner as the rest of the API sees it.                               *)

\* A step of the run moves the row as JobOutcome lets it, or leaves it; the
\* closing frame goes out once the row shows the outcome.
LEMMA RunFollows ==
  ASSUME IType, UNCHANGED transport, Progress \/ Park \/ Resume \/ End \/ RunStep
  PROVE  [Outcome!Next]_(Outcome!vars)
<1> USE DEF Row, Live, Outcome!Next, Outcome!vars
<1>1. CASE Progress
  BY <1>1 DEF Progress, Goes
<1>2. CASE Park \/ ParkRow
  BY <1>2 DEF Park, ParkRow, Goes, Outcome!Park, Outcome!Parked
<1>3. CASE PauseFrame
  BY <1>3 DEF PauseFrame
<1>4. CASE Resume \/ UnparkRow
  BY <1>4 DEF Resume, UnparkRow, Goes, Outcome!Resume, Outcome!Parked
<1>5. CASE End \/ EndRow
  BY <1>5 DEF End, EndRow, Goes, Outcome!Fail, Outcome!Open, Outcome!Parked
<1>6. CASE ClosingFrame
  <2>1. run = "endFrame" /\ run' = "over"
    BY <1>6 DEF ClosingFrame
  <2>2. CASE closing' = closing
    BY <2>1, <2>2
  <2>3. CASE Publish /\ closing' = n'
    <3>1. closing' # 0
      BY <2>3 DEF Publish, IType, RunnerType
    <3> QED
      BY <2>1, <3>1 DEF Outcome!Tell, Outcome!Terminal
  <2> QED
    BY <1>6, <2>2, <2>3 DEF ClosingFrame
<1> QED
  BY <1>1, <1>2, <1>3, <1>4, <1>5, <1>6 DEF RunStep

\* From its start on, the row and the closing frame of this runner are those
\* of JobOutcome, which JobRuntime implements: what the responses are modelled
\* against is what a job does (run_job, _park_until_resumed, _unpark).
THEOREM RunnerFollowsOutcome == Spec => OutcomeFollowed
<1>1. ASSUME IType, [Next]_vars PROVE [Outcome!Next]_(Outcome!vars)
  <2>1. CASE UNCHANGED <<run, closing>>
    BY <2>1 DEF Row, Live, Outcome!vars
  <2>2. CASE \E c \in Clients : Get(c) \/ ResponseStep(c) \/ Heartbeat(c) \/ Elapse(c) \/ Disconnect(c)
    <3>1. UNCHANGED <<run, closing>>
      BY <2>2 DEF runner, Get, ResponseStep, Start, Await, Subscribe, Pull, Drained, Wake, Deadline,
         Heartbeat, Elapse, Disconnect
    <3> QED
      BY <2>1, <3>1
  <2>3. CASE UNCHANGED transport /\ (Progress \/ Park \/ Resume \/ End \/ RunStep)
    BY <1>1, <2>3, RunFollows
  <2> QED
    BY <1>1, <2>1, <2>2, <2>3 DEF Next, vars, runner
<1>2. IType /\ [Next]_vars => [Outcome!Next]_(Outcome!vars)
  BY <1>1
<1> QED
  BY <1>2, ITypeHolds, PTL DEF Spec, OutcomeFollowed
=============================================================================
