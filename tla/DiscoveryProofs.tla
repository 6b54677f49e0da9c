--------------------------- MODULE DiscoveryProofs ---------------------------
(***************************************************************************)
(* Proofs about Discovery, for any devices, operations and offers.         *)
(*                                                                         *)
(* Discovery refines BLECentral by adding to its steps, so all that was    *)
(* proved of the central holds; the invariant of its queue tells which     *)
(* steps of a discovery, and which writes, are still to come.              *)
(***************************************************************************)
EXTENDS Discovery, BLECentralProofs

DiscoverSteps == {"discoverServices", "discoverCharacteristics"}
DiscoverDue(q) == \E i \in DOMAIN q : q[i].op \in DiscoverSteps

\* A device is being discovered as long as a step of that is due, and is
\* connected all the while.
StepsMatch ==
  /\ Len(steps) <= 1
  /\ steps # <<>> <=> DiscoverDue(reportQueue) \/ DiscoverDue(draining)
  /\ \A k \in DOMAIN steps : connection[steps[k]] # None

DiscoveryInv ==
  /\ QueueInv
  /\ DiscoveryTypeOK
  /\ StepsMatch
  /\ BuffersOfPendingWrites

\* The actions that BuffersOfPendingWrites speaks of.
PendingWrites(q) ==
  {q[k].id : k \in {j \in DOMAIN q : q[j].op = "write" /\ isPending(q[j])}}

-----------------------------------------------------------------------------
(* Every step is a step of the central                                     *)

\* What Discovery adds to a step does not change what the central does.
LEMMA CentralStep == ASSUME [DiscoveryNext]_discoveryVars PROVE [Next]_vars
<1>1. ASSUME NEW d \in Devices, NEW c \in Chars, ReadCharacteristic(d, c) \/ WriteCharacteristic(d, c)
      PROVE  Next
  BY <1>1 DEF ReadCharacteristic, WriteCharacteristic, Request, Next
<1>2. ASSUME NEW g \in gattlib, NEW peer \in {g.dev, None}, Connected(g, peer) PROVE Next
  BY <1>2 DEF Connected, Answer, Deliver, Next
<1>3. ASSUME NEW found \in BOOLEAN,
             PerformServiceDiscovery(found) \/ PerformCharacteristicsDiscovery(found)
      PROVE  Next
  BY <1>3 DEF PerformServiceDiscovery, PerformCharacteristicsDiscovery, RunReport, Tick, Next
<1>4. CASE TriggerFront
  BY <1>4 DEF TriggerFront, FrontTurn, Tick, Next
<1>5. CASE Elsewhere
  <2>1. OtherRequest => Request
    BY DEF OtherRequest, Request
  <2>2. ASSUME NEW g \in gattlib, DeviceDiscovered(g) \/ OtherAnswer(g) PROVE Deliver
    BY <2>2 DEF OtherAnswer, Answer, Deliver
  <2>3. OtherTick => Tick
    BY DEF OtherTick, Tick, RunReport, FrontTurn
  <2>4. QED
    BY <1>5, <2>1, <2>2, <2>3 DEF Elsewhere, Next
<1>6. CASE UNCHANGED discoveryVars
  BY <1>6 DEF discoveryVars
<1>7. QED
  BY <1>1, <1>2, <1>3, <1>4, <1>5, <1>6 DEF DiscoveryNext

\* Discovery implements BLECentral: whatever is proved of the central, by the
\* code that fills and reads the maps too (BLECentral.cpp:1012-1160).
THEOREM DiscoveryIsCentral == DiscoverySpec => Spec
<1>1. DiscoveryInit => Init
  BY DEF DiscoveryInit
<1>2. [DiscoveryNext]_discoveryVars => [Next]_vars
  BY CentralStep
<1>3. QED
  BY <1>1, <1>2, PTL DEF DiscoverySpec, Spec

-----------------------------------------------------------------------------
(* Queues of actions and of callbacks                                      *)

\* A new action adds to the pending writes if it is one.
LEMMA AppendWrites ==
  ASSUME NEW q \in Seq(Actions), NEW a \in Actions, a.state = "Pending"
  PROVE  PendingWrites(Append(q, a)) = PendingWrites(q) \cup (IF a.op = "write" THEN {a.id} ELSE {})
<1> DEFINE q2 == Append(q, a)
<1>1. /\ DOMAIN q2 = 1..(Len(q) + 1) /\ DOMAIN q = 1..Len(q) /\ Len(q) \in Nat
      /\ \A k \in 1..Len(q) : q2[k] = q[k]
      /\ q2[Len(q) + 1] = a
  OBVIOUS
<1> HIDE DEF q2
<1>2. \A k \in DOMAIN q : k \in DOMAIN q2 /\ q2[k] = q[k]
  BY <1>1
<1>3. Len(q) + 1 \in DOMAIN q2 /\ isPending(a)
  BY <1>1 DEF isPending
<1>4. \A k \in DOMAIN q2 : k \in DOMAIN q \/ k = Len(q) + 1
  BY <1>1
<1>5. PendingWrites(q2) = PendingWrites(q) \cup (IF a.op = "write" THEN {a.id} ELSE {})
  BY <1>1, <1>2, <1>3, <1>4 DEF PendingWrites
<1>6. QED
  BY <1>5 DEF q2

\* Marking the first action takes it, and no other, from the pending writes.
LEMMA MarkWrites ==
  ASSUME QueueInv, asyncActions # <<>>, NEW state \in {"Triggered", "Completed"}
  PROVE  PendingWrites(withState(state)) = PendingWrites(asyncActions) \ {front.id}
<1> DEFINE q == asyncActions
           q2 == withState(state)
<1>1. /\ q \in Seq(Actions) /\ Len(q) \in Nat \ {0} /\ nextId \in Nat
      /\ \A k \in DOMAIN q : q[k].id = nextId - Len(q) + k - 1
  BY DEF QueueInv, TypeOK, QueueMatches
<1>2. /\ q2 \in Seq(Actions) /\ Len(q2) = Len(q)
      /\ q2[1].state = state
      /\ \A k \in 2..Len(q) : q2[k] = q[k]
  <2>1. q2[1] = [front EXCEPT !.state = state] /\ front \in Actions
    BY <1>1, WithStateLemma, FrontLemma
  <2>2. q2[1].state = state
    BY <2>1 DEF Actions
  <2>3. QED
    BY <1>1, <2>2, WithStateLemma
<1>3. DOMAIN q = 1..Len(q) /\ DOMAIN q2 = 1..Len(q) /\ front = q[1]
  BY <1>1, <1>2 DEF front
<1> HIDE DEF q, q2
<1>4. \A k \in DOMAIN q : k = 1 \/ (k \in 2..Len(q) /\ q[k].id # front.id)
  BY <1>1, <1>3
<1>5. ~isPending(q2[1])
  BY <1>2 DEF isPending
<1>6. PendingWrites(q2) = PendingWrites(q) \ {front.id}
  BY <1>2, <1>3, <1>4, <1>5 DEF PendingWrites
<1>7. QED
  BY <1>6 DEF q, q2

\* If it was not pending, marking the first action changes nothing.
LEMMA MarkStartedWrites ==
  ASSUME QueueInv, asyncActions # <<>>, ~isPending(front)
  PROVE  PendingWrites(withState("Completed")) = PendingWrites(asyncActions)
<1>1. /\ asyncActions \in Seq(Actions) /\ Len(asyncActions) \in Nat \ {0} /\ nextId \in Nat
      /\ \A k \in DOMAIN asyncActions : asyncActions[k].id = nextId - Len(asyncActions) + k - 1
  BY DEF QueueInv, TypeOK, QueueMatches
<1>2. DOMAIN asyncActions = 1..Len(asyncActions) /\ front = asyncActions[1]
  BY <1>1 DEF front
<1>3. \A k \in DOMAIN asyncActions : k # 1 => asyncActions[k].id # front.id
  BY <1>1, <1>2
<1>4. front.id \notin PendingWrites(asyncActions)
  BY <1>2, <1>3 DEF PendingWrites
<1>5. QED
  BY <1>4, MarkWrites

\* Popping an action that is done removes no pending write.
LEMMA PopWrites ==
  ASSUME NEW q \in Seq(Actions), q # <<>>, isDone(q[1])
  PROVE  PendingWrites(Tail(q)) = PendingWrites(q)
<1> DEFINE q2 == Tail(q)
<1>1. /\ DOMAIN q = 1..Len(q) /\ Len(q) \in Nat \ {0}
      /\ DOMAIN q2 = 1..(Len(q) - 1)
      /\ \A k \in 1..(Len(q) - 1) : q2[k] = q[k + 1]
  OBVIOUS
<1> HIDE DEF q2
<1>2. \A k \in DOMAIN q2 : k + 1 \in DOMAIN q /\ q2[k] = q[k + 1]
  BY <1>1
<1>3. \A k \in DOMAIN q : k = 1 \/ (k - 1 \in DOMAIN q2 /\ q2[k - 1] = q[k])
  <2>1. ASSUME NEW k \in DOMAIN q, k # 1 PROVE k - 1 \in 1..(Len(q) - 1) /\ (k - 1) + 1 = k
    BY <1>1, <2>1
  <2>2. QED
    BY <1>1, <2>1
<1>4. ~isPending(q[1])
  BY DEF isPending, isDone
<1>5. PendingWrites(q2) = PendingWrites(q)
  BY <1>2, <1>3, <1>4 DEF PendingWrites
<1>6. QED
  BY <1>5 DEF q2

\* Pushing a callback makes a step due if it is one.
LEMMA AppendDue ==
  ASSUME NEW q \in Seq(Reports), NEW r \in Reports
  PROVE  DiscoverDue(Append(q, r)) <=> DiscoverDue(q) \/ r.op \in DiscoverSteps
<1> DEFINE q2 == Append(q, r)
<1>1. /\ DOMAIN q2 = 1..(Len(q) + 1) /\ DOMAIN q = 1..Len(q) /\ Len(q) \in Nat
      /\ \A k \in 1..Len(q) : q2[k] = q[k]
      /\ q2[Len(q) + 1] = r
  OBVIOUS
<1> HIDE DEF q2
<1>2. \A i \in DOMAIN q : i \in DOMAIN q2 /\ q2[i] = q[i]
  BY <1>1
<1>3. Len(q) + 1 \in DOMAIN q2 /\ \A i \in DOMAIN q2 : i \in DOMAIN q \/ i = Len(q) + 1
  BY <1>1
<1>4. DiscoverDue(q2) <=> DiscoverDue(q) \/ r.op \in DiscoverSteps
  BY <1>1, <1>2, <1>3 DEF DiscoverDue
<1>5. QED
  BY <1>4 DEF q2

\* Taking the first callback leaves the others due.
LEMMA TailDue ==
  ASSUME NEW q \in Seq(Reports), q # <<>>
  PROVE  DiscoverDue(q) <=> DiscoverDue(Tail(q)) \/ Head(q).op \in DiscoverSteps
<1> DEFINE q2 == Tail(q)
<1>1. /\ DOMAIN q = 1..Len(q) /\ Len(q) \in Nat \ {0} /\ Head(q) = q[1]
      /\ DOMAIN q2 = 1..(Len(q) - 1)
      /\ \A k \in 1..(Len(q) - 1) : q2[k] = q[k + 1]
  OBVIOUS
<1> HIDE DEF q2
<1>2. \A k \in DOMAIN q2 : k + 1 \in DOMAIN q /\ q2[k] = q[k + 1]
  BY <1>1
<1>3. \A k \in DOMAIN q : k = 1 \/ (k - 1 \in DOMAIN q2 /\ q2[k - 1] = q[k])
  <2>1. ASSUME NEW k \in DOMAIN q, k # 1 PROVE k - 1 \in 1..(Len(q) - 1) /\ (k - 1) + 1 = k
    BY <1>1, <2>1
  <2>2. QED
    BY <1>1, <2>1
<1>4. 1 \in DOMAIN q
  BY <1>1
<1>5. DiscoverDue(q) <=> DiscoverDue(q2) \/ q[1].op \in DiscoverSteps
  BY <1>2, <1>3, <1>4 DEF DiscoverDue
<1>6. QED
  BY <1>1, <1>5 DEF q2

\* No step is due where none of the library's callbacks is.
LEMMA NoOwnNoDue == \A q : NoOwnReport(q) => ~DiscoverDue(q)
BY DEF NoOwnReport, DiscoverDue, OwnReports, ConnectSteps, DiscoverSteps

-----------------------------------------------------------------------------
(* The buffers of writes                                                   *)

\* What is queued, but for a write, is no pending write.
LEMMA EnqueueOther ==
  ASSUME QueueInv, NEW queue \in Seq(Actions), NEW op \in QueuedOps, op # "write",
         NEW d \in Devices \cup {None}, queueAsyncAction(queue, op, d)
  PROVE  PendingWrites(asyncActions') = PendingWrites(queue)
<1> DEFINE a == [id |-> nextId, op |-> op, dev |-> d, state |-> "Pending"]
<1>1. nextId \in Ids /\ asyncActions' = Append(queue, a)
  BY DEF queueAsyncAction
<1>2. a \in Actions /\ a.state = "Pending" /\ a.op # "write"
  BY <1>1 DEF Actions
<1> HIDE DEF a
<1>3. QED
  BY <1>1, <1>2, AppendWrites

\* A first action that is running is concluded: it was no pending write.
LEMMA ConcludeWrites ==
  ASSUME QueueInv, NEW result, asyncActions = <<>> \/ isRunning(front), currentOp(result)
  PROVE  PendingWrites(asyncActions') = PendingWrites(asyncActions)
<1>1. CASE asyncActions = <<>>
  BY <1>1 DEF currentOp
<1>2. CASE asyncActions # <<>>
  <2>1. asyncActions' = withState("Completed") /\ ~isPending(front)
    BY <1>2 DEF currentOp, completedWith, isRunning, isPending
  <2>2. QED
    BY <1>2, <2>1, MarkStartedWrites
<1>3. QED
  BY <1>1, <1>2

\* Requests other than writes leave the pending writes alone.
LEMMA RequestWrites ==
  ASSUME BLECentralAssumption, QueueInv, OtherRequest \/ \E d \in Devices : Read(d)
  PROVE  PendingWrites(asyncActions') = PendingWrites(asyncActions)
<1>0. asyncActions \in Seq(Actions)
  BY DEF QueueInv, TypeOK
<1>1. CASE \/ AdapterOpen \/ AdapterClose \/ SetAutoDiscoverOnConnect
           \/ \E op \in {"enable", "enableNull"} : Enable(op)
  BY <1>1 DEF AdapterOpen, AdapterClose, SetAutoDiscoverOnConnect, Enable
<1>2. ASSUME NEW op \in ScanOps, Scan(op) PROVE PendingWrites(asyncActions') = PendingWrites(asyncActions)
  BY <1>0, <1>2, EnqueueOther DEF Scan, ScanOps, QueuedOps
<1>3. CASE StopScan
  <2>1. CASE is_scanning /\ scanRuns
    <3>1. /\ asyncActions # <<>> /\ ~isPending(front)
          /\ queueAsyncAction(withState("Completed"), "stopScan", None)
      BY <1>3, <2>1 DEF StopScan, scanRuns, isRunning, isPending
    <3>2. withState("Completed") \in Seq(Actions)
      BY <1>0, <3>1, WithStateLemma
    <3>3. PendingWrites(asyncActions') = PendingWrites(withState("Completed"))
      BY <3>1, <3>2, EnqueueOther DEF QueuedOps
    <3>4. QED
      BY <3>1, <3>3, MarkStartedWrites
  <2>2. CASE ~(is_scanning /\ scanRuns)
    <3>1. \E op \in {"stopScan", "stopScanDone"} : queueAsyncAction(asyncActions, op, None)
      BY <1>3, <2>2 DEF StopScan
    <3>2. QED
      BY <1>0, <3>1, EnqueueOther DEF QueuedOps
  <2>3. QED
    BY <2>1, <2>2
<1>4. ASSUME NEW d \in Devices, Connect(d) \/ Disconnect(d) \/ Read(d)
      PROVE PendingWrites(asyncActions') = PendingWrites(asyncActions)
  <2>1. \E op \in {"connect", "disconnect", "read"} : queueAsyncAction(asyncActions, op, d)
    BY <1>4 DEF Connect, Disconnect, Read, UseConnection
  <2>2. QED
    BY <1>0, <2>1, EnqueueOther DEF QueuedOps
<1>5. QED
  BY <1>1, <1>2, <1>3, <1>4 DEF OtherRequest

\* Answers find an action that is running, so they do as well.
LEMMA AnswerWrites ==
  ASSUME QueueInv, NEW g \in gattlib, DeviceDiscovered(g) \/ Answer(g)
  PROVE  PendingWrites(asyncActions') = PendingWrites(asyncActions)
<1>1. CASE DeviceDiscovered(g)
  BY <1>1 DEF DeviceDiscovered
<1>2. CASE Answer(g)
  <2>1. g.op # "startScan" /\ answers(g)
    BY <1>2 DEF Answer, ScanEnded, DeviceConnected, DeviceDisconnected, ReadAnswered, WriteAnswered
  <2>2. asyncActions # <<>> /\ isRunning(front) /\ ~isPending(front)
    BY <2>1, AnswerFinds DEF isRunning, isPending
  <2>3. CASE \E result \in {"ok", "fail"} : currentOp(result)
    BY <2>2, <2>3, ConcludeWrites
  <2>4. CASE UNCHANGED asyncActions
    BY <2>4
  <2>5. CASE readDataReceived
    BY <2>2, <2>5, MarkStartedWrites DEF readDataReceived
  <2>6. QED
    BY <1>2, <2>3, <2>4, <2>5 DEF Answer, ScanEnded, DeviceConnected, connectResult,
       DeviceDisconnected, ReadAnswered, WriteAnswered
<1>3. QED
  BY <1>1, <1>2

\* And so do the steps of a tick that trigger nothing.
LEMMA TickWrites ==
  ASSUME QueueInv, ProcessAsync \/ TakeReports \/ RunReport \/ PopDone \/ NothingToDo
  PROVE  PendingWrites(asyncActions') = PendingWrites(asyncActions)
<1>1. CASE ConnectedStep
  <2>1. runs("connected") /\ currentOp("ok")
    BY <1>1 DEF ConnectedStep
  <2>2. isRunning(front)
    BY <2>1, OwnReportRuns DEF OwnReports, ConnectSteps, Belongs
  <2>3. QED
    BY <2>1, <2>2, ConcludeWrites
<1>2. CASE PopDone
  <2>1. asyncActions \in Seq(Actions) /\ asyncActions # <<>> /\ isDone(asyncActions[1])
        /\ asyncActions' = Tail(asyncActions)
    BY <1>2 DEF PopDone, front, QueueInv, TypeOK
  <2>2. QED
    BY <2>1, PopWrites
<1>3. QED
  BY <1>1, <1>2 DEF ProcessAsync, TakeReports, NothingToDo, RunReport, DiscoverServicesStep,
     DiscoverCharacteristicsStep, DataStep, UserStep, NullStep

\* The buffers remain those of the pending writes.
LEMMA BuffersStep ==
  ASSUME BLECentralAssumption, QueueInv, BuffersOfPendingWrites, [DiscoveryNext]_discoveryVars
  PROVE  BuffersOfPendingWrites'
<1>0. buffers = PendingWrites(asyncActions) /\ asyncActions \in Seq(Actions)
  BY DEF BuffersOfPendingWrites, PendingWrites, QueueInv, TypeOK
<1> SUFFICES buffers' = PendingWrites(asyncActions')
  BY DEF BuffersOfPendingWrites, PendingWrites, isPending
<1>1. ASSUME NEW d \in Devices, NEW c \in Chars, ReadCharacteristic(d, c)
      PROVE  buffers' = PendingWrites(asyncActions')
  BY <1>0, <1>1, RequestWrites DEF ReadCharacteristic
<1>2. ASSUME NEW d \in Devices, NEW c \in Chars, WriteCharacteristic(d, c)
      PROVE  buffers' = PendingWrites(asyncActions')
  <2> DEFINE a == [id |-> nextId, op |-> "write", dev |-> d, state |-> "Pending"]
  <2>1. nextId \in Ids /\ asyncActions' = Append(asyncActions, a) /\ buffers' = buffers \cup {nextId}
    BY <1>2 DEF WriteCharacteristic, Write, UseConnection, queueAsyncAction
  <2>2. a \in Actions /\ a.state = "Pending" /\ a.op = "write" /\ a.id = nextId
    BY <2>1 DEF Actions, QueuedOps
  <2> HIDE DEF a
  <2>3. PendingWrites(Append(asyncActions, a)) = PendingWrites(asyncActions) \cup {nextId}
    BY <1>0, <2>2, AppendWrites
  <2>4. QED
    BY <1>0, <2>1, <2>3
<1>3. ASSUME NEW g \in gattlib, NEW peer \in {g.dev, None}, Connected(g, peer)
      PROVE  buffers' = PendingWrites(asyncActions')
  <2>1. Answer(g) /\ UNCHANGED buffers
    BY <1>3 DEF Connected, Answer, held
  <2>2. QED
    BY <1>0, <2>1, AnswerWrites
<1>4. ASSUME NEW found \in BOOLEAN,
             PerformServiceDiscovery(found) \/ PerformCharacteristicsDiscovery(found)
      PROVE  buffers' = PendingWrites(asyncActions')
  <2>1. RunReport /\ UNCHANGED buffers
    BY <1>4 DEF PerformServiceDiscovery, PerformCharacteristicsDiscovery, RunReport, held
  <2>2. QED
    BY <1>0, <2>1, TickWrites
<1>5. CASE TriggerFront
  <2>1. /\ asyncActions # <<>>
        /\ \E state \in {"Triggered", "Completed"} : asyncActions' = withState(state)
        /\ buffers' = buffers \ {front.id}
    BY <1>5 DEF TriggerFront, TriggerAccepted, TriggerRefused, TriggerStopScanDone, completedWith,
       released
  <2>2. QED
    BY <1>0, <2>1, MarkWrites
<1>6. CASE Elsewhere
  <2>1. UNCHANGED buffers
    BY <1>6 DEF Elsewhere, held
  <2>2. CASE OtherRequest
    BY <1>0, <2>1, <2>2, RequestWrites
  <2>3. ASSUME NEW g \in gattlib, DeviceDiscovered(g) \/ OtherAnswer(g)
        PROVE  buffers' = PendingWrites(asyncActions')
    <3>1. DeviceDiscovered(g) \/ Answer(g)
      BY <2>3 DEF OtherAnswer, Answer
    <3>2. QED
      BY <1>0, <2>1, <3>1, AnswerWrites
  <2>4. CASE OtherTick
    <3>1. ProcessAsync \/ TakeReports \/ RunReport \/ PopDone \/ NothingToDo
      BY <2>4 DEF OtherTick, RunReport
    <3>2. QED
      BY <1>0, <2>1, <3>1, TickWrites
  <2>5. QED
    BY <1>6, <2>2, <2>3, <2>4 DEF Elsewhere
<1>7. CASE UNCHANGED discoveryVars
  BY <1>0, <1>7 DEF discoveryVars, vars, held
<1>8. QED
  BY <1>1, <1>2, <1>3, <1>4, <1>5, <1>6, <1>7 DEF DiscoveryNext

-----------------------------------------------------------------------------
(* The steps of a discovery                                                *)

\* At most one step: what is left when it is taken, and when it is put back.
LEMMA OneStep ==
  ASSUME NEW s \in Seq(Devices), s # <<>>, Len(s) <= 1
  PROVE  Len(s) = 1 /\ Tail(s) = <<>> /\ Append(Tail(s), Head(s)) = s
<1>1. Len(s) \in Nat /\ Len(s) # 0
  OBVIOUS
<1>2. \A n \in Nat : n # 0 /\ n <= 1 => n = 1
  OBVIOUS
<1>3. Len(s) = 1
  BY <1>1, <1>2
<1>4. Tail(s) \in Seq(Devices) /\ Len(Tail(s)) = 0
  BY <1>3
<1>5. Tail(s) = <<>>
  BY <1>4
<1>6. s = <<s[1]>> /\ Head(s) = s[1]
  BY <1>3
<1>7. QED
  BY <1>3, <1>5, <1>6

\* What leaves the steps due, and the connection of the device, alone.
LEMMA StepsKept ==
  ASSUME StepsMatch, UNCHANGED steps, steps = <<>> \/ UNCHANGED connection,
         DiscoverDue(reportQueue') \/ DiscoverDue(draining') <=>
           DiscoverDue(reportQueue) \/ DiscoverDue(draining)
  PROVE  StepsMatch'
BY DEF StepsMatch

\* Requests push no step of a discovery.
LEMMA RequestSteps ==
  ASSUME QueueInv, StepsMatch, Request, UNCHANGED steps
  PROVE  StepsMatch'
<1>1. UNCHANGED <<connection, draining>>
  BY DEF Request, AdapterOpen, AdapterClose, SetAutoDiscoverOnConnect, Enable, Scan, StopScan,
         Connect, Disconnect, Read, Write, UseConnection
<1>2. CASE UNCHANGED reportQueue
  BY <1>1, <1>2, StepsKept
<1>3. ASSUME NEW op \in {"user", "null"}, pushReport(op, 0) PROVE StepsMatch'
  <2>1. [op |-> op, id |-> 0] \in Reports /\ op \notin DiscoverSteps /\ reportQueue \in Seq(Reports)
    BY DEF Reports, DiscoverSteps, QueueInv, TypeOK
  <2>2. DiscoverDue(reportQueue') <=> DiscoverDue(reportQueue)
    BY <1>3, <2>1, AppendDue DEF pushReport
  <2>3. QED
    BY <1>1, <2>2, StepsKept
<1>4. QED
  BY <1>2, <1>3 DEF Request, AdapterOpen, AdapterClose, SetAutoDiscoverOnConnect, Enable, Scan,
     StopScan, Connect, Disconnect, Read, Write, UseConnection

\* While gattlib owes an answer no discovery is under way; and only an answer
\* to connect() begins one.
LEMMA AnswerSteps ==
  ASSUME QueueInv, StepsMatch, NEW g \in gattlib, DeviceDiscovered(g) \/ OtherAnswer(g),
         UNCHANGED steps
  PROVE  StepsMatch'
<1>1. CASE DeviceDiscovered(g)
  BY <1>1, StepsKept DEF DeviceDiscovered, central
<1>2. CASE OtherAnswer(g)
  <2>1. g.op # "startScan" /\ answers(g) /\ UNCHANGED draining
    BY <1>2 DEF OtherAnswer, ScanEnded, DeviceDisconnected, ReadAnswered, WriteAnswered
  <2>2. /\ ~DiscoverDue(reportQueue) /\ ~DiscoverDue(draining) /\ steps = <<>>
        /\ asyncActions # <<>>
    BY <2>1, AnswerFinds, NoOwnNoDue DEF StepsMatch
  <2>3. CASE UNCHANGED reportQueue
    BY <2>1, <2>2, <2>3, StepsKept
  <2>4. CASE pushReport("data", front.id)
    <3>1. [op |-> "data", id |-> front.id] \in Reports /\ reportQueue \in Seq(Reports)
      BY <2>2, FrontLemma DEF Reports, Actions, QueueInv, TypeOK
    <3>2. ~DiscoverDue(reportQueue')
      BY <2>2, <2>4, <3>1, AppendDue DEF pushReport, DiscoverSteps
    <3>3. QED
      BY <2>1, <2>2, <3>2, StepsKept
  <2>5. QED
    BY <1>2, <2>3, <2>4 DEF OtherAnswer, ScanEnded, DeviceDisconnected, ReadAnswered,
       readDataReceived, WriteAnswered
<1>3. QED
  BY <1>1, <1>2

\* A connection is handed over: if it is to be discovered, its device is the
\* only one, and connected.
LEMMA ConnectedSteps ==
  ASSUME QueueInv, DiscoveryTypeOK, StepsMatch, NEW g \in gattlib, NEW peer \in {g.dev, None},
         Connected(g, peer)
  PROVE  StepsMatch' /\ steps' \in Seq(Devices)
<1>1. /\ g.op = "connect" /\ answers(g) /\ UNCHANGED <<draining, connected_to>>
      /\ steps \in Seq(Devices) /\ TypeOK
  BY DEF Connected, DeviceConnected, QueueInv, DiscoveryTypeOK
<1>2. ~DiscoverDue(reportQueue) /\ ~DiscoverDue(draining) /\ steps = <<>>
  BY <1>1, AnswerFinds, NoOwnNoDue DEF StepsMatch
<1>3. CASE discovers(peer) /\ connected_to # None
  <2>1. /\ connection' = [connection EXCEPT ![connected_to] = peer] /\ peer # None
        /\ pushReport("discoverServices", 0) /\ phase' = phase /\ phase = "events"
    BY <1>1, <1>3, AnswerFinds DEF Connected, DeviceConnected, discovers
  <2>2. connected_to \in Devices /\ connection'[connected_to] # None
    BY <1>1, <1>3, <2>1 DEF TypeOK
  <2>3. steps' = <<connected_to>>
    BY <1>2, <1>3, <2>1 DEF Connected
  <2>4. [op |-> "discoverServices", id |-> 0] \in Reports /\ reportQueue \in Seq(Reports)
    BY <1>1 DEF Reports, TypeOK
  <2>5. DiscoverDue(reportQueue')
    BY <2>1, <2>4, AppendDue DEF pushReport, DiscoverSteps
  <2>6. Len(steps') = 1 /\ steps' # <<>> /\ \A k \in DOMAIN steps' : steps'[k] = connected_to
    BY <2>3
  <2>7. StepsMatch'
    BY <1>1, <2>2, <2>5, <2>6 DEF StepsMatch
  <2>8. QED
    BY <2>2, <2>3, <2>7
<1>4. CASE ~(discovers(peer) /\ connected_to # None)
  <2>1. UNCHANGED <<steps, reportQueue>>
    BY <1>4 DEF Connected, DeviceConnected
  <2>2. QED
    BY <1>1, <1>2, <2>1, StepsKept
<1>5. QED
  BY <1>3, <1>4

\* The first step of a discovery puts off the second, for the same device.
LEMMA ServiceSteps ==
  ASSUME QueueInv, DiscoveryTypeOK, StepsMatch, NEW found, PerformServiceDiscovery(found)
  PROVE  StepsMatch' /\ steps' = steps /\ steps # <<>>
<1>1. /\ runs("discoverServices") /\ pushReport("discoverCharacteristics", 0)
      /\ draining # <<>> /\ Head(draining).op \in DiscoverSteps
      /\ UNCHANGED connection /\ steps \in Seq(Devices)
      /\ draining \in Seq(Reports) /\ reportQueue \in Seq(Reports)
  BY DEF PerformServiceDiscovery, DiscoverServicesStep, runs, central, DiscoverSteps,
         DiscoveryTypeOK, QueueInv, TypeOK
<1>2. steps # <<>> /\ Len(steps) = 1 /\ Tail(steps) = <<>> /\ Append(Tail(steps), Head(steps)) = steps
  <2>1. DiscoverDue(draining)
    BY <1>1, TailDue
  <2>2. steps # <<>> /\ Len(steps) <= 1
    BY <2>1 DEF StepsMatch
  <2>3. QED
    BY <1>1, <2>2, OneStep
<1>3. steps' = Append(Tail(steps), Head(steps))
  BY DEF PerformServiceDiscovery
<1>4. steps' = steps
  BY <1>2, <1>3
<1>5. [op |-> "discoverCharacteristics", id |-> 0] \in Reports
  BY DEF Reports
<1>6. DiscoverDue(reportQueue')
  BY <1>1, <1>5, AppendDue DEF pushReport, DiscoverSteps
<1>7. QED
  BY <1>1, <1>2, <1>4, <1>6 DEF StepsMatch

\* The second step is the last.
LEMMA CharacteristicsSteps ==
  ASSUME QueueInv, DiscoveryTypeOK, StepsMatch, NEW found, PerformCharacteristicsDiscovery(found)
  PROVE  StepsMatch' /\ steps' = <<>> /\ steps # <<>>
<1>1. /\ runs("discoverCharacteristics") /\ pushReport("connected", 0)
      /\ draining # <<>> /\ Head(draining).op \in DiscoverSteps
      /\ steps \in Seq(Devices) /\ steps' = Tail(steps)
      /\ draining \in Seq(Reports) /\ reportQueue \in Seq(Reports)
  BY DEF PerformCharacteristicsDiscovery, DiscoverCharacteristicsStep, runs, DiscoverSteps,
         DiscoveryTypeOK, QueueInv, TypeOK
<1>2. steps # <<>> /\ Len(steps) = 1 /\ Tail(steps) = <<>> /\ Append(Tail(steps), Head(steps)) = steps
  <2>1. DiscoverDue(draining)
    BY <1>1, TailDue
  <2>2. steps # <<>> /\ Len(steps) <= 1
    BY <2>1 DEF StepsMatch
  <2>3. QED
    BY <1>1, <2>2, OneStep
<1>3. steps' = <<>>
  BY <1>1, <1>2
<1>4. NoOwnReport(reportQueue) /\ NoOwnReport(draining')
  BY <1>1, OwnReportRuns DEF OwnReports, ConnectSteps
<1>5. [op |-> "connected", id |-> 0] \in Reports
  BY DEF Reports
<1>6. ~DiscoverDue(reportQueue') /\ ~DiscoverDue(draining')
  BY <1>1, <1>4, <1>5, NoOwnNoDue, AppendDue DEF pushReport, DiscoverSteps
<1>7. QED
  BY <1>2, <1>3, <1>6 DEF StepsMatch

\* The rest of a tick runs no step of a discovery.
LEMMA TickSteps ==
  ASSUME QueueInv, StepsMatch, UNCHANGED steps,
         OtherTick \/ TriggerAccepted \/ TriggerRefused \/ TriggerStopScanDone
  PROVE  StepsMatch'
<1>1. CASE ProcessAsync
  BY <1>1, StepsKept DEF ProcessAsync, central
<1>2. CASE TakeReports
  <2>1. /\ draining = <<>> /\ draining' = reportQueue /\ reportQueue' = <<>>
        /\ UNCHANGED connection
    BY <1>2 DEF TakeReports, central, QueueInv, WaitingInv, ReportsInPhase
  <2>2. ~DiscoverDue(<<>>)
    BY DEF DiscoverDue
  <2>3. QED
    BY <2>1, <2>2, StepsKept
<1>3. CASE ConnectedStep \/ DataStep \/ UserStep \/ NullStep
  <2>1. \E op \in {"connected", "data", "user", "null"} : runs(op)
    BY <1>3 DEF ConnectedStep, DataStep, UserStep, NullStep
  <2>2. /\ draining # <<>> /\ draining' = Tail(draining)
        /\ Head(draining).op \notin DiscoverSteps
        /\ UNCHANGED connection /\ draining \in Seq(Reports)
    BY <2>1 DEF runs, central, DiscoverSteps, QueueInv, TypeOK
  <2>3. UNCHANGED reportQueue
    BY <1>3 DEF ConnectedStep, DataStep, UserStep, NullStep
  <2>4. DiscoverDue(draining') <=> DiscoverDue(draining)
    BY <2>2, TailDue
  <2>5. QED
    BY <2>2, <2>3, <2>4, StepsKept
<1>4. CASE \/ PopDone \/ NothingToDo
           \/ TriggerAccepted \/ TriggerRefused \/ TriggerStopScanDone
  <2>1. UNCHANGED <<connection, reportQueue, draining>>
    BY <1>4 DEF PopDone, NothingToDo, TriggerAccepted, TriggerRefused, TriggerStopScanDone, returns
  <2>2. QED
    BY <2>1, StepsKept
<1>5. QED
  BY <1>1, <1>2, <1>3, <1>4 DEF OtherTick

-----------------------------------------------------------------------------
(* The maps                                                                *)

\* The device of a step is connected, to a peer that offers something.
LEMMA StepDevice ==
  ASSUME QueueInv, DiscoveryTypeOK, StepsMatch, steps # <<>>
  PROVE  /\ Head(steps) \in Devices /\ connection[Head(steps)] \in Devices
         /\ offer[connection[Head(steps)]] \in Offers
<1>1. steps \in Seq(Devices) /\ offer \in [Devices -> Offers]
      /\ connection \in [Devices -> Devices \cup {None}]
  BY DEF QueueInv, TypeOK, DiscoveryTypeOK
<1>2. 1 \in DOMAIN steps /\ Head(steps) = steps[1] /\ steps[1] \in Devices
  BY <1>1
<1>3. connection[steps[1]] # None
  BY <1>2 DEF StepsMatch
<1>4. QED
  BY <1>1, <1>2, <1>3

\* One more device at which gattlib failed, or did not.
LEMMA MissedType ==
  ASSUME missed \in [Devices -> BOOLEAN], NEW p, NEW found \in BOOLEAN
  PROVE  [missed EXCEPT ![p] = @ \/ ~found] \in [Devices -> BOOLEAN]
OBVIOUS

\* The maps and what triggers hold keep their types.
LEMMA TypesStep ==
  ASSUME BLECentralAssumption, DiscoveryAssumption, QueueInv, DiscoveryTypeOK, StepsMatch,
         [DiscoveryNext]_discoveryVars
  PROVE  DiscoveryTypeOK'
<1> USE DEF DiscoveryTypeOK
<1>1. ASSUME NEW d \in Devices, NEW c \in Chars, ReadCharacteristic(d, c) \/ WriteCharacteristic(d, c)
      PROVE  DiscoveryTypeOK'
  <2>1. /\ UNCHANGED <<discovery_done, services, characteristics, steps, offer, missed>>
        /\ refersTo(d, c) /\ buffers' \in {buffers, buffers \cup {nextId}} /\ nextId \in Ids
    BY <1>1 DEF ReadCharacteristic, WriteCharacteristic, Read, Write, UseConnection,
       queueAsyncAction, table
  <2>2. reference' \in [Ids -> {"none", "live", "dangling"}]
    BY <2>1 DEF refersTo
  <2>3. QED
    BY <2>1, <2>2
<1>2. ASSUME NEW g \in gattlib, NEW peer \in {g.dev, None}, Connected(g, peer)
      PROVE  DiscoveryTypeOK'
  <2>1. UNCHANGED <<discovery_done, services, characteristics, reference, buffers>>
    BY <1>2 DEF Connected, table, held
  <2>2. CASE peer = None
    BY <1>2, <2>2, ConnectedSteps, <2>1 DEF Connected
  <2>3. CASE peer # None
    <3>1. PICK o \in Offers : offer' = [offer EXCEPT ![peer] = o]
      BY <1>2, <2>3 DEF Connected
    <3>2. offer' \in [Devices -> Offers]
      BY <3>1
    <3>3. missed' = [missed EXCEPT ![peer] = FALSE]
      BY <1>2, <2>3 DEF Connected
    <3>4. missed' \in [Devices -> BOOLEAN]
      BY <3>3
    <3>5. steps' \in Seq(Devices)
      BY <1>2, ConnectedSteps
    <3>6. QED
      BY <2>1, <3>2, <3>4, <3>5
  <2>4. QED
    BY <2>2, <2>3
<1>3. ASSUME NEW found \in BOOLEAN, PerformServiceDiscovery(found) PROVE DiscoveryTypeOK'
  <2>1. UNCHANGED <<discovery_done, characteristics, reference, buffers, offer>>
    BY <1>3 DEF PerformServiceDiscovery, held
  <2>2. steps' = steps /\ steps # <<>>
    BY <1>3, ServiceSteps
  <2>3. services' \in [Devices -> SUBSET UNION {o.services : o \in Offers}]
    BY <1>3, <2>2, StepDevice DEF PerformServiceDiscovery
  <2>4. missed' \in [Devices -> BOOLEAN]
    BY <1>3, MissedType DEF PerformServiceDiscovery
  <2>5. QED
    BY <2>1, <2>2, <2>3, <2>4
<1>4. ASSUME NEW found \in BOOLEAN, PerformCharacteristicsDiscovery(found) PROVE DiscoveryTypeOK'
  <2> DEFINE d == Head(steps)
  <2>1. /\ UNCHANGED <<services, buffers, offer>>
        /\ discovery_done' = [discovery_done EXCEPT ![d] = TRUE]
        /\ listed(d) \/ UNCHANGED <<characteristics, reference>>
    BY <1>4 DEF PerformCharacteristicsDiscovery
  <2>2. steps' = <<>> /\ steps # <<>>
    BY <1>4, CharacteristicsSteps
  <2>3. offer[connection[d]].characteristics \subseteq Chars
    BY <2>2, StepDevice DEF DiscoveryAssumption
  <2>4. /\ characteristics' \in [Devices -> SUBSET Chars]
        /\ reference' \in [Ids -> {"none", "live", "dangling"}]
    BY <2>1, <2>3 DEF listed
  <2>5. missed' \in [Devices -> BOOLEAN]
    BY <1>4, MissedType DEF PerformCharacteristicsDiscovery
  <2>6. discovery_done' \in [Devices -> BOOLEAN] /\ steps' \in Seq(Devices)
    BY <2>1, <2>2
  <2> HIDE DEF d
  <2>7. QED
    BY <2>1, <2>4, <2>5, <2>6
<1>5. CASE TriggerFront
  <2>1. /\ UNCHANGED <<discovery_done, services, characteristics, steps, reference, offer, missed>>
        /\ buffers' = buffers \ {front.id}
    BY <1>5 DEF TriggerFront, released, table
  <2>2. QED
    BY <2>1
<1>6. CASE Elsewhere \/ UNCHANGED discoveryVars
  BY <1>6 DEF Elsewhere, discoveryVars, table, held
<1>7. QED
  BY <1>1, <1>2, <1>3, <1>4, <1>5, <1>6 DEF DiscoveryNext

-----------------------------------------------------------------------------
(* The invariant, and what follows from it                                 *)

\* The steps of a discovery remain those that are due.
LEMMA StepsStep ==
  ASSUME QueueInv, DiscoveryTypeOK, StepsMatch, [DiscoveryNext]_discoveryVars
  PROVE  StepsMatch'
<1>1. ASSUME NEW d \in Devices, NEW c \in Chars, ReadCharacteristic(d, c) \/ WriteCharacteristic(d, c)
      PROVE  StepsMatch'
  <2>1. Request /\ UNCHANGED steps
    BY <1>1 DEF ReadCharacteristic, WriteCharacteristic, Request
  <2>2. QED
    BY <2>1, RequestSteps
<1>2. ASSUME NEW g \in gattlib, NEW peer \in {g.dev, None}, Connected(g, peer) PROVE StepsMatch'
  BY <1>2, ConnectedSteps
<1>3. ASSUME NEW found \in BOOLEAN,
             PerformServiceDiscovery(found) \/ PerformCharacteristicsDiscovery(found)
      PROVE  StepsMatch'
  BY <1>3, ServiceSteps, CharacteristicsSteps
<1>4. CASE TriggerFront
  BY <1>4, TickSteps DEF TriggerFront
<1>5. CASE Elsewhere
  <2>1. UNCHANGED steps
    BY <1>5 DEF Elsewhere
  <2>2. CASE OtherRequest
    <3>1. Request
      BY <2>2 DEF OtherRequest, Request
    <3>2. QED
      BY <2>1, <3>1, RequestSteps
  <2>3. QED
    BY <1>5, <2>1, <2>2, AnswerSteps, TickSteps DEF Elsewhere
<1>6. CASE UNCHANGED discoveryVars
  <2>1. UNCHANGED <<steps, connection, reportQueue, draining>>
    BY <1>6 DEF discoveryVars, vars, central
  <2>2. QED
    BY <2>1, StepsKept
<1>7. QED
  BY <1>1, <1>2, <1>3, <1>4, <1>5, <1>6 DEF DiscoveryNext

\* DiscoveryInv holds at the start.
LEMMA DiscoveryInvInit == BLECentralAssumption /\ DiscoveryInit => DiscoveryInv
<1> SUFFICES ASSUME BLECentralAssumption, DiscoveryInit PROVE DiscoveryInv
  OBVIOUS
<1>1. QueueInv
  BY QueueInit DEF DiscoveryInit
<1>2. asyncActions = <<>> /\ reportQueue = <<>> /\ draining = <<>> /\ steps = <<>> /\ buffers = {}
  BY DEF DiscoveryInit, Init
<1>3. DiscoveryTypeOK
  BY DEF DiscoveryInit, DiscoveryTypeOK
<1>4. StepsMatch
  BY <1>2 DEF StepsMatch, DiscoverDue
<1>5. BuffersOfPendingWrites
  BY <1>2 DEF BuffersOfPendingWrites
<1>6. QED
  BY <1>1, <1>3, <1>4, <1>5 DEF DiscoveryInv

\* DiscoveryInv holds throughout.
LEMMA DiscoveryInvariant == NoTimedCancel => (DiscoverySpec => []DiscoveryInv)
<1> SUFFICES ASSUME NoTimedCancel PROVE DiscoverySpec => []DiscoveryInv
  OBVIOUS
<1>1. DiscoveryInit => DiscoveryInv
  BY BLECentralAssumption, DiscoveryInvInit
<1>2. DiscoveryInv /\ [DiscoveryNext]_discoveryVars => DiscoveryInv'
  <2> SUFFICES ASSUME DiscoveryInv, [DiscoveryNext]_discoveryVars PROVE DiscoveryInv'
    OBVIOUS
  <2>1. QueueInv'
    BY BLECentralAssumption, CentralStep, QueueStep DEF DiscoveryInv
  <2>2. DiscoveryTypeOK'
    BY BLECentralAssumption, DiscoveryAssumption, TypesStep DEF DiscoveryInv
  <2>3. StepsMatch'
    BY StepsStep DEF DiscoveryInv
  <2>4. BuffersOfPendingWrites'
    BY BLECentralAssumption, BuffersStep DEF DiscoveryInv
  <2>5. QED
    BY <2>1, <2>2, <2>3, <2>4 DEF DiscoveryInv
<1>3. QED
  BY <1>1, <1>2, PTL DEF DiscoverySpec

\* The maps of DeviceDetails.h and the queue of steps keep their types; above
\* all, a step reads the offer of a peer that is connected.
THEOREM DiscoveryTypeCorrect == NoTimedCancel => (DiscoverySpec => []DiscoveryTypeOK)
<1>1. DiscoveryInv => DiscoveryTypeOK
  BY DEF DiscoveryInv
<1>2. QED
  BY <1>1, DiscoveryInvariant, PTL

\* The steps of a discovery call gattlib on a connection that is there.
THEOREM DiscoveryConnected == NoTimedCancel => (DiscoverySpec => []DiscoveryOnConnection)
<1>1. DiscoveryInv => DiscoveryOnConnection
  BY DEF DiscoveryInv, StepsMatch, DiscoveryOnConnection
<1>2. QED
  BY <1>1, DiscoveryInvariant, PTL

\* The buffers allocated are those of the writes yet to be triggered: none is
\* deleted early, and only an action that is never triggered leaks its own.
THEOREM BuffersAccounted == NoTimedCancel => (DiscoverySpec => []BuffersOfPendingWrites)
<1>1. DiscoveryInv => BuffersOfPendingWrites
  BY DEF DiscoveryInv
<1>2. QED
  BY <1>1, DiscoveryInvariant, PTL

=============================================================================
