------------------------ MODULE BLECentralRefinement ------------------------
(***************************************************************************)
(* BLECentral implements OperationQueue: its actions, seen by their        *)
(* numbers, are operations that are started, reported and retired one      *)
(* after the other.  The assumption is that of BLECentralProofs.           *)
(***************************************************************************)
EXTENDS BLECentralProofs, SequenceTheorems

IdsOf(q) == [i \in DOMAIN q |-> q[i].id]
Running == asyncActions # <<>> /\ ~isPending(front)

-----------------------------------------------------------------------------
(* The mapping and the steps of a queue                                    *)

\* The queue of ids has the length of the queue of actions, and its ids.
LEMMA IdsOfLemma ==
  ASSUME NEW q \in Seq(Actions)
  PROVE  /\ IdsOf(q) \in Seq(Ids) /\ Len(IdsOf(q)) = Len(q)
         /\ IdsOf(q) = <<>> <=> q = <<>>
         /\ q # <<>> => Head(IdsOf(q)) = q[1].id /\ q[1].id \in Ids
<1>1. \A i \in DOMAIN q : q[i] \in Actions
  OBVIOUS
<1>2. \A i \in DOMAIN q : q[i].id \in Ids
  BY <1>1 DEF Actions
<1>3. DOMAIN q = 1..Len(q) /\ Len(q) \in Nat
  OBVIOUS
<1>4. IdsOf(q) \in Seq(Ids) /\ Len(IdsOf(q)) = Len(q)
  BY <1>2, <1>3 DEF IdsOf
<1>5. IdsOf(q) = <<>> <=> q = <<>>
  BY <1>3, <1>4
<1>6. ASSUME q # <<>> PROVE Head(IdsOf(q)) = q[1].id /\ q[1].id \in Ids
  BY <1>2, <1>3, <1>4, <1>6 DEF IdsOf
<1>7. QED
  BY <1>4, <1>5, <1>6

\* Appending an action appends its id.
LEMMA IdsOfAppend ==
  ASSUME NEW q \in Seq(Actions), NEW a \in Actions
  PROVE  IdsOf(Append(q, a)) = Append(IdsOf(q), a.id)
<1> DEFINE q2 == Append(q, a)
           s == IdsOf(q)
           t == Append(s, a.id)
<1>1. /\ DOMAIN q2 = 1..(Len(q) + 1) /\ DOMAIN q = 1..Len(q) /\ Len(q) \in Nat
      /\ \A k \in 1..Len(q) : q2[k] = q[k]
      /\ q2[Len(q) + 1] = a /\ q2 \in Seq(Actions) /\ Len(q2) = Len(q) + 1
  OBVIOUS
<1>2. a.id \in Ids /\ s \in Seq(Ids) /\ Len(s) = Len(q)
  BY IdsOfLemma DEF Actions
<1>3. IdsOf(q2) \in Seq(Ids) /\ Len(IdsOf(q2)) = Len(q) + 1
  BY <1>1, IdsOfLemma
<1>4. \A k \in 1..Len(q) : s[k] = q[k].id
  BY <1>1 DEF IdsOf
<1>5. \A k \in 1..(Len(q) + 1) : IdsOf(q2)[k] = q2[k].id
  BY <1>1 DEF IdsOf
<1> HIDE DEF s, q2
<1>6. /\ t \in Seq(Ids) /\ Len(t) = Len(q) + 1
      /\ \A k \in 1..Len(q) : t[k] = s[k]
      /\ t[Len(q) + 1] = a.id
  BY <1>2
<1>7. \A k \in 1..(Len(q) + 1) : k \in 1..Len(q) \/ k = Len(q) + 1
  BY <1>1
<1> HIDE DEF t
<1>8. \A k \in 1..(Len(q) + 1) : IdsOf(q2)[k] = t[k]
  BY <1>1, <1>4, <1>5, <1>6, <1>7
<1>9. IdsOf(q2) = t
  BY <1>3, <1>6, <1>8, SeqEqual
<1>10. QED
  BY <1>9 DEF s, q2, t

\* Popping the first action pops the first id.
LEMMA IdsOfTail ==
  ASSUME NEW q \in Seq(Actions), q # <<>>
  PROVE  IdsOf(Tail(q)) = Tail(IdsOf(q))
<1> DEFINE n == Len(q) - 1
           s == IdsOf(q)
           t == Tail(s)
           q2 == Tail(q)
<1>1. /\ DOMAIN q = 1..Len(q) /\ Len(q) \in Nat \ {0} /\ n \in Nat
      /\ DOMAIN q2 = 1..n /\ \A k \in 1..n : q2[k] = q[k + 1] /\ k + 1 \in DOMAIN q
      /\ q2 \in Seq(Actions) /\ Len(q2) = n
  OBVIOUS
<1>2. s \in Seq(Ids) /\ Len(s) = Len(q) /\ s # <<>>
  BY IdsOfLemma
<1>3. \A k \in DOMAIN q : s[k] = q[k].id
  BY DEF IdsOf
<1>4. /\ IdsOf(q2) \in Seq(Ids) /\ Len(IdsOf(q2)) = n
      /\ \A k \in 1..n : IdsOf(q2)[k] = q2[k].id
  BY <1>1, IdsOfLemma DEF IdsOf
<1> HIDE DEF s, q2
<1>5. t \in Seq(Ids) /\ Len(t) = n /\ \A k \in 1..Len(t) : t[k] = s[k + 1]
  BY <1>2, HeadTailProperties
<1> HIDE DEF t
<1>6. \A k \in 1..n : IdsOf(q2)[k] = t[k]
  BY <1>1, <1>3, <1>4, <1>5
<1>7. IdsOf(q2) = t
  BY <1>4, <1>5, <1>6, SeqEqual
<1>8. QED
  BY <1>7 DEF s, q2, t

\* Marking the first action changes no number.
LEMMA IdsOfMark ==
  ASSUME asyncActions \in Seq(Actions), asyncActions # <<>>,
         NEW state \in {"Pending", "Triggered", "Completed"}
  PROVE  /\ IdsOf(withState(state)) = IdsOf(asyncActions)
         /\ withState(state)[1].state = state
<1> DEFINE q == withState(state)
<1>1. /\ q \in Seq(Actions) /\ Len(q) = Len(asyncActions)
      /\ q[1] = [front EXCEPT !.state = state]
      /\ \A k \in 2..Len(asyncActions) : q[k] = asyncActions[k]
      /\ front \in Actions /\ front = asyncActions[1]
  BY WithStateLemma, FrontLemma DEF front
<1>2. q[1].id = asyncActions[1].id /\ q[1].state = state
  BY <1>1 DEF Actions
<1> HIDE DEF q
<1>3. DOMAIN q = DOMAIN asyncActions /\ DOMAIN asyncActions = 1..Len(asyncActions)
  BY <1>1
<1>4. \A k \in DOMAIN asyncActions : k = 1 \/ k \in 2..Len(asyncActions)
  BY <1>3
<1>5. \A k \in DOMAIN asyncActions : q[k].id = asyncActions[k].id
  BY <1>1, <1>2, <1>4
<1>6. QED
  BY <1>2, <1>3, <1>5 DEF IdsOf, q

-----------------------------------------------------------------------------
(* Each way a step can change the queue is a step of OperationQueue        *)

\* The first report of an action.
LEMMA FirstReport ==
  ASSUME NEW id, NEW result, outcome[id] = <<>>, reportTo(id, result)
  PROVE  outcome' = [outcome EXCEPT ![id] = <<result>>]
<1>1. Append(<<>>, result) = <<result>>
  OBVIOUS
<1>2. outcome' = [outcome EXCEPT ![id] = Append(outcome[id], result)]
  BY DEF reportTo
<1>3. Append(outcome[id], result) = <<result>>
  BY <1>1
<1>4. QED
  BY <1>2, <1>3, Zenon

\* Queueing an action is a Submit.
LEMMA SubmitMaps ==
  ASSUME QueueInv, QueueInv', NEW op \in QueuedOps, NEW d \in Devices \cup {None},
         queueAsyncAction(asyncActions, op, d), outcome' = outcome
  PROVE  Promise!Submit
<1> DEFINE a == [id |-> nextId, op |-> op, dev |-> d, state |-> "Pending"]
<1>1. /\ asyncActions \in Seq(Actions) /\ nextId \in Ids /\ nextId' = nextId + 1
      /\ asyncActions' = Append(asyncActions, a)
  BY DEF queueAsyncAction, QueueInv, TypeOK
<1>2. a \in Actions
  BY <1>1 DEF Actions
<1>3. IdsOf(asyncActions') = Append(IdsOf(asyncActions), nextId)
  BY <1>1, <1>2, IdsOfAppend
<1>4. Running' = Running
  BY <1>1 DEF Running, front, isPending
<1>5. QED
  BY <1>1, <1>3, <1>4 DEF Promise!Submit, Promise!Enqueue, Promise!Ids, Ids, IdsOf, Running

\* A step that changes nothing of the queue and its reports is a stutter.
LEMMA StutterMaps ==
  ASSUME UNCHANGED <<outcome, nextId>>,
         IdsOf(asyncActions)' = IdsOf(asyncActions), Running' = Running
  PROVE  UNCHANGED Promise!vars
BY DEF Promise!vars, IdsOf, Running

\* The report of the first action, be it marked completed by this step or before.
LEMMA ConcludeMaps ==
  ASSUME QueueInv, asyncActions # <<>>, outcome[front.id] = <<>>, nextId' = nextId,
         NEW result \in {"ok", "fail"}, reportTo(front.id, result),
         asyncActions' = withState("Completed") \/ (asyncActions' = asyncActions /\ isDone(front))
  PROVE  Promise!Conclude(result)
<1>1. /\ asyncActions \in Seq(Actions) /\ outcome \in [Ids -> Seq(Results)]
      /\ front = asyncActions[1]
  BY DEF QueueInv, TypeOK, Results, front
<1>2. Head(IdsOf(asyncActions)) = front.id /\ front.id \in Ids /\ IdsOf(asyncActions) # <<>>
  BY <1>1, IdsOfLemma
<1>3. IdsOf(asyncActions)' = IdsOf(asyncActions) /\ Running'
  <2>1. CASE asyncActions' = withState("Completed")
    <3>1. asyncActions' # <<>>
      BY <1>1, <2>1, WithStateLemma
    <3>2. QED
      BY <1>1, <2>1, <3>1, IdsOfMark DEF Running, front, isPending
  <2>2. CASE asyncActions' = asyncActions /\ isDone(front)
    BY <2>2 DEF Running, front, isPending, isDone, IdsOf
  <2>3. QED
    BY <2>1, <2>2
<1>4. outcome' = [outcome EXCEPT ![Head(IdsOf(asyncActions))] = <<result>>]
  BY <1>2, FirstReport
<1>5. outcome[Head(IdsOf(asyncActions))] = <<>>
  BY <1>2
<1>6. QED
  BY <1>2, <1>3, <1>4, <1>5 DEF Promise!Conclude, Promise!Report, IdsOf, Running

\* stopScan() cutting the running scan short is a CancelAndSubmit.
LEMMA CancelMaps ==
  ASSUME QueueInv, QueueInv', StopScan, is_scanning /\ scanRuns
  PROVE  Promise!CancelAndSubmit
<1> DEFINE q == withState("Completed")
           a == [id |-> nextId, op |-> "stopScan", dev |-> None, state |-> "Pending"]
<1>1. /\ asyncActions \in Seq(Actions) /\ outcome \in [Ids -> Seq(Results)]
      /\ front = asyncActions[1] /\ asyncActions # <<>> /\ isRunning(front)
      /\ 1 \in DOMAIN asyncActions
  BY DEF QueueInv, TypeOK, Results, front, scanRuns
<1>2. /\ nextId \in Ids /\ nextId' = nextId + 1 /\ asyncActions' = Append(q, a)
      /\ reportTo(front.id, "cancelled")
  BY DEF StopScan, queueAsyncAction
<1>3. Head(IdsOf(asyncActions)) = front.id /\ front.id \in Ids /\ IdsOf(asyncActions) # <<>>
  BY <1>1, IdsOfLemma
<1>4. outcome[front.id] = <<>>
  BY <1>1 DEF QueueInv, QueueMatches, isRunning, isDone
<1>5. outcome' = [outcome EXCEPT ![Head(IdsOf(asyncActions))] = <<"cancelled">>]
  BY <1>2, <1>3, <1>4, FirstReport
<1>6. /\ q \in Seq(Actions) /\ q # <<>> /\ IdsOf(q) = IdsOf(asyncActions)
      /\ q[1].state = "Completed"
  BY <1>1, WithStateLemma, IdsOfMark
<1> HIDE DEF q
<1>7. a \in Actions
  BY <1>2 DEF Actions, QueuedOps
<1>8. IdsOf(asyncActions') = Append(IdsOf(asyncActions), nextId)
  BY <1>2, <1>6, <1>7, IdsOfAppend
<1>9. asyncActions' # <<>> /\ asyncActions'[1] = q[1]
  BY <1>2, <1>6
<1>10. Running /\ Running'
  BY <1>1, <1>6, <1>9 DEF Running, front, isPending, isRunning
<1>11. outcome[Head(IdsOf(asyncActions))] = <<>>
  BY <1>3, <1>4
<1>12. QED
  BY <1>2, <1>3, <1>5, <1>8, <1>10, <1>11
     DEF Promise!CancelAndSubmit, Promise!Enqueue, Promise!Report, Promise!Ids, Ids, IdsOf, Running

\* The trigger of the first action, accepted, is a Start.
LEMMA StartMaps ==
  ASSUME QueueInv, asyncActions # <<>>, isPending(front), asyncActions' = withState("Triggered"),
         UNCHANGED <<outcome, nextId>>
  PROVE  Promise!Start
<1>1. asyncActions \in Seq(Actions)
  BY DEF QueueInv, TypeOK
<1>2. IdsOf(asyncActions)' = IdsOf(asyncActions) /\ asyncActions' # <<>> /\ Running'
  BY <1>1, WithStateLemma, IdsOfMark DEF Running, front, isPending
<1>3. IdsOf(asyncActions) # <<>> /\ ~Running
  BY <1>1, IdsOfLemma DEF Running
<1>4. QED
  BY <1>2, <1>3 DEF Promise!Start, IdsOf, Running

\* Popping an action that is done is a Retire.
LEMMA RetireMaps ==
  ASSUME QueueInv, QueueInv', asyncActions # <<>>, isDone(front), outcome[front.id] # <<>>,
         asyncActions' = Tail(asyncActions), UNCHANGED <<outcome, nextId>>
  PROVE  Promise!Retire
<1>1. asyncActions \in Seq(Actions) /\ front = asyncActions[1]
  BY DEF QueueInv, TypeOK, front
<1>2. IdsOf(asyncActions)' = Tail(IdsOf(asyncActions))
  BY <1>1, IdsOfTail DEF IdsOf
<1>3. /\ Head(IdsOf(asyncActions)) = front.id /\ IdsOf(asyncActions) # <<>>
      /\ outcome[Head(IdsOf(asyncActions))] # <<>>
  BY <1>1, IdsOfLemma
<1>4. asyncActions' # <<>> => isPending(asyncActions'[1])
  <2>1. asyncActions' # <<>> => 2 \in DOMAIN asyncActions /\ asyncActions'[1] = asyncActions[2]
    BY <1>1
  <2>2. QED
    BY <2>1 DEF QueueInv, QueueMatches
<1>5. Running /\ ~Running'
  BY <1>4 DEF Running, front, isPending, isDone
<1>6. QED
  BY <1>2, <1>3, <1>5 DEF Promise!Retire, IdsOf, Running

-----------------------------------------------------------------------------
(* Every step of BLECentral changes the queue in one of these ways         *)

PromiseStep == Promise!Next \/ UNCHANGED Promise!vars

\* Every request of the application maps to a step or a stutter.
LEMMA RequestMaps ==
  ASSUME QueueInv, QueueInv', Request PROVE PromiseStep
<1>1. CASE AdapterOpen \/ AdapterClose \/ SetAutoDiscoverOnConnect
           \/ \E op \in {"enable", "enableNull"} : Enable(op)
  <2>1. UNCHANGED <<asyncActions, outcome, nextId>>
    BY <1>1 DEF AdapterOpen, AdapterClose, SetAutoDiscoverOnConnect, Enable
  <2>2. QED
    BY <2>1, StutterMaps DEF IdsOf, Running, front, PromiseStep
<1>2. ASSUME NEW op \in QueuedOps, NEW d \in Devices \cup {None},
             queueAsyncAction(asyncActions, op, d), outcome' = outcome
      PROVE  PromiseStep
  BY <1>2, SubmitMaps DEF PromiseStep, Promise!Next
<1>3. ASSUME NEW op \in ScanOps, Scan(op) PROVE PromiseStep
  BY <1>2, <1>3 DEF Scan, ScanOps, QueuedOps
<1>4. CASE StopScan
  <2>1. CASE is_scanning /\ scanRuns
    BY <1>4, <2>1, CancelMaps DEF PromiseStep, Promise!Next
  <2>2. CASE is_scanning /\ ~scanRuns
    BY <1>2, <1>4, <2>2 DEF StopScan, QueuedOps
  <2>3. CASE ~is_scanning
    BY <1>2, <1>4, <2>3 DEF StopScan, QueuedOps
  <2>4. QED
    BY <2>1, <2>2, <2>3
<1>5. ASSUME NEW d \in Devices, Connect(d) PROVE PromiseStep
  BY <1>2, <1>5 DEF Connect, QueuedOps
<1>6. ASSUME NEW d \in Devices, NEW op \in {"disconnect", "read", "write"}, UseConnection(op, d)
      PROVE PromiseStep
  BY <1>2, <1>6 DEF UseConnection, QueuedOps
<1>7. QED
  BY <1>1, <1>3, <1>4, <1>5, <1>6 DEF Request, Disconnect, Read, Write

\* The first action, started and not done, is reported.
LEMMA CompletionMaps ==
  ASSUME QueueInv, asyncActions # <<>>, ~isDone(front), nextId' = nextId,
         NEW result \in {"ok", "fail"}, result = "ok" => front.op # "read",
         completedWith(result)
  PROVE  PromiseStep
<1>1. asyncActions \in Seq(Actions) /\ front = asyncActions[1] /\ 1 \in DOMAIN asyncActions
  BY DEF QueueInv, TypeOK, front
<1>2. outcome[front.id] = <<>>
  BY <1>1 DEF QueueInv, QueueMatches
<1>3. asyncActions' = withState("Completed") /\ reportTo(front.id, result)
  BY DEF completedWith
<1>4. Promise!Conclude(result)
  BY <1>2, <1>3, ConcludeMaps
<1>5. QED
  BY <1>4 DEF PromiseStep, Promise!Next

\* An answer to the first action maps to a Conclude or a stutter.
LEMMA AnswerMaps ==
  ASSUME QueueInv, NEW g \in gattlib, g.op \notin {"startScan", "read"}, answers(g),
         NEW result \in {"ok", "fail"}, currentOp(result), nextId' = nextId
  PROVE  PromiseStep
<1>1. asyncActions # <<>> /\ ~isDone(front) /\ front.op # "read"
  BY AnswerFinds DEF isRunning, isDone
<1>2. QED
  BY <1>1, CompletionMaps DEF currentOp

\* Every answer of gattlib maps to a step or a stutter.
LEMMA DeliverMaps ==
  ASSUME QueueInv, QueueInv', Deliver PROVE PromiseStep
<1> SUFFICES ASSUME NEW g \in gattlib, DeviceDiscovered(g) \/ Answer(g) PROVE PromiseStep
  BY DEF Deliver
<1>1. ASSUME UNCHANGED <<asyncActions, outcome, nextId>> PROVE PromiseStep
  BY <1>1, StutterMaps DEF IdsOf, Running, front, PromiseStep
<1>2. CASE DeviceDiscovered(g)
  BY <1>1, <1>2 DEF DeviceDiscovered
<1>3. CASE ScanEnded(g)
  BY <1>3, AnswerMaps DEF ScanEnded
<1>4. ASSUME NEW peer \in {g.dev, None}, DeviceConnected(g, peer) PROVE PromiseStep
  <2>1. g.op = "connect" /\ answers(g) /\ nextId' = nextId
    BY <1>4 DEF DeviceConnected, discovers
  <2>2. \/ UNCHANGED <<asyncActions, outcome>>
        \/ currentOp(connectResult(peer))
    BY <1>4 DEF DeviceConnected, discovers
  <2>3. connectResult(peer) \in {"ok", "fail"}
    BY DEF connectResult
  <2>4. QED
    BY <1>1, <2>1, <2>2, <2>3, AnswerMaps
<1>5. CASE DeviceDisconnected(g)
  BY <1>5, AnswerMaps DEF DeviceDisconnected
<1>6. ASSUME NEW empty, ReadAnswered(g, empty) PROVE PromiseStep
  <2>1. g.op = "read" /\ answers(g) /\ nextId' = nextId
    BY <1>6 DEF ReadAnswered
  <2>2. CASE empty
    BY <1>1, <1>6, <2>1, <2>2 DEF ReadAnswered
  <2>3. CASE ~empty
    <3>1. asyncActions # <<>> /\ isRunning(front) /\ asyncActions \in Seq(Actions)
      BY <2>1, AnswerFinds DEF QueueInv, TypeOK
    <3>2. outcome' = outcome /\ asyncActions' = withState("Completed")
      BY <1>6, <2>3, <3>1 DEF ReadAnswered, readDataReceived
    <3>3. IdsOf(asyncActions)' = IdsOf(asyncActions) /\ asyncActions' # <<>>
          /\ asyncActions'[1].state = "Completed"
      BY <3>1, <3>2, IdsOfMark, WithStateLemma
    <3>4. Running' = Running
      BY <3>1, <3>3 DEF Running, front, isPending, isRunning
    <3>5. QED
      BY <2>1, <3>2, <3>3, <3>4, StutterMaps DEF PromiseStep
  <2>4. QED
    BY <2>2, <2>3
<1>7. ASSUME NEW result \in {"ok", "fail"}, WriteAnswered(g, result) PROVE PromiseStep
  BY <1>7, AnswerMaps DEF WriteAnswered
<1>8. QED
  BY <1>2, <1>3, <1>4, <1>5, <1>6, <1>7 DEF Answer

\* Every callback of the report queue maps to a step or a stutter.
LEMMA RunReportMaps ==
  ASSUME QueueInv, QueueInv', RunReport PROVE PromiseStep
<1>1. ASSUME UNCHANGED <<asyncActions, outcome, nextId>> PROVE PromiseStep
  BY <1>1, StutterMaps DEF IdsOf, Running, front, PromiseStep
<1>2. CASE DiscoverServicesStep \/ DiscoverCharacteristicsStep \/ UserStep \/ NullStep
  BY <1>1, <1>2 DEF DiscoverServicesStep, DiscoverCharacteristicsStep, UserStep, NullStep, runs
<1>3. CASE ConnectedStep
  <2>1. runs("connected") /\ currentOp("ok") /\ nextId' = nextId
    BY <1>3 DEF ConnectedStep, runs
  <2>2. asyncActions # <<>> /\ isRunning(front) /\ front.op = "connect"
    BY <2>1, OwnReportRuns DEF Belongs, OwnReports, ConnectSteps
  <2>3. QED
    BY <2>1, <2>2, CompletionMaps DEF currentOp, isRunning, isDone
<1>4. CASE DataStep
  <2>1. runs("data") /\ reportTo(Head(draining).id, "ok") /\ UNCHANGED <<asyncActions, nextId>>
    BY <1>4 DEF DataStep, runs
  <2>2. asyncActions # <<>> /\ isDone(front) /\ front.id = Head(draining).id
        /\ outcome[front.id] = <<>>
    BY <2>1, OwnReportRuns DEF Belongs, OwnReports
  <2>3. Promise!Conclude("ok")
    BY <2>1, <2>2, ConcludeMaps
  <2>4. QED
    BY <2>3 DEF PromiseStep, Promise!Next
<1>5. QED
  BY <1>2, <1>3, <1>4 DEF RunReport

\* The turn of the first action maps to a step or a stutter.
LEMMA FrontTurnMaps ==
  ASSUME QueueInv, QueueInv', FrontTurn PROVE PromiseStep
<1>1. phase = "reports" /\ draining = <<>> /\ nextId' = nextId
  BY DEF FrontTurn, TriggerAccepted, TriggerRefused, TriggerStopScanDone, PopDone,
         NothingToDo, returns
<1>2. CASE TriggerAccepted
  BY <1>1, <1>2, StartMaps DEF TriggerAccepted, PromiseStep, Promise!Next
<1>3. CASE TriggerRefused
  BY <1>1, <1>3, CompletionMaps DEF TriggerRefused, isPending, isDone
<1>4. CASE TriggerStopScanDone
  BY <1>1, <1>4, CompletionMaps DEF TriggerStopScanDone, isPending, isDone
<1>5. CASE PopDone
  <2>1. /\ asyncActions # <<>> /\ isDone(front) /\ asyncActions' = Tail(asyncActions)
        /\ outcome' = outcome
    BY <1>5 DEF PopDone
  <2>2. outcome[front.id] # <<>>
    BY <1>1, <2>1 DEF QueueInv, WaitingInv, DoneIsReported, ReportsInPhase, DataDue
  <2>3. QED
    BY <1>1, <2>1, <2>2, RetireMaps DEF PromiseStep, Promise!Next
<1>6. CASE NothingToDo
  BY <1>1, <1>6, StutterMaps DEF NothingToDo, IdsOf, Running, front, PromiseStep
<1>7. QED
  BY <1>2, <1>3, <1>4, <1>5, <1>6 DEF FrontTurn

\* Every step maps to a step or a stutter.
LEMMA StepMaps ==
  ASSUME QueueInv, QueueInv', [Next]_vars PROVE PromiseStep
<1>1. CASE ProcessAsync \/ TakeReports \/ UNCHANGED vars
  <2>1. UNCHANGED <<asyncActions, outcome, nextId>>
    BY <1>1 DEF ProcessAsync, TakeReports, vars
  <2>2. QED
    BY <2>1, StutterMaps DEF IdsOf, Running, front, PromiseStep
<1>2. QED
  BY <1>1, RequestMaps, DeliverMaps, RunReportMaps, FrontTurnMaps DEF Next, Tick

\* The initial states map to initial states.
LEMMA InitMaps == ASSUME Init PROVE Promise!Init
<1>1. asyncActions = <<>> /\ outcome = [i \in Ids |-> <<>>] /\ nextId = 1
  BY DEF Init
<1>2. [i \in DOMAIN asyncActions |-> asyncActions[i].id] = <<>>
  BY <1>1
<1>3. QED
  BY <1>1, <1>2 DEF Promise!Init, Promise!Ids, Ids

\* The queue of actions keeps the promise of OperationQueue: one operation
\* after the other, each reported exactly once before it makes room.
THEOREM QueueImplemented == NoTimedCancel => (Spec => ImplementsOperationQueue)
<1> SUFFICES ASSUME NoTimedCancel PROVE Spec => Promise!Spec
  BY DEF ImplementsOperationQueue
<1>1. Init => Promise!Init
  BY InitMaps
<1>2. QueueInv /\ QueueInv' /\ [Next]_vars => [Promise!Next]_Promise!vars
  BY StepMaps DEF PromiseStep
<1>3. Spec => []QueueInv
  BY QueueInvariant
<1>4. QED
  BY <1>1, <1>2, <1>3, PTL DEF Spec, Promise!Spec

=============================================================================
