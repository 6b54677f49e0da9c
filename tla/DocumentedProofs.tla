-------------------------- MODULE DocumentedProofs --------------------------
(***************************************************************************)
(* Proofs about BLECentral for applications that keep to the README's      *)
(* limitations: one operation after the other, one device at a time.       *)
(*                                                                         *)
(* What such an application relies on is that, while an operation is       *)
(* unfinished, nothing else changes what was checked when it was asked     *)
(* for: the device connected_to names, its connection, the adapter, the    *)
(* flag is_scanning.  A scan is the exception: it may be unfinished when   *)
(* stopScan() is called.                                                   *)
(***************************************************************************)
EXTENDS BLECentralProofs

\* One operation after the other; scans with a time limit are not stopped.
Serial == OneOperation /\ NoTimedCancel

-----------------------------------------------------------------------------
(* The inductive invariant                                                 *)

Stops == {"stopScan", "stopScanDone"}

\* The actions that are not done.
UnfinishedOf(q) == {q[k] : k \in {j \in DOMAIN q : ~isDone(q[j])}}
unfinished == UnfinishedOf(asyncActions)

\* Of two of these the earlier is a scan, and the later is there to stop it.
OneAfterTheOther ==
  \A a, b \in unfinished : a.id < b.id => a.op \in ScanOps /\ b.op \in Stops

\* A connection was handed over, and the steps of its discovery are due.
StepDue(q) == \E i \in DOMAIN q : q[i].op \in ConnectSteps
discoveryUnderWay == StepDue(reportQueue) \/ StepDue(draining)

gattlibScans == \E g \in gattlib : g.op \in ScanOps

\* What action a was checked for when it was queued is still so.
StillReady(a) ==
  /\ a.op = "connect" =>
       a.dev \in Devices /\ connected_to = a.dev
       /\ (connection[a.dev] # None <=> discoveryUnderWay)
  /\ a.op \in {"disconnect", "read", "write"} => a.dev \in Devices /\ connection[a.dev] # None
  /\ a.op \in ScanOps \cup {"stopScan"} => adapter_is_open
  /\ a.op \in ScanOps /\ isPending(a) => is_scanning /\ ~gattlibScans
  /\ a.op = "scan" /\ isRunning(a) => \A g \in gattlib : g.op # "startScan"
  /\ a.op = "stopScan" /\ isRunning(a) => ~gattlibScans

\* is_scanning is set while gattlib scans, and otherwise only before the scan
\* is started or until gattlib confirms that it has stopped.
ScanAccounted ==
  /\ gattlibScans => is_scanning
  /\ is_scanning => \/ gattlibScans
                    \/ \E a \in unfinished : isPending(a) /\ a.op \in ScanOps
                    \/ \E a \in unfinished : isRunning(a) /\ a.op = "stopScan"

Undisturbed ==
  /\ OneAfterTheOther
  /\ \A a \in unfinished : StillReady(a)
  /\ ScanAccounted

SerialInv == QueueInv /\ Undisturbed

-----------------------------------------------------------------------------
(* The actions that are not done                                           *)

\* Where in the queue an unfinished action may be.
LEMMA UnfinishedAre ==
  ASSUME QueueInv
  PROVE  /\ \A a \in unfinished : /\ asyncActions # <<>> /\ a \in Actions /\ ~isDone(a)
                                  /\ a.id < nextId
                                  /\ a = front \/ (isPending(a) /\ a.id > front.id)
         /\ asyncActions # <<>> /\ ~isDone(front) => front \in unfinished
<1>1. /\ asyncActions \in Seq(Actions) /\ nextId \in Nat
      /\ QueueMatches(asyncActions, outcome, nextId)
  BY DEF QueueInv, TypeOK
<1>2. ASSUME NEW k \in DOMAIN asyncActions, ~isDone(asyncActions[k])
      PROVE  /\ asyncActions # <<>> /\ asyncActions[k] \in Actions
             /\ asyncActions[k].id < nextId
             /\ asyncActions[k] = front
                \/ (isPending(asyncActions[k]) /\ asyncActions[k].id > front.id)
  <2>1. 1 \in DOMAIN asyncActions /\ k \in 1..Len(asyncActions) /\ Len(asyncActions) \in Nat
        /\ asyncActions # <<>> /\ asyncActions[k] \in Actions
    BY <1>1
  <2>2. /\ asyncActions[k].id = nextId - Len(asyncActions) + k - 1
        /\ front.id = nextId - Len(asyncActions) + 1 - 1
        /\ k > 1 => isPending(asyncActions[k])
    BY <1>1, <2>1 DEF QueueMatches, front
  <2>3. CASE k = 1
    BY <1>1, <2>1, <2>2, <2>3 DEF front
  <2>4. CASE k > 1
    BY <1>1, <2>1, <2>2, <2>4
  <2>5. QED
    BY <2>1, <2>3, <2>4
<1>3. asyncActions # <<>> => 1 \in DOMAIN asyncActions
  BY <1>1
<1>4. QED
  BY <1>2, <1>3 DEF unfinished, UnfinishedOf, front

\* A new action is unfinished.
LEMMA EnqueueUnfinished ==
  ASSUME NEW q \in Seq(Actions), NEW op, NEW d, queueAsyncAction(q, op, d)
  PROVE  unfinished' = UnfinishedOf(q) \cup
                         {[id |-> nextId, op |-> op, dev |-> d, state |-> "Pending"]}
<1> DEFINE a == [id |-> nextId, op |-> op, dev |-> d, state |-> "Pending"]
<1>1. asyncActions' = Append(q, a) /\ ~isDone(a)
  BY DEF queueAsyncAction, isDone
<1> HIDE DEF a
<1>2. /\ DOMAIN asyncActions' = DOMAIN q \cup {Len(q) + 1}
      /\ \A k \in DOMAIN q : k # Len(q) + 1 /\ asyncActions'[k] = q[k]
      /\ asyncActions'[Len(q) + 1] = a
  BY <1>1
<1>3. unfinished' = UnfinishedOf(asyncActions')
  BY DEF unfinished, UnfinishedOf, isDone
<1>4. UnfinishedOf(asyncActions') = UnfinishedOf(q) \cup {a}
  BY <1>1, <1>2 DEF UnfinishedOf
<1>5. QED
  BY <1>3, <1>4 DEF a

\* The queue with its first action in another state.
LEMMA MarkUnfinished ==
  ASSUME QueueInv, asyncActions # <<>>, NEW state \in {"Triggered", "Completed"}
  PROVE  UnfinishedOf(withState(state)) =
           (unfinished \ {front}) \cup
             (IF state = "Completed" THEN {} ELSE {[front EXCEPT !.state = state]})
<1> DEFINE a == [front EXCEPT !.state = state]
           q == withState(state)
<1>1. /\ asyncActions \in Seq(Actions) /\ front \in Actions /\ Len(asyncActions) \in Nat \ {0}
      /\ QueueMatches(asyncActions, outcome, nextId) /\ nextId \in Nat
  BY FrontLemma DEF QueueInv, TypeOK
<1>2. /\ q \in Seq(Actions) /\ Len(q) = Len(asyncActions)
      /\ q[1] = a
      /\ \A k \in 2..Len(asyncActions) : q[k] = asyncActions[k]
  BY <1>1, WithStateLemma
<1>3. isDone(a) <=> state = "Completed"
  BY <1>1 DEF isDone, Actions
<1> HIDE DEF a, q
<1>4. /\ DOMAIN q = DOMAIN asyncActions /\ 1 \in DOMAIN asyncActions
      /\ \A k \in DOMAIN asyncActions : k = 1 \/ (k \in 2..Len(asyncActions) /\ k # 1)
  BY <1>1, <1>2
<1>5. \A k \in 2..Len(asyncActions) : asyncActions[k] # front
  <2>1. SUFFICES ASSUME NEW k \in 2..Len(asyncActions) PROVE asyncActions[k].id # front.id
    OBVIOUS
  <2>2. k \in DOMAIN asyncActions /\ 1 \in DOMAIN asyncActions
    BY <1>1
  <2>3. /\ asyncActions[k].id = nextId - Len(asyncActions) + k - 1
        /\ front.id = nextId - Len(asyncActions) + 1 - 1
    BY <1>1, <2>2 DEF QueueMatches, front
  <2>4. QED
    BY <1>1, <2>3
<1>6. asyncActions[1] = front
  BY DEF front
<1>7. UnfinishedOf(q) = (unfinished \ {front}) \cup (IF state = "Completed" THEN {} ELSE {a})
  <2>1. ASSUME NEW k \in 2..Len(asyncActions)
        PROVE  q[k] = asyncActions[k] /\ asyncActions[k] # front /\ k \in DOMAIN asyncActions
    BY <1>1, <1>2, <1>5
  <2>2. QED
    BY <1>2, <1>3, <1>4, <1>6, <2>1 DEF unfinished, UnfinishedOf
<1>8. QED
  BY <1>7 DEF a, q

\* Completing the first action.
LEMMA ConcludeUnfinished ==
  ASSUME QueueInv, asyncActions # <<>>, asyncActions' = withState("Completed")
  PROVE  unfinished' = unfinished \ {front}
<1>1. unfinished' = UnfinishedOf(asyncActions')
  BY DEF unfinished, UnfinishedOf, isDone
<1>2. QED
  BY <1>1, MarkUnfinished

\* Starting it.
LEMMA TriggerUnfinished ==
  ASSUME QueueInv, asyncActions # <<>>, asyncActions' = withState("Triggered")
  PROVE  unfinished' = (unfinished \ {front}) \cup {[front EXCEPT !.state = "Triggered"]}
<1>1. unfinished' = UnfinishedOf(asyncActions')
  BY DEF unfinished, UnfinishedOf, isDone
<1>2. QED
  BY <1>1, MarkUnfinished

\* Only done actions are popped.
LEMMA PopUnfinished ==
  ASSUME QueueInv, asyncActions # <<>>, isDone(front), asyncActions' = Tail(asyncActions)
  PROVE  unfinished' = unfinished
<1>1. asyncActions \in Seq(Actions) /\ Len(asyncActions) \in Nat \ {0}
  BY FrontLemma DEF QueueInv, TypeOK
<1>2. /\ DOMAIN asyncActions = 1..Len(asyncActions)
      /\ DOMAIN asyncActions' = 1..(Len(asyncActions) - 1)
      /\ \A k \in 1..(Len(asyncActions) - 1) : asyncActions'[k] = asyncActions[k + 1]
  BY <1>1
<1>3. \A k \in DOMAIN asyncActions' : k + 1 \in DOMAIN asyncActions /\ asyncActions'[k] = asyncActions[k + 1]
  BY <1>1, <1>2
<1>4. \A k \in DOMAIN asyncActions : k = 1 \/ (k - 1 \in DOMAIN asyncActions' /\ asyncActions'[k - 1] = asyncActions[k])
  <2>1. ASSUME NEW k \in DOMAIN asyncActions, k # 1
        PROVE  k - 1 \in 1..(Len(asyncActions) - 1) /\ (k - 1) + 1 = k
    BY <1>1, <1>2, <2>1
  <2>2. QED
    BY <1>2, <2>1
<1>5. isDone(asyncActions[1])
  BY DEF front
<1>6. UnfinishedOf(asyncActions') \subseteq unfinished
  BY <1>3 DEF unfinished, UnfinishedOf
<1>7. unfinished \subseteq UnfinishedOf(asyncActions')
  <2>1. SUFFICES ASSUME NEW k \in DOMAIN asyncActions, ~isDone(asyncActions[k])
                 PROVE  \E j \in DOMAIN asyncActions' : asyncActions'[j] = asyncActions[k]
    BY DEF unfinished, UnfinishedOf
  <2>2. QED
    BY <1>4, <1>5, <2>1
<1>8. unfinished' = UnfinishedOf(asyncActions')
  BY DEF unfinished, UnfinishedOf, isDone
<1>9. QED
  BY <1>6, <1>7, <1>8

\* Nothing is unfinished in a queue where all is done.
LEMMA IdleUnfinished == Idle => unfinished = {}
BY DEF Idle, unfinished, UnfinishedOf

-----------------------------------------------------------------------------
(* Every step leaves the unfinished actions undisturbed                    *)

\* A queue that stays as it is.
LEMMA SameUnfinished == ASSUME UNCHANGED asyncActions PROVE unfinished' = unfinished
BY DEF unfinished, UnfinishedOf, isDone

\* The first unfinished action of a discovery, or of anything but a scan, is
\* the only one.
LEMMA FrontAlone ==
  ASSUME SerialInv, asyncActions # <<>>, ~isDone(front), front.op \notin ScanOps
  PROVE  unfinished = {front}
BY UnfinishedAre DEF SerialInv, Undisturbed, OneAfterTheOther

\* What is unfinished behind a scan is there to stop it.
LEMMA BehindScan ==
  ASSUME SerialInv, asyncActions # <<>>, front.op \in ScanOps, ~isDone(front),
         NEW a \in unfinished \ {front}
  PROVE  a.op \in Stops /\ isPending(a)
BY UnfinishedAre DEF SerialInv, Undisturbed, OneAfterTheOther

\* A request other than stopScan() comes when nothing is unfinished.
LEMMA RequestUndisturbed ==
  ASSUME BLECentralAssumption, OneOperation, SerialInv, Request
  PROVE  Undisturbed'
<1>0. /\ QueueInv /\ OneAfterTheOther /\ (\A a \in unfinished : StillReady(a)) /\ ScanAccounted
      /\ asyncActions \in Seq(Actions)
  BY DEF SerialInv, Undisturbed, QueueInv, TypeOK
<1>1. CASE \/ AdapterOpen \/ AdapterClose \/ SetAutoDiscoverOnConnect
           \/ \E op \in {"enable", "enableNull"} : Enable(op)
  <2>1. unfinished' = {} /\ unfinished = {} /\ UNCHANGED <<is_scanning, gattlib>>
    BY <1>1, IdleUnfinished, SameUnfinished
       DEF AdapterOpen, AdapterClose, SetAutoDiscoverOnConnect, Enable, MayRequest
  <2>2. QED
    BY <1>0, <2>1 DEF Undisturbed, OneAfterTheOther, ScanAccounted, gattlibScans
<1>2. ASSUME NEW op \in ScanOps, Scan(op) PROVE Undisturbed'
  <2>0. PICK a : a = [id |-> nextId, op |-> op, dev |-> None, state |-> "Pending"]
    OBVIOUS
  <2>1. /\ unfinished = {} /\ unfinished' = unfinished \cup {a}
        /\ adapter_is_open' /\ ~is_scanning /\ is_scanning' /\ UNCHANGED gattlib
    BY <1>0, <1>2, <2>0, IdleUnfinished, EnqueueUnfinished
       DEF Scan, MayRequest, openAdapterIfRequired, unfinished
  <2>2. a.op \in ScanOps /\ isPending(a) /\ a.state = "Pending"
    BY <1>2, <2>0 DEF isPending
  <2>3. StillReady(a)'
    BY <1>0, <2>1, <2>2 DEF StillReady, ScanOps, ScanAccounted, gattlibScans, isPending, isRunning
  <2>4. ScanAccounted'
    BY <1>0, <2>1, <2>2 DEF ScanAccounted, gattlibScans, isPending
  <2>5. OneAfterTheOther'
    <3>1. SUFFICES ASSUME NEW b \in {a} PROVE ~(b.id < b.id)
      BY <2>1 DEF OneAfterTheOther
    <3>2. nextId \in Nat /\ a.id = nextId
      BY <1>0, <2>0 DEF QueueInv, TypeOK
    <3>3. QED
      BY <3>1, <3>2
  <2>6. QED
    BY <2>1, <2>3, <2>4, <2>5 DEF Undisturbed
<1>3. ASSUME NEW op \in {"connect", "disconnect", "read", "write"}, NEW d \in Devices,
             \/ op = "connect" /\ Connect(d)
             \/ op # "connect" /\ UseConnection(op, d)
      PROVE  Undisturbed'
  <2>0. PICK a : a = [id |-> nextId, op |-> op, dev |-> d, state |-> "Pending"]
    OBVIOUS
  <2>1. /\ unfinished = {} /\ unfinished' = unfinished \cup {a}
        /\ UNCHANGED <<is_scanning, gattlib, connection, reportQueue, draining>>
        /\ reportQueue = <<>> /\ draining = <<>>
        /\ op = "connect" => connected_to' = d /\ connection[d] = None
        /\ op # "connect" => connection[d] # None
    BY <1>0, <1>3, <2>0, IdleUnfinished, EnqueueUnfinished
       DEF Connect, UseConnection, MayRequest, Idle, unfinished, isConnected
  <2>2. a.op = op /\ a.dev = d /\ isPending(a) /\ a.id = nextId /\ nextId \in Nat
    BY <1>0, <2>0 DEF isPending, QueueInv, TypeOK
  <2>3. ~discoveryUnderWay'
    BY <2>1 DEF discoveryUnderWay, StepDue
  <2>4. StillReady(a)'
    BY <1>3, <2>1, <2>2, <2>3 DEF StillReady, ScanOps
  <2>5. ScanAccounted'
    BY <1>0, <2>1, <2>2 DEF ScanAccounted, gattlibScans
  <2>6. OneAfterTheOther'
    BY <2>1, <2>2 DEF OneAfterTheOther
  <2>7. QED
    BY <2>1, <2>4, <2>5, <2>6 DEF Undisturbed
<1>4. CASE StopScan
  <2>1. /\ \A a \in unfinished : a.op \in ScanOps
        /\ adapter_is_open'
        /\ UNCHANGED <<is_scanning, connected_to, connection, reportQueue, draining, gattlib>>
    BY <1>4 DEF StopScan, MayStopScan, openAdapterIfRequired, unfinished, UnfinishedOf
  <2>2. PICK op \in Stops : unfinished' \subseteq
               unfinished \cup {[id |-> nextId, op |-> op, dev |-> None, state |-> "Pending"]}
            /\ \A b \in unfinished : isPending(b) => b \in unfinished'
    <3>1. CASE is_scanning /\ scanRuns
      <4>1. /\ asyncActions # <<>> /\ isRunning(front) /\ front \in Actions
            /\ queueAsyncAction(withState("Completed"), "stopScan", None)
        BY <1>0, <1>4, <3>1, FrontLemma DEF StopScan, scanRuns
      <4>2. unfinished' = (unfinished \ {front}) \cup
                 {[id |-> nextId, op |-> "stopScan", dev |-> None, state |-> "Pending"]}
        BY <1>0, <4>1, WithStateLemma, EnqueueUnfinished, MarkUnfinished
      <4>3. ~isPending(front)
        BY <4>1 DEF isPending, isRunning
      <4>4. QED
        BY <4>2, <4>3 DEF Stops
    <3>2. CASE ~(is_scanning /\ scanRuns)
      <4>1. PICK op \in Stops : queueAsyncAction(asyncActions, op, None)
        BY <1>4, <3>2 DEF StopScan, Stops
      <4>2. unfinished' = unfinished \cup
                 {[id |-> nextId, op |-> op, dev |-> None, state |-> "Pending"]}
        BY <1>0, <4>1, EnqueueUnfinished DEF unfinished
      <4>3. QED
        BY <4>2
    <3>3. QED
      BY <3>1, <3>2
  <2>0. PICK a : a = [id |-> nextId, op |-> op, dev |-> None, state |-> "Pending"]
    OBVIOUS
  <2>3. a.op \in Stops /\ isPending(a) /\ ~isRunning(a) /\ a.id = nextId /\ nextId \in Nat
    BY <1>0, <2>0 DEF isPending, isRunning, QueueInv, TypeOK
  <2>4. unfinished' \subseteq unfinished \cup {a}
    BY <2>0, <2>2
  <2>5. StillReady(a)'
    BY <2>1, <2>3 DEF StillReady, Stops, ScanOps, isPending, isRunning
  <2>6. ASSUME NEW b \in unfinished PROVE StillReady(b)'
    BY <1>0, <2>1, <2>6 DEF StillReady, ScanOps, gattlibScans, isPending, isRunning
  <2>7. ScanAccounted'
    BY <1>0, <2>1, <2>2 DEF ScanAccounted, gattlibScans, ScanOps, isPending
  <2>8. OneAfterTheOther'
    <3>1. SUFFICES ASSUME NEW b \in unfinished \cup {a}, NEW c \in unfinished \cup {a}, b.id < c.id
                   PROVE  b.op \in ScanOps /\ c.op \in Stops
      BY <2>4 DEF OneAfterTheOther
    <3>2. \A e \in unfinished : e.id \in Nat /\ e.id < nextId
      BY <1>0, UnfinishedAre DEF Actions, Ids
    <3>3. b # a
      BY <2>3, <3>1, <3>2
    <3>4. QED
      BY <1>0, <2>1, <2>3, <3>1, <3>3 DEF OneAfterTheOther
  <2>9. QED
    BY <2>4, <2>5, <2>6, <2>7, <2>8 DEF Undisturbed
<1>5. QED
  BY <1>1, <1>2, <1>3, <1>4 DEF Request, Disconnect, Read, Write

\* Steps that touch neither what is unfinished nor what it was checked for.
LEMMA UndisturbedKept ==
  ASSUME SerialInv, unfinished' = unfinished,
         UNCHANGED <<adapter_is_open, is_scanning, connected_to, connection>>,
         \A g \in gattlib \cup gattlib' : g.op \in ScanOps => (g \in gattlib <=> g \in gattlib'),
         discoveryUnderWay' <=> discoveryUnderWay
  PROVE  Undisturbed'
<1>1. gattlibScans' <=> gattlibScans
  BY DEF gattlibScans
<1>2. (\A g \in gattlib : g.op # "startScan") => \A g \in gattlib' : g.op # "startScan"
  BY DEF ScanOps
<1>3. ASSUME NEW a \in unfinished PROVE StillReady(a)'
  BY <1>1, <1>2, <1>3 DEF SerialInv, Undisturbed, StillReady, isPending, isRunning
<1>4. QED
  BY <1>1, <1>3 DEF SerialInv, Undisturbed, OneAfterTheOther, ScanAccounted, isPending, isRunning

\* Nothing is left unfinished.
LEMMA NothingLeft ==
  ASSUME unfinished' = {}, is_scanning' <=> gattlibScans' PROVE Undisturbed'
BY DEF Undisturbed, OneAfterTheOther, ScanAccounted

\* An action other than a scan, concluded; the scans of gattlib go on.
LEMMA ConcludedAlone ==
  ASSUME SerialInv, asyncActions # <<>>, ~isDone(front), front.op \notin ScanOps,
         isRunning(front) => front.op # "stopScan",
         asyncActions' = withState("Completed"), UNCHANGED is_scanning,
         \A g \in gattlib \cup gattlib' : g.op \in ScanOps => (g \in gattlib <=> g \in gattlib')
  PROVE  Undisturbed'
<1>1. unfinished = {front} /\ unfinished' = {}
  BY FrontAlone, ConcludeUnfinished DEF SerialInv
<1>2. is_scanning <=> gattlibScans
  BY <1>1 DEF SerialInv, Undisturbed, ScanAccounted
<1>3. gattlibScans' <=> gattlibScans
  BY DEF gattlibScans
<1>4. QED
  BY <1>1, <1>2, <1>3, NothingLeft

\* Every answer of gattlib meets the action it is for as that was checked.
LEMMA DeliverUndisturbed ==
  ASSUME SerialInv, Deliver PROVE Undisturbed'
<1>0. /\ QueueInv /\ OneAfterTheOther /\ (\A a \in unfinished : StillReady(a)) /\ ScanAccounted
  BY DEF SerialInv, Undisturbed
<1>1. ASSUME NEW g \in gattlib, DeviceDiscovered(g) PROVE Undisturbed'
  <2>1. UNCHANGED <<asyncActions, central, gattlib, reportQueue, draining>>
    BY <1>1 DEF DeviceDiscovered
  <2>2. QED
    BY <2>1, SameUnfinished, UndisturbedKept DEF central, discoveryUnderWay, StepDue
<1>2. ASSUME NEW g \in gattlib, Answer(g) PROVE Undisturbed'
  <2>1. g.op # "startScan" /\ answers(g)
    BY <1>2 DEF Answer, ScanEnded, DeviceConnected, DeviceDisconnected, ReadAnswered, WriteAnswered
  <2>2. /\ asyncActions # <<>> /\ isRunning(front) /\ ~isDone(front) /\ front.op = g.op
        /\ NoOwnReport(reportQueue) /\ NoOwnReport(draining)
        /\ \A h \in gattlib' : h.op = "startScan"
        /\ gattlib' = gattlib \ {g}
        /\ front \in unfinished /\ StillReady(front)
    BY <1>0, <2>1, AnswerFinds, UnfinishedAre DEF isRunning, isDone, answers
  <2>3. g.op \notin ScanOps =>
          \A h \in gattlib \cup gattlib' : h.op \in ScanOps => (h \in gattlib <=> h \in gattlib')
    BY <2>2
  <2>4. ASSUME NEW result, currentOp(result) PROVE asyncActions' = withState("Completed")
    BY <2>2, <2>4 DEF currentOp, completedWith
  <2>5. CASE ScanEnded(g)
    <3>1. /\ ~is_scanning' /\ asyncActions' = withState("Completed")
          /\ UNCHANGED <<adapter_is_open, connected_to, connection, reportQueue, draining>>
      BY <2>4, <2>5 DEF ScanEnded
    <3>2. unfinished' = unfinished \ {front}
      BY <1>0, <2>2, <3>1, ConcludeUnfinished
    <3>3. ~gattlibScans'
      <4>1. CASE g.op = "scan"
        BY <2>2, <4>1 DEF StillReady, gattlibScans
      <4>2. CASE g.op = "stopScan"
        BY <2>2, <4>2 DEF StillReady, gattlibScans
      <4>3. QED
        BY <2>5, <4>1, <4>2 DEF ScanEnded
    <3>4. CASE g.op = "scan"
      <4>1. ASSUME NEW a \in unfinished' PROVE a.op \in Stops /\ isPending(a) /\ a \in unfinished
        BY <2>2, <3>2, <3>4, <4>1, BehindScan DEF ScanOps
      <4>2. ASSUME NEW a \in unfinished' PROVE StillReady(a)'
        BY <1>0, <3>1, <4>1, <4>2 DEF StillReady, Stops, ScanOps, isPending, isRunning
      <4>3. OneAfterTheOther'
        BY <1>0, <3>2 DEF OneAfterTheOther
      <4>4. QED
        BY <3>1, <3>3, <4>2, <4>3 DEF Undisturbed, ScanAccounted
    <3>5. CASE g.op = "stopScan"
      <4>1. unfinished' = {}
        BY <2>2, <3>2, <3>5, FrontAlone DEF ScanOps
      <4>2. QED
        BY <3>1, <3>3, <4>1, NothingLeft
    <3>6. QED
      BY <2>5, <3>4, <3>5 DEF ScanEnded
  <2>6. ASSUME NEW peer \in {g.dev, None}, DeviceConnected(g, peer) PROVE Undisturbed'
    <3>1. /\ g.op = "connect" /\ front.op \notin ScanOps /\ front.op # "stopScan"
          /\ front.dev \in Devices /\ connected_to = front.dev /\ connected_to # None
          /\ UNCHANGED <<adapter_is_open, is_scanning, connected_to, draining>>
          /\ connection' = [connection EXCEPT ![connected_to] = peer]
      BY <2>2, <2>6, BLECentralAssumption DEF DeviceConnected, StillReady, ScanOps
    <3>2. CASE discovers(peer)
      <4>1. /\ peer # None /\ UNCHANGED asyncActions
            /\ reportQueue' = Append(reportQueue, [op |-> "discoverServices", id |-> 0])
        BY <2>6, <3>1, <3>2 DEF DeviceConnected, discovers, pushReport
      <4>2. unfinished' = {front} /\ unfinished = {front} /\ front' = front
        BY <2>2, <3>1, <4>1, FrontAlone, SameUnfinished DEF front
      <4>3. connection'[front.dev] # None
        BY <1>0, <3>1, <4>1 DEF QueueInv, TypeOK
      <4>4. discoveryUnderWay'
        <5>1. reportQueue \in Seq(Reports) /\ [op |-> "discoverServices", id |-> 0] \in Reports
          BY <1>0 DEF QueueInv, TypeOK, Reports
        <5>2. /\ Len(reportQueue) + 1 \in DOMAIN reportQueue'
              /\ reportQueue'[Len(reportQueue) + 1].op \in ConnectSteps
          BY <4>1, <5>1 DEF ConnectSteps
        <5>3. QED
          BY <5>2 DEF discoveryUnderWay, StepDue
      <4>5. PICK a : a = front
        OBVIOUS
      <4>6. StillReady(a)'
        BY <2>2, <3>1, <4>3, <4>4, <4>5 DEF StillReady, ScanOps
      <4>7. ScanAccounted'
        <5>1. gattlibScans' <=> gattlibScans
          BY <2>2, <2>3, <3>1 DEF gattlibScans
        <5>2. is_scanning <=> gattlibScans
          BY <1>0, <2>2, <3>1, <4>2 DEF ScanAccounted
        <5>3. QED
          BY <3>1, <5>1, <5>2 DEF ScanAccounted
      <4>8. OneAfterTheOther'
        BY <1>0, <4>2 DEF OneAfterTheOther
      <4>9. QED
        BY <4>2, <4>5, <4>6, <4>7, <4>8 DEF Undisturbed
    <3>3. CASE ~discovers(peer)
      <4>1. asyncActions' = withState("Completed")
        BY <2>4, <2>6, <3>1, <3>3 DEF DeviceConnected
      <4>2. QED
        BY <2>2, <2>3, <3>1, <4>1, ConcludedAlone
    <3>4. QED
      BY <3>2, <3>3
  <2>7. CASE DeviceDisconnected(g) \/ \E result \in {"ok", "fail"} : WriteAnswered(g, result)
    <3>1. /\ front.op \notin ScanOps /\ front.op # "stopScan" /\ UNCHANGED is_scanning
          /\ asyncActions' = withState("Completed")
      BY <2>2, <2>4, <2>7 DEF DeviceDisconnected, WriteAnswered, ScanOps, central
    <3>2. QED
      BY <2>2, <2>3, <3>1, ConcludedAlone
  <2>8. ASSUME NEW empty, ReadAnswered(g, empty) PROVE Undisturbed'
    <3>1. /\ front.op \notin ScanOps /\ front.op # "stopScan" /\ UNCHANGED <<central, draining>>
      BY <2>2, <2>8 DEF ReadAnswered, ScanOps
    <3>2. CASE empty
      <4>1. UNCHANGED <<asyncActions, reportQueue>>
        BY <2>8, <3>2 DEF ReadAnswered
      <4>2. QED
        BY <2>2, <2>3, <3>1, <4>1, SameUnfinished, UndisturbedKept
           DEF central, discoveryUnderWay, StepDue
    <3>3. CASE ~empty
      <4>1. asyncActions' = withState("Completed")
        BY <2>2, <2>8, <3>3 DEF ReadAnswered, readDataReceived
      <4>2. QED
        BY <2>2, <2>3, <3>1, <4>1, ConcludedAlone DEF central
    <3>4. QED
      BY <3>2, <3>3
  <2>9. QED
    BY <1>2, <2>5, <2>6, <2>7, <2>8 DEF Answer
<1>3. QED
  BY <1>1, <1>2 DEF Deliver

\* The callbacks of the report queue leave all but a connect alone.
LEMMA RunReportUndisturbed ==
  ASSUME SerialInv, RunReport PROVE Undisturbed'
<1>0. /\ QueueInv /\ (\A a \in unfinished : StillReady(a)) /\ ScanAccounted
      /\ draining \in Seq(Reports) /\ reportQueue \in Seq(Reports)
  BY DEF SerialInv, Undisturbed, QueueInv, TypeOK
<1>1. draining # <<>> /\ draining' = Tail(draining) /\ UNCHANGED <<central, gattlib>>
  BY DEF RunReport, DiscoverServicesStep, DiscoverCharacteristicsStep, ConnectedStep, DataStep,
         UserStep, NullStep, runs
<1>2. ASSUME NEW op \in ConnectSteps, runs(op)
      PROVE  /\ asyncActions # <<>> /\ isRunning(front) /\ ~isDone(front) /\ front.op = "connect"
             /\ front.op \notin ScanOps /\ discoveryUnderWay
  <2>1. Head(draining).op = op /\ Belongs(Head(draining))
    BY <1>0, <1>2, OwnReportRuns DEF OwnReports
  <2>2. 1 \in DOMAIN draining /\ Head(draining) = draining[1]
    BY <1>0, <1>1
  <2>3. QED
    BY <1>2, <2>1, <2>2
       DEF Belongs, ConnectSteps, isRunning, isDone, ScanOps, discoveryUnderWay, StepDue
<1>3. ASSUME NEW op \in ConnectSteps, NEW step \in ConnectSteps, runs(op), pushReport(step, 0),
             UNCHANGED asyncActions
      PROVE  Undisturbed'
  <2>1. [op |-> step, id |-> 0] \in Reports
    BY DEF Reports, ConnectSteps
  <2>2. /\ Len(reportQueue) + 1 \in DOMAIN reportQueue'
        /\ reportQueue'[Len(reportQueue) + 1].op \in ConnectSteps
    BY <1>0, <1>3, <2>1 DEF pushReport
  <2>3. discoveryUnderWay /\ discoveryUnderWay'
    BY <1>2, <1>3, <2>2 DEF discoveryUnderWay, StepDue
  <2>4. QED
    BY <1>1, <1>3, <2>3, SameUnfinished, UndisturbedKept DEF central
<1>4. CASE ConnectedStep
  <2>1. runs("connected") /\ currentOp("ok") /\ "connected" \in ConnectSteps
    BY <1>4 DEF ConnectedStep, ConnectSteps
  <2>2. /\ asyncActions # <<>> /\ isRunning(front) /\ ~isDone(front) /\ front.op = "connect"
        /\ asyncActions' = withState("Completed")
    BY <1>2, <2>1 DEF currentOp, completedWith
  <2>3. QED
    BY <1>1, <1>2, <2>1, <2>2, ConcludedAlone DEF central
<1>5. ASSUME NEW op \in {"data", "user", "null"}, runs(op), UNCHANGED <<asyncActions, reportQueue>>
      PROVE  Undisturbed'
  <2>1. Head(draining).op \notin ConnectSteps
    BY <1>5 DEF runs, ConnectSteps
  <2>2. /\ 1 \in DOMAIN draining /\ Head(draining) = draining[1]
        /\ \A i \in DOMAIN draining' : i + 1 \in DOMAIN draining /\ draining'[i] = draining[i + 1]
    BY <1>0, <1>1, TailReport
  <2>3. \A i \in DOMAIN draining : i = 1 \/ (i - 1 \in DOMAIN draining' /\ draining'[i - 1] = draining[i])
    <3>1. /\ DOMAIN draining = 1..Len(draining) /\ Len(draining) \in Nat \ {0}
          /\ DOMAIN draining' = 1..(Len(draining) - 1)
      BY <1>0, <1>1
    <3>2. ASSUME NEW i \in DOMAIN draining, i # 1
          PROVE  i - 1 \in 1..(Len(draining) - 1) /\ (i - 1) + 1 = i
      BY <3>1, <3>2
    <3>3. QED
      BY <2>2, <3>1, <3>2
  <2>4. StepDue(draining') <=> StepDue(draining)
    BY <2>1, <2>2, <2>3 DEF StepDue
  <2>5. discoveryUnderWay' <=> discoveryUnderWay
    BY <1>5, <2>4 DEF discoveryUnderWay, StepDue
  <2>6. QED
    BY <1>1, <1>5, <2>5, SameUnfinished, UndisturbedKept DEF central
<1>6. {"discoverServices", "discoverCharacteristics", "connected"} = ConnectSteps
  BY DEF ConnectSteps
<1>7. QED
  BY <1>3, <1>4, <1>5, <1>6 DEF RunReport, DiscoverServicesStep, DiscoverCharacteristicsStep,
     DataStep, UserStep, NullStep

\* The first action is started as what it was asked for as, or concluded.
LEMMA FrontTurnUndisturbed ==
  ASSUME SerialInv, FrontTurn PROVE Undisturbed'
<1>0. /\ QueueInv /\ OneAfterTheOther /\ (\A a \in unfinished : StillReady(a)) /\ ScanAccounted
  BY DEF SerialInv, Undisturbed
<1>1. /\ UNCHANGED <<adapter_is_open, connected_to, connection, reportQueue, draining>>
      /\ discoveryUnderWay' <=> discoveryUnderWay
  BY DEF FrontTurn, TriggerAccepted, TriggerRefused, TriggerStopScanDone, PopDone, NothingToDo,
         returns, discoveryUnderWay, StepDue
<1>2. ASSUME asyncActions # <<>>, isPending(front)
      PROVE  /\ front \in unfinished /\ front \in Actions /\ StillReady(front)
             /\ ~isRunning(front) /\ ~isDone(front)
  BY <1>0, <1>2, UnfinishedAre DEF isPending, isRunning, isDone
<1>3. CASE TriggerAccepted
  <2>1. /\ asyncActions # <<>> /\ isPending(front)
        /\ asyncActions' = withState("Triggered") /\ gattlib' = acceptedCalls
        /\ UNCHANGED is_scanning
    BY <1>3 DEF TriggerAccepted
  <2>2. PICK t : t = [front EXCEPT !.state = "Triggered"]
    OBVIOUS
  <2>3. /\ t.op = front.op /\ t.dev = front.dev /\ t.id = front.id
        /\ isRunning(t) /\ ~isPending(t)
    BY <1>2, <2>1, <2>2 DEF Actions, isRunning, isPending
  <2>4. unfinished' = (unfinished \ {front}) \cup {t}
    BY <1>0, <2>1, <2>2, TriggerUnfinished
  <2>5. OneAfterTheOther'
    BY <1>0, <1>2, <2>1, <2>3, <2>4 DEF OneAfterTheOther
  <2>6. CASE front.op \in ScanOps
    <3>1. /\ is_scanning /\ ~gattlibScans /\ adapter_is_open
          /\ gattlib' = gattlib \cup {[id |-> front.id, op |-> front.op, dev |-> front.dev]}
      BY <1>2, <2>1, <2>6 DEF StillReady, acceptedCalls, ScanOps
    <3>2. StillReady(t)'
      BY <1>1, <2>3, <2>6, <3>1 DEF StillReady, gattlibScans, ScanOps, isPending, isRunning
    <3>3. ASSUME NEW a \in unfinished \ {front} PROVE StillReady(a)'
      <4>1. a.op \in Stops /\ isPending(a)
        BY <1>2, <2>1, <2>6, <3>3, BehindScan
      <4>2. QED
        BY <1>0, <1>1, <3>3, <4>1 DEF StillReady, Stops, ScanOps, isPending, isRunning
    <3>4. gattlibScans'
      <4>1. PICK g : g = [id |-> front.id, op |-> front.op, dev |-> front.dev]
        OBVIOUS
      <4>2. g \in gattlib' /\ g.op \in ScanOps
        BY <2>6, <3>1, <4>1
      <4>3. QED
        BY <4>2 DEF gattlibScans
    <3>5. ScanAccounted'
      BY <2>1, <3>1, <3>4 DEF ScanAccounted
    <3>6. QED
      BY <2>4, <2>5, <3>2, <3>3, <3>5 DEF Undisturbed
  <2>7. CASE front.op = "stopScan"
    <3>1. unfinished' = {t} /\ ~gattlibScans' /\ adapter_is_open
      BY <1>2, <2>1, <2>4, <2>7, FrontAlone DEF StillReady, acceptedCalls, gattlibScans, ScanOps
    <3>2. StillReady(t)'
      BY <1>1, <2>3, <2>7, <3>1 DEF StillReady, ScanOps
    <3>3. ScanAccounted'
      BY <2>3, <2>7, <3>1 DEF ScanAccounted, isRunning
    <3>4. QED
      BY <2>5, <3>1, <3>2, <3>3 DEF Undisturbed
  <2>8. CASE front.op \notin ScanOps \cup {"stopScan"}
    <3>1. /\ unfinished = {front} /\ unfinished' = {t}
          /\ gattlib' = gattlib \cup {[id |-> front.id, op |-> front.op, dev |-> front.dev]}
      BY <1>2, <2>1, <2>4, <2>8, FrontAlone DEF acceptedCalls
    <3>2. StillReady(t)'
      BY <1>1, <1>2, <2>1, <2>3, <2>8 DEF StillReady, ScanOps
    <3>3. gattlibScans' <=> gattlibScans
      BY <2>8, <3>1 DEF gattlibScans
    <3>4. is_scanning <=> gattlibScans
      BY <1>0, <2>8, <3>1 DEF ScanAccounted
    <3>5. ScanAccounted'
      BY <2>1, <3>3, <3>4 DEF ScanAccounted
    <3>6. QED
      BY <2>5, <3>1, <3>2, <3>5 DEF Undisturbed
  <2>9. QED
    BY <2>6, <2>7, <2>8
<1>4. CASE TriggerRefused \/ TriggerStopScanDone
  <2>1. /\ asyncActions # <<>> /\ isPending(front) /\ asyncActions' = withState("Completed")
        /\ UNCHANGED gattlib
        /\ is_scanning' = (is_scanning /\ front.op \notin ScanOps)
    BY <1>0, <1>4 DEF TriggerRefused, TriggerStopScanDone, completedWith, ScanOps, QueueInv, TypeOK
  <2>2. CASE front.op \in ScanOps
    <3>1. ~is_scanning' /\ ~gattlibScans'
      BY <1>2, <2>1, <2>2 DEF StillReady, gattlibScans
    <3>2. unfinished' = unfinished \ {front}
      BY <1>0, <2>1, ConcludeUnfinished
    <3>3. ASSUME NEW a \in unfinished \ {front} PROVE StillReady(a)'
      <4>1. a.op \in Stops /\ isPending(a)
        BY <1>2, <2>1, <2>2, <3>3, BehindScan
      <4>2. QED
        BY <1>0, <1>1, <3>3, <4>1 DEF StillReady, Stops, ScanOps, isPending, isRunning
    <3>4. QED
      BY <1>0, <3>1, <3>2, <3>3 DEF Undisturbed, OneAfterTheOther, ScanAccounted
  <2>3. CASE front.op \notin ScanOps
    <3>1. UNCHANGED is_scanning
      BY <1>0, <2>1, <2>3 DEF QueueInv, TypeOK
    <3>2. QED
      BY <1>2, <2>1, <2>3, <3>1, ConcludedAlone
  <2>4. QED
    BY <2>2, <2>3
<1>5. CASE PopDone \/ NothingToDo
  <2>1. unfinished' = unfinished
    BY <1>0, <1>5, PopUnfinished, SameUnfinished DEF PopDone, NothingToDo
  <2>2. UNCHANGED <<is_scanning, gattlib>>
    BY <1>5 DEF PopDone, NothingToDo
  <2>3. QED
    BY <1>1, <2>1, <2>2, UndisturbedKept
<1>6. QED
  BY <1>3, <1>4, <1>5 DEF FrontTurn

-----------------------------------------------------------------------------
(* The invariant                                                           *)

\* SerialInv holds at the start.
LEMMA SerialInit == BLECentralAssumption /\ Init => SerialInv
<1> SUFFICES ASSUME BLECentralAssumption, Init PROVE SerialInv
  OBVIOUS
<1>1. QueueInv
  BY QueueInit
<1>2. unfinished = {} /\ ~is_scanning /\ gattlib = {}
  BY DEF Init, unfinished, UnfinishedOf
<1>3. QED
  BY <1>1, <1>2 DEF SerialInv, Undisturbed, OneAfterTheOther, ScanAccounted, gattlibScans

\* Every step keeps SerialInv.
LEMMA SerialStep ==
  ASSUME BLECentralAssumption, Serial, SerialInv, [Next]_vars
  PROVE  SerialInv'
<1>1. QueueInv'
  BY QueueStep DEF SerialInv, Serial
<1> SUFFICES Undisturbed'
  BY <1>1 DEF SerialInv
<1>2. CASE Request
  BY <1>2, RequestUndisturbed DEF Serial
<1>3. CASE ProcessAsync \/ TakeReports \/ UNCHANGED vars
  <2>1. UNCHANGED <<asyncActions, central, gattlib>>
    BY <1>3 DEF ProcessAsync, TakeReports, vars
  <2>2. discoveryUnderWay' <=> discoveryUnderWay
    <3>1. CASE TakeReports
      <4>1. draining = <<>> /\ reportQueue' = <<>> /\ draining' = reportQueue
        BY <3>1 DEF TakeReports, SerialInv, QueueInv, WaitingInv, ReportsInPhase
      <4>2. QED
        BY <4>1 DEF discoveryUnderWay, StepDue
    <3>2. CASE UNCHANGED <<reportQueue, draining>>
      BY <3>2 DEF discoveryUnderWay, StepDue
    <3>3. QED
      BY <1>3, <3>1, <3>2 DEF ProcessAsync, vars
  <2>3. QED
    BY <2>1, <2>2, SameUnfinished, UndisturbedKept DEF central
<1>4. QED
  BY <1>2, <1>3, DeliverUndisturbed, RunReportUndisturbed, FrontTurnUndisturbed DEF Next, Tick

\* SerialInv holds throughout.
LEMMA SerialInvariant == Serial => (Spec => []SerialInv)
<1> SUFFICES ASSUME Serial PROVE Spec => []SerialInv
  OBVIOUS
<1>1. Init => SerialInv
  BY BLECentralAssumption, SerialInit
<1>2. SerialInv /\ [Next]_vars => SerialInv'
  BY BLECentralAssumption, SerialStep
<1>3. QED
  BY <1>1, <1>2, PTL DEF Spec

\* The flag is_scanning is right: it is set while gattlib scans, and scan() is
\* not refused for good when it does not.
THEOREM ScanFlagRight == Serial => (Spec => []ScanFlagTruthful)
<1>1. SerialInv => ScanFlagTruthful
  <2> SUFFICES ASSUME SerialInv PROVE ScanFlagTruthful
    OBVIOUS
  <2>1. asyncActions = <<>> => unfinished = {}
    BY UnfinishedAre DEF SerialInv
  <2>2. QED
    BY <2>1 DEF SerialInv, Undisturbed, ScanAccounted, gattlibScans, ScanFlagTruthful
<1>2. QED
  BY <1>1, SerialInvariant, PTL

-----------------------------------------------------------------------------
(* Calls of gattlib                                                        *)

\* The only new call is that of the first action, as it is triggered.
LEMMA NewCall ==
  ASSUME [Next]_vars, NEW g \in gattlib' \ gattlib
  PROVE  /\ asyncActions # <<>> /\ isPending(front)
         /\ g = [id |-> front.id, op |-> front.op, dev |-> front.dev]
<1>1. ~(UNCHANGED gattlib)
  OBVIOUS
<1>2. ~ Request
  BY <1>1 DEF Request, AdapterOpen, AdapterClose, SetAutoDiscoverOnConnect, Enable, Scan, StopScan,
     Connect, Disconnect, Read, Write, UseConnection
<1>3. ~ Deliver
  <2>1. ASSUME NEW h \in gattlib, DeviceDiscovered(h) PROVE FALSE
    BY <1>1, <2>1 DEF DeviceDiscovered
  <2>2. ASSUME NEW h \in gattlib, Answer(h) PROVE gattlib' = gattlib \ {h}
    BY <2>2 DEF Answer, ScanEnded, DeviceConnected, DeviceDisconnected, ReadAnswered,
       WriteAnswered, answers
  <2>3. QED
    BY <2>1, <2>2 DEF Deliver
<1>4. ~ (ProcessAsync \/ TakeReports \/ RunReport)
  BY <1>1 DEF ProcessAsync, TakeReports, RunReport, DiscoverServicesStep,
     DiscoverCharacteristicsStep, ConnectedStep, DataStep, UserStep, NullStep, runs
<1>5. TriggerAccepted
  BY <1>1, <1>2, <1>3, <1>4 DEF Next, Tick, FrontTurn, TriggerRefused, TriggerStopScanDone,
     PopDone, NothingToDo, vars
<1>6. QED
  BY <1>5 DEF TriggerAccepted, acceptedCalls

\* The connection and the adapter that were checked when the operation was
\* requested are still so when gattlib is called, ticks later (BLECentral.cpp,
\* the triggers of connect(), disconnect(), read(), write() and the scans).
THEOREM LegalCalls == Serial => (Spec => CallsAreLegal)
<1> SUFFICES ASSUME Serial PROVE Spec => CallsAreLegal
  OBVIOUS
<1>1. ASSUME SerialInv, [Next]_vars, NEW g \in gattlib' \ gattlib
      PROVE  /\ g.op \in {"disconnect", "read", "write"} => connection[g.dev] # None
             /\ g.op = "connect" => connection[g.dev] = None
             /\ g.op \in ScanOps \cup {"stopScan"} => adapter_is_open
  <2>1. /\ asyncActions # <<>> /\ isPending(front)
        /\ g.op = front.op /\ g.dev = front.dev
    BY <1>1, NewCall
  <2>2. front \in unfinished /\ ~isRunning(front)
    BY <1>1, <2>1, UnfinishedAre DEF SerialInv, isPending, isDone, isRunning
  <2>3. StillReady(front)
    BY <1>1, <2>2 DEF SerialInv, Undisturbed
  <2>4. ~discoveryUnderWay
    BY <1>1, <2>1, NothingDue
       DEF SerialInv, QueueInv, WaitingInv, NoOwnReport, OwnReports, discoveryUnderWay, StepDue
  <2>5. QED
    BY <2>1, <2>3, <2>4 DEF StillReady
<1>2. SerialInv /\ [Next]_vars =>
        [\A g \in gattlib' \ gattlib :
           /\ g.op \in {"disconnect", "read", "write"} => connection[g.dev] # None
           /\ g.op = "connect" => connection[g.dev] = None
           /\ g.op \in ScanOps \cup {"stopScan"} => adapter_is_open]_vars
  BY <1>1
<1>3. QED
  BY <1>2, SerialInvariant, PTL DEF Spec, CallsAreLegal

-----------------------------------------------------------------------------
(* Callbacks that are there to be called, devices that are there to be     *)
(* connected                                                               *)

NoNull(q) == \A i \in DOMAIN q : q[i].op # "null"
CallbacksPresent == NoCrash /\ NoNull(reportQueue) /\ NoNull(draining)

\* No step pushes an empty callback if the application passes none.
LEMMA NoNullStep ==
  ASSUME "enableNull" \notin Ops, TypeOK, NoNull(reportQueue), NoNull(draining), [Next]_vars
  PROVE  NoNull(reportQueue') /\ NoNull(draining')
<1>1. reportQueue \in Seq(Reports) /\ draining \in Seq(Reports)
  BY DEF TypeOK
<1>2. ASSUME NEW op \in {"discoverServices", "discoverCharacteristics", "connected", "data", "user"},
             NEW id, pushReport(op, id)
      PROVE  NoNull(reportQueue')
  <2>1. PICK r : r = [op |-> op, id |-> id]
    OBVIOUS
  <2>2. r.op # "null" /\ reportQueue' = Append(reportQueue, r)
    BY <1>2, <2>1 DEF pushReport
  <2>3. /\ DOMAIN reportQueue' = DOMAIN reportQueue \cup {Len(reportQueue) + 1}
        /\ reportQueue'[Len(reportQueue) + 1] = r
        /\ \A i \in DOMAIN reportQueue : reportQueue'[i] = reportQueue[i]
    BY <1>1, <2>2
  <2>4. QED
    BY <2>2, <2>3 DEF NoNull
<1>3. NoNull(reportQueue')
  <2>1. CASE Request
    BY <1>2, <2>1 DEF Request, AdapterOpen, AdapterClose, SetAutoDiscoverOnConnect, Enable, Scan,
       StopScan, Connect, Disconnect, Read, Write, UseConnection, MayRequest
  <2>2. CASE Deliver
    BY <1>2, <2>2 DEF Deliver, Answer, DeviceDiscovered, ScanEnded, DeviceConnected,
       DeviceDisconnected, ReadAnswered, readDataReceived, WriteAnswered
  <2>3. CASE TakeReports
    BY <2>3 DEF TakeReports, NoNull
  <2>4. CASE ProcessAsync \/ RunReport
    BY <1>2, <2>4 DEF ProcessAsync, RunReport, DiscoverServicesStep, DiscoverCharacteristicsStep,
       ConnectedStep, DataStep, UserStep, NullStep
  <2>5. CASE FrontTurn \/ UNCHANGED vars
    BY <2>5 DEF FrontTurn, TriggerAccepted, TriggerRefused, TriggerStopScanDone, PopDone,
       NothingToDo, returns, vars
  <2>6. QED
    BY <2>1, <2>2, <2>3, <2>4, <2>5 DEF Next, Tick
<1>4. NoNull(draining')
  <2>1. draining' \in {draining, reportQueue} \/ (draining # <<>> /\ draining' = Tail(draining))
    BY DEF Next, Request, AdapterOpen, AdapterClose, SetAutoDiscoverOnConnect, Enable, Scan, StopScan,
       Connect, Disconnect, Read, Write, UseConnection, Deliver, Answer, DeviceDiscovered,
       ScanEnded, DeviceConnected, DeviceDisconnected, ReadAnswered, WriteAnswered, Tick,
       ProcessAsync, TakeReports, RunReport, DiscoverServicesStep, DiscoverCharacteristicsStep,
       ConnectedStep, DataStep, UserStep, NullStep, runs, FrontTurn, TriggerAccepted,
       TriggerRefused, TriggerStopScanDone, PopDone, NothingToDo, returns, vars
  <2>2. ASSUME draining # <<>> PROVE NoNull(Tail(draining))
    BY <1>1, <2>2, TailReport DEF NoNull
  <2>3. QED
    BY <2>1, <2>2
<1>5. QED
  BY <1>3, <1>4

\* The program does not crash: no empty callback is called, and a connection is
\* handed over only while connected_to names a device (BLECentral.cpp:1142).
THEOREM NeverCrashes == Serial /\ "enableNull" \notin Ops => (Spec => []NoCrash)
<1> SUFFICES ASSUME Serial, "enableNull" \notin Ops PROVE Spec => []NoCrash
  OBVIOUS
<1>1. Init => CallbacksPresent
  BY DEF Init, CallbacksPresent, NoCrash, NoNull
<1>2. SerialInv /\ CallbacksPresent /\ [Next]_vars => CallbacksPresent'
  <2> SUFFICES ASSUME SerialInv, CallbacksPresent, [Next]_vars PROVE CallbacksPresent'
    OBVIOUS
  <2>1. NoNull(reportQueue') /\ NoNull(draining')
    BY NoNullStep DEF CallbacksPresent, SerialInv, QueueInv
  <2>2. SUFFICES phase' # "crashed"
    BY <2>1 DEF CallbacksPresent, NoCrash, NoNull
  <2>3. CASE Deliver
    <3>1. ASSUME NEW g \in gattlib, NEW peer, DeviceConnected(g, peer) PROVE connected_to # None
      <4>1. /\ asyncActions # <<>> /\ isRunning(front) /\ front.op = "connect"
        BY <3>1, AnswerFinds DEF DeviceConnected, SerialInv
      <4>2. StillReady(front)
        BY <4>1, UnfinishedAre DEF SerialInv, Undisturbed, isRunning, isDone
      <4>3. QED
        BY <4>1, <4>2, BLECentralAssumption DEF StillReady
    <3>2. UNCHANGED phase
      BY <2>3, <3>1 DEF Deliver, Answer, DeviceDiscovered, ScanEnded, DeviceConnected,
         DeviceDisconnected, ReadAnswered, WriteAnswered
    <3>3. QED
      BY <3>2 DEF CallbacksPresent, NoCrash
  <2>4. CASE RunReport
    <3>1. ASSUME NullStep PROVE FALSE
      <4>1. draining # <<>> /\ Head(draining).op = "null" /\ draining \in Seq(Reports)
        BY <3>1 DEF NullStep, runs, SerialInv, QueueInv, TypeOK
      <4>2. 1 \in DOMAIN draining /\ draining[1].op = "null"
        BY <4>1, TailReport
      <4>3. QED
        BY <4>2 DEF CallbacksPresent, NoNull
    <3>2. UNCHANGED phase
      BY <2>4, <3>1 DEF RunReport, DiscoverServicesStep, DiscoverCharacteristicsStep,
         ConnectedStep, DataStep, UserStep
    <3>3. QED
      BY <3>2 DEF CallbacksPresent, NoCrash
  <2>5. CASE Request \/ UNCHANGED vars
    BY <2>5 DEF Request, AdapterOpen, AdapterClose, SetAutoDiscoverOnConnect, Enable, Scan, StopScan,
       Connect, Disconnect, Read, Write, UseConnection, vars, CallbacksPresent, NoCrash
  <2>6. CASE ProcessAsync \/ TakeReports \/ FrontTurn
    BY <2>6 DEF ProcessAsync, TakeReports, FrontTurn, TriggerAccepted, TriggerRefused,
       TriggerStopScanDone, PopDone, NothingToDo, returns
  <2>7. QED
    BY <2>3, <2>4, <2>5, <2>6 DEF Next, Tick
<1>3. CallbacksPresent => NoCrash
  BY DEF CallbacksPresent
<1>4. QED
  BY <1>1, <1>2, <1>3, SerialInvariant, PTL DEF Spec

-----------------------------------------------------------------------------
(* One device at a time                                                    *)

\* A handed over connection is the front action's, of the device connect() was
\* asked for, which had none so far.
LEMMA HandedOver ==
  ASSUME SerialInv, NEW g \in gattlib, NEW peer, DeviceConnected(g, peer)
  PROVE  /\ asyncActions # <<>> /\ isRunning(front) /\ front.op = "connect"
         /\ front.dev \in Devices /\ connected_to = front.dev /\ connection[front.dev] = None
         /\ g.dev = front.dev /\ connected_to # None
         /\ connection' = [connection EXCEPT ![front.dev] = peer]
         /\ UNCHANGED connected_to
<1>1. g.op = "connect" /\ answers(g) /\ UNCHANGED connected_to
  BY DEF DeviceConnected
<1>2. /\ asyncActions # <<>> /\ isRunning(front) /\ front.op = "connect"
      /\ NoOwnReport(reportQueue) /\ NoOwnReport(draining)
  BY <1>1, AnswerFinds DEF SerialInv
<1>3. StillReady(front)
  BY <1>2, UnfinishedAre DEF SerialInv, Undisturbed, isRunning, isDone
<1>4. ~discoveryUnderWay
  BY <1>2 DEF NoOwnReport, OwnReports, discoveryUnderWay, StepDue
<1>5. front.dev \in Devices /\ connected_to = front.dev /\ connection[front.dev] = None
  BY <1>2, <1>3, <1>4 DEF StillReady
<1>6. g.dev = front.dev
  BY <1>1 DEF SerialInv, QueueInv, WaitingInv, CallsMatchFront
<1>7. connected_to # None /\ connection' = [connection EXCEPT ![front.dev] = peer]
  BY <1>5, BLECentralAssumption DEF DeviceConnected
<1>8. QED
  BY <1>1, <1>2, <1>5, <1>6, <1>7

\* Connections change only when gattlib hands one over or reports one gone;
\* connected_to only then and in connect().
LEMMA ConnectionChanges ==
  ASSUME [Next]_vars
  PROVE  \/ UNCHANGED <<connected_to, connection>>
         \/ \E d \in Devices : Connect(d)
         \/ \E g \in gattlib : \E peer \in {g.dev, None} : DeviceConnected(g, peer)
         \/ \E g \in gattlib : DeviceDisconnected(g)
<1>1. CASE Request
  BY <1>1 DEF Request, AdapterOpen, AdapterClose, SetAutoDiscoverOnConnect, Enable, Scan, StopScan,
     Disconnect, Read, Write, UseConnection
<1>2. CASE Deliver
  BY <1>2 DEF Deliver, Answer, DeviceDiscovered, ScanEnded, ReadAnswered, WriteAnswered, central
<1>3. CASE Tick \/ UNCHANGED vars
  BY <1>3 DEF Tick, ProcessAsync, TakeReports, RunReport, DiscoverServicesStep,
     DiscoverCharacteristicsStep, ConnectedStep, DataStep, UserStep, NullStep, runs,
     FrontTurn, TriggerAccepted, TriggerRefused, TriggerStopScanDone, PopDone, NothingToDo,
     returns, vars, central
<1>4. QED
  BY <1>1, <1>2, <1>3 DEF Next

\* A step keeps the connections consistent.
LEMMA ConnectionStep ==
  ASSUME SerialInv, OneDevice, ConnectionConsistent, [Next]_vars
  PROVE  ConnectionConsistent'
<1>1. connection \in [Devices -> Devices \cup {None}] /\ None \notin Devices
  BY BLECentralAssumption DEF SerialInv, QueueInv, TypeOK
<1>2. CASE UNCHANGED <<connected_to, connection>>
  BY <1>2 DEF ConnectionConsistent
<1>3. ASSUME NEW d \in Devices, Connect(d) PROVE ConnectionConsistent'
  BY <1>3 DEF Connect, isConnected, ConnectionConsistent
<1>4. ASSUME NEW g \in gattlib, NEW peer \in {g.dev, None}, DeviceConnected(g, peer)
      PROVE  ConnectionConsistent'
  <2>1. /\ front.dev \in Devices /\ connected_to' = front.dev /\ connected_to = front.dev
        /\ connection[front.dev] = None /\ peer \in {front.dev, None}
        /\ connection' = [connection EXCEPT ![front.dev] = peer]
    BY <1>4, HandedOver
  <2>2. SUFFICES ASSUME NEW d \in Devices, connection'[d] # None
                 PROVE  connection'[d] = d /\ connected_to' = d
    BY DEF ConnectionConsistent
  <2>3. CASE d = front.dev
    BY <1>1, <2>1, <2>2, <2>3
  <2>4. CASE d # front.dev
    BY <1>1, <2>1, <2>2, <2>4 DEF ConnectionConsistent
  <2>5. QED
    BY <2>3, <2>4
<1>5. ASSUME NEW g \in gattlib, DeviceDisconnected(g) PROVE ConnectionConsistent'
  <2>1. \A d \in Devices : connection'[d] = None
    BY <1>1, <1>5 DEF DeviceDisconnected, forgetConnection, ConnectionConsistent
  <2>2. QED
    BY <2>1 DEF ConnectionConsistent
<1>6. QED
  BY <1>2, <1>3, <1>4, <1>5, ConnectionChanges

\* A connection is kept with the device it leads to, the one that connected_to
\* names, as deviceConnected(), deviceDisconnected() and shutdown() take it.
THEOREM ConnectionsConsistent == Serial /\ OneDevice => (Spec => []ConnectionConsistent)
<1> SUFFICES ASSUME Serial, OneDevice PROVE Spec => []ConnectionConsistent
  OBVIOUS
<1>1. Init => ConnectionConsistent
  BY DEF Init, ConnectionConsistent
<1>2. SerialInv /\ ConnectionConsistent /\ [Next]_vars => ConnectionConsistent'
  BY ConnectionStep
<1>3. QED
  BY <1>1, <1>2, SerialInvariant, PTL DEF Spec

-----------------------------------------------------------------------------
(* Reports                                                                 *)

\* The action whose reports grow is the one the step reports to.
LEMMA ReportFound ==
  ASSUME TypeOK, NEW id, NEW r, reportTo(id, r) \/ UNCHANGED outcome,
         NEW i \in Ids, NEW result, outcome'[i] = Append(outcome[i], result)
  PROVE  reportTo(id, r) /\ i = id /\ r = result
<1>1. outcome \in [Ids -> Seq({"ok", "fail", "cancelled"})]
  BY DEF TypeOK
<1>2. outcome[i] \in Seq({"ok", "fail", "cancelled"})
  BY <1>1
<1>3. PICK s : s = outcome[i]
  OBVIOUS
<1>4. s \in Seq({"ok", "fail", "cancelled"})
  BY <1>2, <1>3
<1>5. Len(Append(s, result)) = Len(s) + 1 /\ Len(s) \in Nat
  BY <1>4
<1>6. outcome'[i] # outcome[i]
  BY <1>3, <1>5
<1>7. outcome' = [outcome EXCEPT ![id] = Append(@, r)] /\ i = id
  BY <1>1, <1>6 DEF reportTo
<1>8. Append(s, r) = Append(s, result)
  BY <1>1, <1>3, <1>7
<1>9. Append(s, r)[Len(s) + 1] = r /\ Append(s, result)[Len(s) + 1] = result
  BY <1>4
<1>10. QED
  BY <1>6, <1>7, <1>8, <1>9

\* No two actions in the queue have the same id.
LEMMA FrontById ==
  ASSUME QueueInv, NEW k \in DOMAIN asyncActions, asyncActions[k].id = front.id
  PROVE  asyncActions[k] = front
<1>1. /\ asyncActions \in Seq(Actions) /\ nextId \in Nat
      /\ QueueMatches(asyncActions, outcome, nextId)
  BY DEF QueueInv, TypeOK
<1>2. 1 \in DOMAIN asyncActions /\ Len(asyncActions) \in Nat /\ k \in Nat
  BY <1>1
<1>3. /\ asyncActions[k].id = nextId - Len(asyncActions) + k - 1
      /\ front.id = nextId - Len(asyncActions) + 1 - 1
  BY <1>1, <1>2 DEF QueueMatches, front
<1>4. nextId - Len(asyncActions) + k - 1 = nextId - Len(asyncActions) + 1 - 1
  BY <1>3
<1>5. k = 1
  BY <1>1, <1>2, <1>4
<1>6. QED
  BY <1>5 DEF front

\* A success or a failure of a connect or of a disconnect: it is the first
\* action's, and what it tells is then so.
LEMMA ReportIsTrue ==
  ASSUME SerialInv, ConnectionConsistent, [Next]_vars,
         NEW k \in DOMAIN asyncActions, NEW result \in {"ok", "fail"},
         outcome'[asyncActions[k].id] = Append(outcome[asyncActions[k].id], result)
  PROVE  /\ asyncActions[k].op = "connect" =>
              (connection'[asyncActions[k].dev] # None <=> result = "ok")
         /\ asyncActions[k].op = "disconnect" /\ result = "ok" =>
              connection'[asyncActions[k].dev] = None
<1> DEFINE a == asyncActions[k]
           Told == /\ a.op = "connect" => (connection'[a.dev] # None <=> result = "ok")
                   /\ a.op = "disconnect" /\ result = "ok" => connection'[a.dev] = None
<1>0. /\ QueueInv /\ TypeOK /\ a \in Actions /\ a.id \in Ids /\ asyncActions # <<>>
      /\ connection \in [Devices -> Devices \cup {None}]
  <2>1. QueueInv /\ TypeOK
    BY DEF SerialInv, QueueInv
  <2>2. asyncActions \in Seq(Actions) /\ connection \in [Devices -> Devices \cup {None}]
    BY <2>1 DEF TypeOK
  <2>3. asyncActions[k] \in Actions /\ asyncActions # <<>>
    BY <2>2
  <2>4. QED
    BY <2>1, <2>2, <2>3 DEF Actions
<1>1. ASSUME UNCHANGED outcome PROVE FALSE
  BY <1>0, <1>1, ReportFound DEF reportTo
<1>2. ASSUME NEW r, completedWith(r)
      PROVE  a = front /\ r = result
  <2>1. reportTo(front.id, r) \/ UNCHANGED outcome
    BY <1>2 DEF completedWith
  <2>2. a.id = front.id /\ r = result
    BY <1>0, <2>1, ReportFound
  <2>3. QED
    BY <1>0, <2>2, FrontById
<1>3. ASSUME NEW r, currentOp(r) PROVE a = front /\ r = result
  BY <1>0, <1>2, <1>3 DEF currentOp
<1>4. CASE Request
  <2>1. StopScan
    BY <1>1, <1>4 DEF Request, AdapterOpen, AdapterClose, SetAutoDiscoverOnConnect, Enable, Scan,
       Connect, Disconnect, Read, Write, UseConnection
  <2>2. PICK r : r = "cancelled" /\ (reportTo(front.id, r) \/ UNCHANGED outcome)
    BY <2>1 DEF StopScan
  <2>3. r = result
    BY <1>0, <2>2, ReportFound
  <2>4. QED
    BY <2>2, <2>3
<1>5. ASSUME NEW g \in gattlib, Answer(g) PROVE Told
  <2>1. g.op # "startScan" => answers(g)
    BY <1>5 DEF Answer, ScanEnded, DeviceConnected, DeviceDisconnected, ReadAnswered, WriteAnswered
  <2>2. g.op # "startScan" => front.op = g.op /\ isRunning(front)
    BY <1>0, <2>1, AnswerFinds
  <2>3. CASE ScanEnded(g) \/ \E r \in {"ok", "fail"} : WriteAnswered(g, r)
    <3>1. g.op \in {"scan", "stopScan", "write"} /\ \E r : currentOp(r)
      BY <2>3 DEF ScanEnded, WriteAnswered
    <3>2. a = front /\ front.op \notin {"connect", "disconnect"}
      BY <1>3, <2>2, <3>1
    <3>3. QED
      BY <3>2
  <2>4. ASSUME NEW peer \in {g.dev, None}, DeviceConnected(g, peer) PROVE Told
    <3>1. /\ front.op = "connect" /\ front.dev \in Devices /\ connected_to # None
          /\ connection' = [connection EXCEPT ![front.dev] = peer]
      BY <2>4, HandedOver
    <3>2. a = front /\ result = connectResult(peer)
      BY <1>1, <1>3, <2>4, <3>1 DEF DeviceConnected
    <3>3. connection'[a.dev] = peer
      BY <1>0, <3>1, <3>2
    <3>4. QED
      BY <3>1, <3>2, <3>3 DEF connectResult
  <2>5. CASE DeviceDisconnected(g)
    <3>1. a = front /\ front.op = "disconnect" /\ isRunning(front) /\ g.op = "disconnect"
      BY <1>3, <2>2, <2>5 DEF DeviceDisconnected
    <3>2. StillReady(front)
      BY <1>0, <3>1, UnfinishedAre DEF SerialInv, Undisturbed, isRunning, isDone
    <3>3. front.dev \in Devices /\ connected_to = front.dev
      BY <3>1, <3>2 DEF StillReady, ConnectionConsistent
    <3>4. connection'[front.dev] = None
      BY <1>0, <2>5, <3>3, BLECentralAssumption DEF DeviceDisconnected, forgetConnection
    <3>5. QED
      BY <3>1, <3>4
  <2>6. ASSUME NEW empty, ReadAnswered(g, empty) PROVE FALSE
    BY <1>1, <2>6 DEF ReadAnswered, readDataReceived
  <2>7. QED
    BY <1>5, <2>3, <2>4, <2>5, <2>6 DEF Answer
<1>6. CASE Deliver
  <2>1. ASSUME NEW g, DeviceDiscovered(g) PROVE FALSE
    BY <1>1, <2>1 DEF DeviceDiscovered
  <2>2. QED
    BY <1>5, <1>6, <2>1 DEF Deliver
<1>7. CASE RunReport
  <2>1. CASE ConnectedStep
    <3>1. runs("connected") /\ currentOp("ok") /\ "connected" \in OwnReports
      BY <2>1 DEF ConnectedStep, OwnReports, ConnectSteps
    <3>2. /\ a = front /\ result = "ok" /\ UNCHANGED connection
          /\ Head(draining).op = "connected" /\ Belongs(Head(draining))
      BY <1>0, <1>3, <3>1, OwnReportRuns DEF runs, central
    <3>3. front.op = "connect" /\ isRunning(front)
      BY <3>2 DEF Belongs
    <3>4. StillReady(front)
      BY <1>0, <3>3, UnfinishedAre DEF SerialInv, Undisturbed, isRunning, isDone
    <3>5. discoveryUnderWay
      <4>1. draining # <<>> /\ draining \in Seq(Reports)
        BY <1>0, <3>1 DEF runs, TypeOK
      <4>2. 1 \in DOMAIN draining /\ draining[1] = Head(draining)
        BY <4>1
      <4>3. QED
        BY <3>2, <4>2 DEF discoveryUnderWay, StepDue, ConnectSteps
    <3>6. QED
      BY <3>2, <3>3, <3>4, <3>5 DEF StillReady
  <2>2. CASE DataStep
    <3>1. runs("data") /\ reportTo(Head(draining).id, "ok") /\ "data" \in OwnReports
      BY <2>2 DEF DataStep, OwnReports
    <3>2. Head(draining).op = "data" /\ Belongs(Head(draining)) /\ a.id = Head(draining).id
      BY <1>0, <3>1, OwnReportRuns, ReportFound
    <3>3. front.id = a.id /\ front.op = "read"
      BY <3>2 DEF Belongs
    <3>4. QED
      BY <1>0, <3>3, FrontById
  <2>3. QED
    BY <1>1, <1>7, <2>1, <2>2 DEF RunReport, DiscoverServicesStep, DiscoverCharacteristicsStep,
       UserStep, NullStep
<1>8. CASE FrontTurn
  <2>1. CASE TriggerRefused
    <3>1. a = front /\ result = "fail" /\ UNCHANGED connection /\ isPending(front)
      BY <1>2, <2>1 DEF TriggerRefused, returns
    <3>2. StillReady(front)
      BY <1>0, <3>1, UnfinishedAre DEF SerialInv, Undisturbed, isPending, isDone
    <3>3. ~discoveryUnderWay
      BY <1>0, <3>1, NothingDue
         DEF QueueInv, WaitingInv, NoOwnReport, OwnReports, discoveryUnderWay, StepDue
    <3>4. QED
      BY <3>1, <3>2, <3>3 DEF StillReady
  <2>2. CASE TriggerStopScanDone
    BY <1>2, <2>2 DEF TriggerStopScanDone
  <2>3. QED
    BY <1>1, <1>8, <2>1, <2>2 DEF FrontTurn, TriggerAccepted, PopDone, NothingToDo
<1>9. CASE ProcessAsync \/ TakeReports \/ UNCHANGED vars
  BY <1>1, <1>9 DEF ProcessAsync, TakeReports, vars
<1>10. QED
  BY <1>4, <1>6, <1>7, <1>8, <1>9 DEF Next, Tick

\* What connect() and disconnect() report is what isConnected() tells the
\* callback that receives the report.
THEOREM TrueReports == Serial /\ OneDevice => (Spec => ReportsAreTrue)
<1> SUFFICES ASSUME Serial, OneDevice PROVE Spec => ReportsAreTrue
  OBVIOUS
<1>1. SerialInv /\ ConnectionConsistent /\ [Next]_vars =>
        [\A a \in {asyncActions[i] : i \in DOMAIN asyncActions}, result \in {"ok", "fail"} :
           outcome'[a.id] = Append(outcome[a.id], result) =>
             /\ a.op = "connect" => (connection'[a.dev] # None <=> result = "ok")
             /\ a.op = "disconnect" /\ result = "ok" => connection'[a.dev] = None]_vars
  BY ReportIsTrue
<1>2. QED
  BY <1>1, SerialInvariant, ConnectionsConsistent, PTL DEF Spec, ReportsAreTrue

=============================================================================
