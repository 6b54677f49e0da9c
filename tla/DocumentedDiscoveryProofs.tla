---------------------- MODULE DocumentedDiscoveryProofs ----------------------
(***************************************************************************)
(* Proofs about Discovery for applications that keep to the README's       *)
(* limitations.                                                            *)
(*                                                                         *)
(* As long as connections are always discovered, a device that is          *)
(* connected while nothing is due has been discovered: what a read or a    *)
(* write is asked for is looked up in the map, and the map stays as it is  *)
(* while they are unfinished.  The steps of a discovery, ticks apart, are  *)
(* all about the peer handed over last, whose offer they find.             *)
(***************************************************************************)
EXTENDS DocumentedProofs, DiscoveryProofs

-----------------------------------------------------------------------------
(* References into the map                                                 *)

\* Every device that is connected has been discovered, or is being so.
Discovered ==
  \A d \in Devices : connection[d] # None => discovery_done[d] \/ \E k \in DOMAIN steps : steps[k] = d

\* The unfinished reads and writes refer to what is in the map.
UnfinishedRefer ==
  \A a \in unfinished : a.op \in {"read", "write"} => reference[a.id] = "live"

ReferenceInv == auto_discover /\ Discovered /\ UnfinishedRefer

-----------------------------------------------------------------------------
(* Where the unfinished actions come from                                  *)

\* Without a request, nothing is unfinished that was not.
LEMMA EarlierUnfinished ==
  ASSUME QueueInv, Deliver \/ Tick \/ UNCHANGED vars
  PROVE  \A a \in unfinished' : \E b \in unfinished : a.id = b.id /\ a.op = b.op
<1>1. CASE TriggerAccepted
  <2>1. /\ asyncActions # <<>> /\ ~isDone(front) /\ asyncActions' = withState("Triggered")
        /\ asyncActions \in Seq(Actions)
    BY <1>1 DEF TriggerAccepted, isPending, isDone, QueueInv, TypeOK
  <2>2. PICK t : t = [front EXCEPT !.state = "Triggered"]
    OBVIOUS
  <2>3. front \in unfinished /\ t.id = front.id /\ t.op = front.op
    BY <2>1, <2>2, UnfinishedAre, FrontLemma DEF Actions
  <2>4. unfinished' = (unfinished \ {front}) \cup {t}
    BY <2>1, <2>2, TriggerUnfinished
  <2>5. QED
    BY <2>3, <2>4
<1>2. ASSUME ~TriggerAccepted
      PROVE  \/ UNCHANGED asyncActions
             \/ asyncActions # <<>> /\ asyncActions' = withState("Completed")
             \/ asyncActions # <<>> /\ isDone(front) /\ asyncActions' = Tail(asyncActions)
  <2>1. ASSUME NEW result, currentOp(result)
        PROVE  \/ UNCHANGED asyncActions
               \/ asyncActions # <<>> /\ asyncActions' = withState("Completed")
    BY <2>1 DEF currentOp, completedWith
  <2>2. ASSUME NEW g, DeviceDiscovered(g) \/ Answer(g)
        PROVE  \/ UNCHANGED asyncActions
               \/ asyncActions # <<>> /\ asyncActions' = withState("Completed")
    BY <2>1, <2>2 DEF DeviceDiscovered, Answer, ScanEnded, DeviceConnected, DeviceDisconnected,
       ReadAnswered, readDataReceived, WriteAnswered
  <2>3. CASE Deliver
    BY <2>2, <2>3 DEF Deliver
  <2>4. CASE RunReport
    BY <2>1, <2>4 DEF RunReport, DiscoverServicesStep, DiscoverCharacteristicsStep, ConnectedStep,
       DataStep, UserStep, NullStep
  <2>5. CASE FrontTurn
    BY <1>2, <2>5 DEF FrontTurn, TriggerRefused, TriggerStopScanDone, PopDone, NothingToDo,
       completedWith
  <2>6. CASE ProcessAsync \/ TakeReports \/ UNCHANGED vars
    BY <2>6 DEF ProcessAsync, TakeReports, vars
  <2>7. QED
    BY <2>3, <2>4, <2>5, <2>6 DEF Tick
<1>3. QED
  BY <1>1, <1>2, SameUnfinished, ConcludeUnfinished, PopUnfinished

\* A request adds at most one.
LEMMA RequestedUnfinished ==
  ASSUME QueueInv, NEW op, NEW d,
         \/ queueAsyncAction(asyncActions, op, d)
         \/ asyncActions # <<>> /\ queueAsyncAction(withState("Completed"), op, d)
  PROVE  \A a \in unfinished' : a \in unfinished \/ (a.id = nextId /\ a.op = op)
<1>1. asyncActions \in Seq(Actions)
  BY DEF QueueInv, TypeOK
<1>2. PICK a : a = [id |-> nextId, op |-> op, dev |-> d, state |-> "Pending"]
  OBVIOUS
<1>3. CASE queueAsyncAction(asyncActions, op, d)
  <2>1. unfinished' = unfinished \cup {a}
    BY <1>1, <1>2, <1>3, EnqueueUnfinished DEF unfinished
  <2>2. QED
    BY <1>2, <2>1
<1>4. CASE asyncActions # <<>> /\ queueAsyncAction(withState("Completed"), op, d)
  <2>1. withState("Completed") \in Seq(Actions)
    BY <1>1, <1>4, WithStateLemma
  <2>2. unfinished' = UnfinishedOf(withState("Completed")) \cup {a}
    BY <1>2, <1>4, <2>1, EnqueueUnfinished
  <2>3. UnfinishedOf(withState("Completed")) \subseteq unfinished
    BY <1>4, MarkUnfinished
  <2>4. QED
    BY <1>2, <2>2, <2>3
<1>5. QED
  BY <1>3, <1>4

\* Requests other than read() and write() add no read and no write.
LEMMA OtherUnfinished ==
  ASSUME QueueInv, OtherRequest, NEW a \in unfinished', a.op \in {"read", "write"}
  PROVE  a \in unfinished
<1>1. CASE \/ AdapterOpen \/ AdapterClose \/ SetAutoDiscoverOnConnect
           \/ \E op \in {"enable", "enableNull"} : Enable(op)
  BY <1>1, SameUnfinished DEF AdapterOpen, AdapterClose, SetAutoDiscoverOnConnect, Enable
<1>2. CASE \/ \E op \in ScanOps : Scan(op)
           \/ StopScan
           \/ \E d \in Devices : Connect(d) \/ Disconnect(d)
  <2>1. \E op \in ScanOps \cup Stops \cup {"connect", "disconnect"}, d \in Devices \cup {None} :
          \/ queueAsyncAction(asyncActions, op, d)
          \/ asyncActions # <<>> /\ queueAsyncAction(withState("Completed"), op, d)
    <3>1. ASSUME NEW op \in ScanOps, Scan(op) PROVE queueAsyncAction(asyncActions, op, None)
      BY <3>1 DEF Scan
    <3>2. ASSUME StopScan
          PROVE  \E op \in Stops :
                   \/ queueAsyncAction(asyncActions, op, None)
                   \/ asyncActions # <<>> /\ queueAsyncAction(withState("Completed"), op, None)
      BY <3>2 DEF StopScan, scanRuns, Stops
    <3>3. ASSUME NEW d \in Devices, Connect(d) \/ Disconnect(d)
          PROVE  \E op \in {"connect", "disconnect"} : queueAsyncAction(asyncActions, op, d)
      BY <3>3 DEF Connect, Disconnect, UseConnection
    <3>4. QED
      BY <1>2, <3>1, <3>2, <3>3
  <2>2. QED
    BY <2>1, RequestedUnfinished DEF ScanOps, Stops
<1>3. QED
  BY <1>1, <1>2 DEF OtherRequest

-----------------------------------------------------------------------------
(* References stay good                                                    *)

\* Steps that do nothing to the maps, and take away at most a connection.
LEMMA DiscoveredKept ==
  ASSUME Discovered, UNCHANGED <<discovery_done, steps>>,
         \A d \in Devices : connection'[d] # None => connection[d] # None
  PROVE  Discovered'
BY DEF Discovered

\* A request for a read or a write finds the characteristic in the map.
LEMMA RequestRefers ==
  ASSUME SerialInv, DiscoveryInv, ReferenceInv, Serial,
         NEW d \in Devices, NEW c \in Chars, ReadCharacteristic(d, c) \/ WriteCharacteristic(d, c)
  PROVE  ReferenceInv'
<1>1. /\ UNCHANGED <<auto_discover, connection, discovery_done, steps>>
      /\ Idle /\ connection[d] # None /\ c \in Chars /\ refersTo(d, c)
      /\ discovery_done[d] => c \in characteristics[d]
      /\ nextId \in Ids
  BY DEF ReadCharacteristic, WriteCharacteristic, Read, Write, UseConnection, MayRequest,
     isConnected, getUUIDForChar, queueAsyncAction, table, Serial
<1>2. steps = <<>>
  BY <1>1 DEF Idle, DiscoveryInv, StepsMatch, DiscoverDue
<1>3. discovery_done[d]
  BY <1>1, <1>2 DEF ReferenceInv, Discovered
<1>4. reference' = [reference EXCEPT ![nextId] = "live"]
  BY <1>1, <1>3 DEF refersTo
<1>5. reference'[nextId] = "live"
  BY <1>1, <1>4 DEF DiscoveryInv, DiscoveryTypeOK
<1>6. unfinished = {}
  BY <1>1, IdleUnfinished
<1>7. \A a \in unfinished' : a.id = nextId
  <2>1. \E op \in {"read", "write"} : queueAsyncAction(asyncActions, op, d)
    BY DEF ReadCharacteristic, WriteCharacteristic, Read, Write, UseConnection
  <2>2. QED
    BY <1>6, <2>1, RequestedUnfinished DEF SerialInv
<1>8. UnfinishedRefer'
  BY <1>5, <1>7 DEF UnfinishedRefer
<1>9. Discovered'
  BY <1>1, DiscoveredKept DEF ReferenceInv
<1>10. QED
  BY <1>1, <1>8, <1>9 DEF ReferenceInv

\* A connection handed over is to be discovered.
LEMMA ConnectedRefers ==
  ASSUME SerialInv, DiscoveryInv, ReferenceInv,
         NEW g \in gattlib, NEW peer \in {g.dev, None}, Connected(g, peer)
  PROVE  Discovered'
<1>1. /\ DeviceConnected(g, peer) /\ UNCHANGED discovery_done
      /\ steps' = IF discovers(peer) /\ phase' # "crashed" THEN Append(steps, connected_to) ELSE steps
  BY DEF Connected, table
<1>2. /\ connected_to = front.dev /\ connected_to # None /\ front.dev \in Devices
      /\ connection' = [connection EXCEPT ![front.dev] = peer]
  BY <1>1, HandedOver
<1>3. CASE peer = None
  <2>1. UNCHANGED steps
    BY <1>1, <1>3 DEF discovers
  <2>2. \A d \in Devices : connection'[d] # None => connection[d] # None
    BY <1>2, <1>3 DEF SerialInv, QueueInv, TypeOK
  <2>3. QED
    BY <1>1, <2>1, <2>2, DiscoveredKept DEF ReferenceInv
<1>4. CASE peer # None
  <2>1. phase' # "crashed"
    BY <1>1, <1>2, AnswerFinds DEF SerialInv, DeviceConnected
  <2>2. steps' = Append(steps, connected_to) /\ steps \in Seq(Devices)
    BY <1>1, <1>4, <2>1 DEF discovers, ReferenceInv, DiscoveryInv, DiscoveryTypeOK
  <2>3. /\ \A k \in DOMAIN steps : k \in DOMAIN steps' /\ steps'[k] = steps[k]
        /\ Len(steps) + 1 \in DOMAIN steps' /\ steps'[Len(steps) + 1] = connected_to
    BY <1>2, <2>2
  <2>4. SUFFICES ASSUME NEW d \in Devices, connection'[d] # None
                 PROVE  discovery_done[d] \/ \E k \in DOMAIN steps' : steps'[k] = d
    BY <1>1 DEF Discovered
  <2>5. d = front.dev \/ connection[d] # None
    BY <1>2, <2>4 DEF SerialInv, QueueInv, TypeOK
  <2>6. QED
    BY <1>2, <2>3, <2>5 DEF ReferenceInv, Discovered
<1>5. QED
  BY <1>3, <1>4

\* The map is filled anew while nothing but the connect is unfinished.
LEMMA DiscoveryRefers ==
  ASSUME SerialInv, DiscoveryInv, ReferenceInv, NEW found \in BOOLEAN,
         PerformCharacteristicsDiscovery(found)
  PROVE  ReferenceInv'
<1>1. /\ runs("discoverCharacteristics") /\ "discoverCharacteristics" \in OwnReports
      /\ UNCHANGED <<central, asyncActions>>
      /\ discovery_done' = [discovery_done EXCEPT ![Head(steps)] = TRUE]
  BY DEF PerformCharacteristicsDiscovery, DiscoverCharacteristicsStep, runs, OwnReports, ConnectSteps
<1>2. asyncActions # <<>> /\ isRunning(front) /\ front.op = "connect"
  BY <1>1, OwnReportRuns DEF SerialInv, Belongs
<1>3. unfinished = {front} /\ unfinished' = unfinished
  BY <1>1, <1>2, FrontAlone, SameUnfinished DEF isRunning, isDone, ScanOps
<1>4. UnfinishedRefer'
  <2>1. \A a \in unfinished' : a.op = "connect"
    BY <1>2, <1>3
  <2>2. QED
    BY <2>1 DEF UnfinishedRefer
<1>5. /\ steps # <<>> /\ steps' = <<>> /\ steps \in Seq(Devices) /\ Len(steps) <= 1
      /\ discovery_done \in [Devices -> BOOLEAN]
  BY CharacteristicsSteps DEF DiscoveryInv, StepsMatch, DiscoveryTypeOK
<1>6. \A k \in DOMAIN steps : steps[k] = Head(steps)
  BY <1>5
<1>7. Discovered'
  BY <1>1, <1>5, <1>6 DEF ReferenceInv, Discovered, central
<1>8. QED
  BY <1>1, <1>4, <1>7 DEF ReferenceInv, central

\* Every step keeps ReferenceInv, if discovery is never turned off.
LEMMA ReferenceStep ==
  ASSUME Serial, "setAutoDiscover" \notin Ops, SerialInv, DiscoveryInv, ReferenceInv,
         [DiscoveryNext]_discoveryVars
  PROVE  ReferenceInv'
<1>0. [Next]_vars /\ TypeOK /\ QueueInv
  BY CentralStep DEF SerialInv, QueueInv
<1>1. auto_discover'
  BY <1>0 DEF ReferenceInv, Next, Request, AdapterOpen, AdapterClose, SetAutoDiscoverOnConnect,
     MayRequest, Enable, Scan, StopScan, Connect, Disconnect, Read, Write, UseConnection,
     Deliver, Answer, DeviceDiscovered, ScanEnded, DeviceConnected, DeviceDisconnected,
     ReadAnswered, WriteAnswered, Tick, ProcessAsync, TakeReports, RunReport,
     DiscoverServicesStep, DiscoverCharacteristicsStep, ConnectedStep, DataStep, UserStep,
     NullStep, runs, FrontTurn, TriggerAccepted, TriggerRefused, TriggerStopScanDone, PopDone,
     NothingToDo, returns, central, vars
<1>2. ASSUME UNCHANGED reference, Deliver \/ Tick \/ UNCHANGED vars PROVE UnfinishedRefer'
  BY <1>0, <1>2, EarlierUnfinished DEF ReferenceInv, UnfinishedRefer
<1>3. ASSUME NEW g \in gattlib, NEW peer \in {g.dev, None}, Connected(g, peer)
      PROVE  ReferenceInv'
  <2>1. Deliver /\ UNCHANGED reference
    BY <1>3 DEF Connected, held, Deliver, Answer
  <2>2. QED
    BY <1>1, <1>2, <1>3, <2>1, ConnectedRefers DEF ReferenceInv
<1>4. ASSUME NEW found \in BOOLEAN, PerformServiceDiscovery(found) PROVE ReferenceInv'
  <2>1. /\ Tick /\ UNCHANGED <<reference, discovery_done>>
        /\ steps' = steps /\ UNCHANGED connection
    BY <1>4, ServiceSteps DEF DiscoveryInv, PerformServiceDiscovery, DiscoverServicesStep, runs,
       central, held, Tick, RunReport
  <2>2. QED
    BY <1>1, <1>2, <2>1, DiscoveredKept DEF ReferenceInv
<1>5. CASE TriggerFront
  <2>1. /\ Tick /\ UNCHANGED <<reference, discovery_done, steps, connection>>
    BY <1>5 DEF TriggerFront, TriggerAccepted, TriggerRefused, TriggerStopScanDone, returns, table,
       Tick, FrontTurn
  <2>2. QED
    BY <1>1, <1>2, <2>1, DiscoveredKept DEF ReferenceInv
<1>6. CASE Elsewhere
  <2>1. UNCHANGED <<reference, discovery_done, steps>>
    BY <1>6 DEF Elsewhere, table, held
  <2>2. CASE OtherRequest
    <3>1. UNCHANGED connection
      BY <2>2 DEF OtherRequest, AdapterOpen, AdapterClose, SetAutoDiscoverOnConnect, Enable, Scan,
         StopScan, Connect, Disconnect, UseConnection
    <3>2. UnfinishedRefer'
      BY <1>0, <2>1, <2>2, OtherUnfinished DEF ReferenceInv, UnfinishedRefer
    <3>3. QED
      BY <1>1, <2>1, <3>1, <3>2, DiscoveredKept DEF ReferenceInv
  <2>3. ASSUME NEW g \in gattlib, DeviceDiscovered(g) \/ OtherAnswer(g) PROVE ReferenceInv'
    <3>1. Deliver
      BY <2>3 DEF OtherAnswer, Deliver, Answer
    <3>2. \A d \in Devices : connection'[d] # None => connection[d] # None
      BY <1>0, <2>3 DEF DeviceDiscovered, OtherAnswer, ScanEnded, DeviceDisconnected, ReadAnswered,
         WriteAnswered, forgetConnection, central, TypeOK
    <3>3. QED
      BY <1>1, <1>2, <2>1, <3>1, <3>2, DiscoveredKept DEF ReferenceInv
  <2>4. CASE OtherTick
    <3>1. Tick /\ UNCHANGED connection
      BY <2>4 DEF OtherTick, Tick, ProcessAsync, TakeReports, RunReport, ConnectedStep, DataStep,
         UserStep, NullStep, runs, FrontTurn, PopDone, NothingToDo, returns, central
    <3>2. QED
      BY <1>1, <1>2, <2>1, <3>1, DiscoveredKept DEF ReferenceInv
  <2>5. QED
    BY <1>6, <2>2, <2>3, <2>4 DEF Elsewhere
<1>7. CASE UNCHANGED discoveryVars
  <2>1. UNCHANGED <<vars, reference, discovery_done, steps, connection>>
    BY <1>7 DEF discoveryVars, vars, central, table, held
  <2>2. QED
    BY <1>1, <1>2, <2>1, DiscoveredKept DEF ReferenceInv
<1>8. QED
  BY <1>3, <1>4, <1>5, <1>6, <1>7, RequestRefers, DiscoveryRefers DEF DiscoveryNext

\* SerialInv holds of the central when its steps fill the maps.
LEMMA SerialDiscovery == Serial => (DiscoverySpec => [](SerialInv /\ DiscoveryInv))
BY SerialInvariant, DiscoveryInvariant, DiscoveryIsCentral, PTL DEF Serial

\* The characteristic a read or a write was asked for is still in the map when
\* its trigger passes gattlib the reference kept since the request
\* (BLECentral.cpp, read() and write()): no discovery has come in between.
THEOREM ReferencesGood ==
  Serial /\ "setAutoDiscover" \notin Ops => (DiscoverySpec => ReferencesLive)
<1> SUFFICES ASSUME Serial, "setAutoDiscover" \notin Ops PROVE DiscoverySpec => ReferencesLive
  OBVIOUS
<1>1. DiscoveryInit => ReferenceInv
  <2> SUFFICES ASSUME DiscoveryInit PROVE ReferenceInv
    OBVIOUS
  <2>1. unfinished = {} /\ auto_discover /\ \A d \in Devices : connection[d] = None
    BY DEF DiscoveryInit, Init, unfinished, UnfinishedOf
  <2>2. QED
    BY <2>1 DEF ReferenceInv, Discovered, UnfinishedRefer
<1>2. SerialInv /\ DiscoveryInv /\ ReferenceInv /\ [DiscoveryNext]_discoveryVars => ReferenceInv'
  BY ReferenceStep
<1>3. SerialInv /\ ReferenceInv /\ [DiscoveryNext]_discoveryVars =>
        [\A g \in gattlib' \ gattlib :
           g.op \in {"read", "write"} => reference[g.id] = "live"]_discoveryVars
  <2> SUFFICES ASSUME SerialInv, ReferenceInv, [DiscoveryNext]_discoveryVars,
                      NEW g \in gattlib' \ gattlib, g.op \in {"read", "write"}
               PROVE  reference[g.id] = "live"
    OBVIOUS
  <2>1. asyncActions # <<>> /\ isPending(front) /\ g.id = front.id /\ g.op = front.op
    BY CentralStep, NewCall
  <2>2. front \in unfinished
    BY <2>1, UnfinishedAre DEF SerialInv, isPending, isDone
  <2>3. QED
    BY <2>1, <2>2 DEF ReferenceInv, UnfinishedRefer
<1>4. QED
  BY <1>1, <1>2, <1>3, SerialDiscovery, PTL DEF DiscoverySpec, ReferencesLive

-----------------------------------------------------------------------------
(* What the steps of a discovery have found                                *)

Due(q, step) == \E i \in DOMAIN q : q[i].op = step
due(step) == Due(reportQueue, step) \/ Due(draining, step)

\* What gattlib has listed of device d's peer is what it offers, unless it failed.
ServicesFound(d) == missed[d] \/ services[d] = offer[d].services
AllFound(d) ==
  /\ discovery_done[d]
  /\ missed[d] \/ (services[d] = offer[d].services /\ characteristics[d] = offer[d].characteristics)

\* The device being discovered is the one connected_to names; when its second
\* step is due the first has been taken, when the third is due both have.
FoundInTurn ==
  /\ \A k \in DOMAIN steps : steps[k] = connected_to
  /\ due("discoverCharacteristics") => connected_to \in Devices /\ ServicesFound(connected_to)
  /\ due("connected") => connected_to \in Devices /\ AllFound(connected_to)

-----------------------------------------------------------------------------
(* The steps of a discovery are about the peer handed over last            *)

\* A callback pushed is one more that is due.
LEMMA AppendIsDue ==
  ASSUME NEW q \in Seq(Reports), NEW r \in Reports, NEW step, Due(Append(q, r), step)
  PROVE  Due(q, step) \/ r.op = step
<1> DEFINE q2 == Append(q, r)
<1>1. \A i \in DOMAIN q2 : i = Len(q) + 1 \/ (i \in DOMAIN q /\ q2[i] = q[i])
  OBVIOUS
<1>2. q2[Len(q) + 1] = r
  OBVIOUS
<1>3. Due(q2, step)
  OBVIOUS
<1> HIDE DEF q2
<1>4. QED
  BY <1>1, <1>2, <1>3 DEF Due

\* The step that runs is due.
LEMMA RunsIsDue ==
  ASSUME QueueInv, NEW step, runs(step) PROVE due(step)
<1>1. draining \in Seq(Reports) /\ draining # <<>> /\ Head(draining).op = step
  BY DEF QueueInv, TypeOK, runs
<1>2. 1 \in DOMAIN draining /\ draining[1].op = step
  BY <1>1, TailReport
<1>3. QED
  BY <1>2 DEF due, Due

\* While no callback of the library's own is due, no step is.
LEMMA NoStepDue ==
  ASSUME NoOwnReport(reportQueue), NoOwnReport(draining), NEW step \in ConnectSteps
  PROVE  ~due(step)
BY DEF NoOwnReport, OwnReports, due, Due

\* One step pushes the next.
LEMMA NextIsDue ==
  ASSUME QueueInv, NoOwnReport(reportQueue), NoOwnReport(draining'),
         NEW op \in ConnectSteps, pushReport(op, 0), NEW step \in ConnectSteps, due(step)'
  PROVE  step = op
<1>1. PICK r : r = [op |-> op, id |-> 0]
  OBVIOUS
<1>2. /\ r \in Reports /\ r.op = op /\ reportQueue' = Append(reportQueue, r)
      /\ reportQueue \in Seq(Reports)
  BY <1>1 DEF Reports, ConnectSteps, pushReport, QueueInv, TypeOK
<1>3. Due(reportQueue', step) \/ Due(draining', step)
  BY DEF due, Due
<1>4. ~Due(reportQueue, step) /\ ~Due(draining', step)
  BY DEF NoOwnReport, OwnReports, Due
<1>5. QED
  BY <1>2, <1>3, <1>4, AppendIsDue

\* No other step of the central makes one due.
LEMMA NotNewlyDue ==
  ASSUME QueueInv, NEW step \in ConnectSteps, due(step)',
         \/ Request
         \/ \E g \in gattlib : DeviceDiscovered(g) \/ OtherAnswer(g)
         \/ OtherTick \/ FrontTurn \/ UNCHANGED vars
  PROVE  due(step)
<1>0. /\ reportQueue \in Seq(Reports) /\ draining \in Seq(Reports)
      /\ asyncActions # <<>> => front.id \in Ids
  BY FrontLemma DEF QueueInv, TypeOK, Actions
<1>1. Due(reportQueue', step) \/ Due(draining', step)
  BY DEF due, Due
<1>2. ASSUME UNCHANGED <<reportQueue, draining>> PROVE due(step)
  BY <1>1, <1>2 DEF due
<1>3. ASSUME NEW op \in {"data", "user", "null"}, NEW id \in Ids \cup {0}, pushReport(op, id),
             UNCHANGED draining
      PROVE  due(step)
  <2>1. PICK r : r = [op |-> op, id |-> id]
    OBVIOUS
  <2>2. r \in Reports /\ r.op # step /\ reportQueue' = Append(reportQueue, r)
    BY <1>3, <2>1 DEF Reports, pushReport, ConnectSteps
  <2>3. QED
    BY <1>0, <1>1, <1>3, <2>2, AppendIsDue DEF due
<1>4. CASE Request
  BY <1>2, <1>3, <1>4 DEF Request, AdapterOpen, AdapterClose, SetAutoDiscoverOnConnect, Enable,
     Scan, StopScan, Connect, Disconnect, Read, Write, UseConnection
<1>5. ASSUME NEW g \in gattlib, DeviceDiscovered(g) \/ OtherAnswer(g) PROVE due(step)
  <2>1. CASE DeviceDiscovered(g) \/ ScanEnded(g) \/ DeviceDisconnected(g)
             \/ \E result \in {"ok", "fail"} : WriteAnswered(g, result)
    BY <1>2, <2>1 DEF DeviceDiscovered, ScanEnded, DeviceDisconnected, WriteAnswered
  <2>2. ASSUME NEW empty, ReadAnswered(g, empty) PROVE due(step)
    <3>1. CASE asyncActions # <<>> /\ pushReport("data", front.id) /\ UNCHANGED draining
      BY <1>0, <1>3, <3>1
    <3>2. QED
      BY <1>2, <2>2, <3>1 DEF ReadAnswered, readDataReceived
  <2>3. QED
    BY <1>5, <2>1, <2>2 DEF OtherAnswer
<1>6. CASE OtherTick \/ FrontTurn \/ UNCHANGED vars
  <2>1. CASE TakeReports
    BY <1>1, <2>1 DEF TakeReports, Due, due
  <2>2. CASE ConnectedStep \/ DataStep \/ UserStep \/ NullStep
    <3>1. UNCHANGED reportQueue /\ draining # <<>> /\ draining' = Tail(draining)
      BY <2>2 DEF ConnectedStep, DataStep, UserStep, NullStep, runs
    <3>2. QED
      BY <1>0, <1>1, <3>1, TailReport DEF due, Due
  <2>3. CASE ProcessAsync \/ FrontTurn \/ UNCHANGED vars
    BY <1>2, <2>3 DEF ProcessAsync, FrontTurn, TriggerAccepted, TriggerRefused,
       TriggerStopScanDone, PopDone, NothingToDo, returns, vars
  <2>4. QED
    BY <1>6, <2>1, <2>2, <2>3 DEF OtherTick, FrontTurn
<1>7. QED
  BY <1>4, <1>5, <1>6

\* The device connected_to names changes only when no step is due.
LEMMA NamedKept ==
  ASSUME SerialInv, DiscoveryInv, OneOperation, [Next]_vars, connected_to' # connected_to
  PROVE  steps = <<>> /\ \A step \in ConnectSteps : ~due(step)
<1>1. CASE \E d \in Devices : Connect(d)
  <2>1. reportQueue = <<>> /\ draining = <<>>
    BY <1>1 DEF Connect, MayRequest, Idle
  <2>2. QED
    BY <2>1 DEF DiscoveryInv, StepsMatch, DiscoverDue, due, Due
<1>2. CASE \E g \in gattlib : DeviceDisconnected(g)
  <2>1. NoOwnReport(reportQueue) /\ NoOwnReport(draining)
    BY <1>2, AnswerFinds DEF DeviceDisconnected, SerialInv
  <2>2. QED
    BY <2>1, NoStepDue, NoOwnNoDue DEF DiscoveryInv, StepsMatch
<1>3. ~ \E g \in gattlib : \E peer \in {g.dev, None} : DeviceConnected(g, peer)
  BY DEF DeviceConnected
<1>4. QED
  BY <1>1, <1>2, <1>3, ConnectionChanges

\* What leaves the maps and the offers alone, and makes no step due.
LEMMA FoundKept ==
  ASSUME SerialInv, DiscoveryInv, FoundInTurn, OneOperation, [Next]_vars,
         UNCHANGED <<table, steps, offer, missed>>,
         \A step \in ConnectSteps : due(step)' => due(step)
  PROVE  FoundInTurn'
<1>1. {"discoverCharacteristics", "connected"} \subseteq ConnectSteps
  BY DEF ConnectSteps
<1>2. CASE connected_to' = connected_to
  BY <1>1, <1>2 DEF FoundInTurn, ServicesFound, AllFound, table
<1>3. CASE connected_to' # connected_to
  BY <1>1, <1>3, NamedKept DEF FoundInTurn
<1>4. QED
  BY <1>2, <1>3

\* A connection handed over is all there is to discover.
LEMMA ConnectedFound ==
  ASSUME SerialInv, DiscoveryInv, NEW g \in gattlib, NEW peer \in {g.dev, None}, Connected(g, peer)
  PROVE  FoundInTurn'
<1>1. /\ g.op = "connect" /\ answers(g) /\ UNCHANGED <<draining, connected_to>>
      /\ pushReport("discoverServices", 0) \/ UNCHANGED reportQueue
      /\ steps' \in {steps, Append(steps, connected_to)}
  BY DEF Connected, DeviceConnected
<1>2. NoOwnReport(reportQueue) /\ NoOwnReport(draining) /\ steps = <<>>
  BY <1>1, AnswerFinds, NoOwnNoDue DEF SerialInv, DiscoveryInv, StepsMatch
<1>3. \A k \in DOMAIN steps' : steps'[k] = connected_to'
  BY <1>1, <1>2
<1>4. ASSUME NEW step \in {"discoverCharacteristics", "connected"} PROVE ~due(step)'
  <2>1. step \in ConnectSteps /\ "discoverServices" \in ConnectSteps /\ step # "discoverServices"
    BY DEF ConnectSteps
  <2>2. CASE pushReport("discoverServices", 0)
    BY <1>1, <1>2, <2>1, <2>2, NextIsDue DEF SerialInv
  <2>3. CASE UNCHANGED reportQueue
    BY <1>1, <1>2, <2>1, <2>3, NoStepDue DEF due, Due
  <2>4. QED
    BY <1>1, <2>2, <2>3
<1>5. QED
  BY <1>3, <1>4 DEF FoundInTurn

\* The first step lists the services of the device connected_to names.
LEMMA ServicesListed ==
  ASSUME SerialInv, DiscoveryInv, ConnectionConsistent, FoundInTurn,
         NEW found \in BOOLEAN, PerformServiceDiscovery(found)
  PROVE  FoundInTurn'
<1>0. PICK d : d = Head(steps)
  OBVIOUS
<1>1. /\ runs("discoverServices") /\ pushReport("discoverCharacteristics", 0)
      /\ {"discoverServices", "discoverCharacteristics", "connected"} = ConnectSteps
      /\ UNCHANGED <<connected_to, offer>>
      /\ services' = IF found THEN [services EXCEPT ![d] = offer[connection[d]].services] ELSE services
      /\ missed' = [missed EXCEPT ![connection[d]] = missed[connection[d]] \/ ~found]
      /\ services \in [Devices -> SUBSET UNION {o.services : o \in Offers}]
      /\ missed \in [Devices -> BOOLEAN]
  BY <1>0 DEF PerformServiceDiscovery, DiscoverServicesStep, runs, central, ConnectSteps, DiscoveryInv,
     DiscoveryTypeOK
<1>2. steps' = steps /\ steps # <<>> /\ d \in Devices /\ connection[d] \in Devices
  BY <1>0, ServiceSteps, StepDevice DEF DiscoveryInv
<1>3. d = connected_to /\ connection[d] = d
  <2>1. steps \in Seq(Devices)
    BY DEF DiscoveryInv, DiscoveryTypeOK
  <2>2. 1 \in DOMAIN steps /\ steps[1] = d
    BY <1>0, <1>2, <2>1
  <2>3. QED
    BY <1>2, <2>2, BLECentralAssumption DEF FoundInTurn, ConnectionConsistent
<1>4. ServicesFound(d)'
  <2>1. CASE found
    BY <1>1, <1>2, <1>3, <2>1 DEF ServicesFound
  <2>2. CASE ~found
    BY <1>1, <1>2, <1>3, <2>2 DEF ServicesFound
  <2>3. QED
    BY <2>1, <2>2
<1>5. ~due("connected")'
  <2>1. NoOwnReport(reportQueue) /\ NoOwnReport(draining')
    BY <1>1, OwnReportRuns DEF SerialInv, OwnReports
  <2>2. QED
    BY <1>1, <2>1, NextIsDue DEF SerialInv
<1>6. connected_to' = d
  BY <1>1, <1>3
<1>7. QED
  BY <1>1, <1>2, <1>3, <1>4, <1>5, <1>6 DEF FoundInTurn, ServicesFound

\* The second lists its characteristics.
LEMMA CharacteristicsListed ==
  ASSUME SerialInv, DiscoveryInv, ConnectionConsistent, FoundInTurn,
         NEW found \in BOOLEAN, PerformCharacteristicsDiscovery(found)
  PROVE  FoundInTurn'
<1>0. PICK d : d = Head(steps)
  OBVIOUS
<1>1. /\ runs("discoverCharacteristics") /\ pushReport("connected", 0)
      /\ {"discoverServices", "discoverCharacteristics", "connected"} = ConnectSteps
      /\ UNCHANGED <<connected_to, offer, services>>
      /\ discovery_done' = [discovery_done EXCEPT ![d] = TRUE]
      /\ found => characteristics' = [characteristics EXCEPT ![d] = offer[connection[d]].characteristics]
      /\ missed' = [missed EXCEPT ![connection[d]] = missed[connection[d]] \/ ~found]
      /\ discovery_done \in [Devices -> BOOLEAN]
      /\ characteristics \in [Devices -> SUBSET Chars]
      /\ missed \in [Devices -> BOOLEAN]
  BY <1>0 DEF PerformCharacteristicsDiscovery, DiscoverCharacteristicsStep, runs, central,
     ConnectSteps, listed, DiscoveryInv, DiscoveryTypeOK
<1>2. steps' = <<>> /\ steps # <<>> /\ d \in Devices /\ connection[d] \in Devices
  BY <1>0, CharacteristicsSteps, StepDevice DEF DiscoveryInv
<1>3. d = connected_to /\ connection[d] = d
  <2>1. steps \in Seq(Devices)
    BY DEF DiscoveryInv, DiscoveryTypeOK
  <2>2. 1 \in DOMAIN steps /\ steps[1] = d
    BY <1>0, <1>2, <2>1
  <2>3. QED
    BY <1>2, <2>2, BLECentralAssumption DEF FoundInTurn, ConnectionConsistent
<1>4. ServicesFound(d)
  BY <1>1, <1>3, RunsIsDue DEF SerialInv, FoundInTurn
<1>5. AllFound(d)'
  <2>1. CASE found
    BY <1>1, <1>2, <1>3, <1>4, <2>1 DEF ServicesFound, AllFound
  <2>2. CASE ~found
    BY <1>1, <1>2, <1>3, <2>2 DEF AllFound
  <2>3. QED
    BY <2>1, <2>2
<1>6. ~due("discoverCharacteristics")'
  <2>1. NoOwnReport(reportQueue) /\ NoOwnReport(draining')
    BY <1>1, OwnReportRuns DEF SerialInv, OwnReports
  <2>2. QED
    BY <1>1, <2>1, NextIsDue DEF SerialInv
<1>7. connected_to' = d
  BY <1>1, <1>3
<1>8. QED
  BY <1>2, <1>5, <1>6, <1>7 DEF FoundInTurn, AllFound

\* Every step keeps FoundInTurn.
LEMMA FoundStep ==
  ASSUME SerialInv, DiscoveryInv, ConnectionConsistent, FoundInTurn, OneOperation,
         [DiscoveryNext]_discoveryVars
  PROVE  FoundInTurn'
<1>0. [Next]_vars /\ QueueInv
  BY CentralStep DEF SerialInv
<1>1. ASSUME UNCHANGED <<table, steps, offer, missed>>,
             \/ Request
             \/ \E g \in gattlib : DeviceDiscovered(g) \/ OtherAnswer(g)
             \/ OtherTick \/ FrontTurn \/ UNCHANGED vars
      PROVE  FoundInTurn'
  BY <1>0, <1>1, NotNewlyDue, FoundKept
<1>2. ASSUME NEW d \in Devices, NEW c \in Chars, ReadCharacteristic(d, c) \/ WriteCharacteristic(d, c)
      PROVE  FoundInTurn'
  BY <1>1, <1>2 DEF ReadCharacteristic, WriteCharacteristic, Request
<1>3. CASE TriggerFront
  BY <1>1, <1>3 DEF TriggerFront, FrontTurn
<1>4. CASE Elsewhere
  BY <1>1, <1>4 DEF Elsewhere, OtherRequest, Request
<1>5. CASE UNCHANGED discoveryVars
  BY <1>1, <1>5 DEF discoveryVars
<1>6. QED
  BY <1>2, <1>3, <1>4, <1>5, ConnectedFound, ServicesListed, CharacteristicsListed DEF DiscoveryNext

\* The success of a connect is reported by the last step of its discovery, or
\* at once if that is turned off.
LEMMA ConnectReported ==
  ASSUME SerialInv, [Next]_vars, NEW k \in DOMAIN asyncActions, NEW ok \in {"ok"},
         asyncActions[k].op = "connect",
         outcome'[asyncActions[k].id] = Append(outcome[asyncActions[k].id], ok)
  PROVE  /\ asyncActions[k] = front
         /\ ConnectedStep \/ ~auto_discover
<1> DEFINE a == asyncActions[k]
           Told == a = front /\ (ConnectedStep \/ ~auto_discover)
<1>0. /\ QueueInv /\ TypeOK /\ a \in Actions /\ a.id \in Ids
      /\ outcome'[a.id] = Append(outcome[a.id], ok)
  <2>1. QueueInv /\ TypeOK
    BY DEF SerialInv, QueueInv
  <2>2. a \in Actions
    BY <2>1 DEF TypeOK
  <2>3. QED
    BY <2>1, <2>2 DEF Actions
<1>1. a.op = "connect" /\ (a.id = front.id => a = front)
  BY <1>0, FrontById
<1>2. ASSUME UNCHANGED outcome PROVE FALSE
  BY <1>0, <1>2, ReportFound DEF reportTo
<1>3. ASSUME NEW r, completedWith(r) PROVE a = front /\ r = ok
  <2>1. PICK id, s : id = front.id /\ s = r /\ reportTo(id, s)
    BY <1>2, <1>3 DEF completedWith
  <2>2. reportTo(id, s) \/ UNCHANGED outcome
    BY <2>1
  <2>3. a.id = id /\ s = ok
    BY <1>0, <2>2, ReportFound
  <2>4. QED
    BY <1>1, <2>1, <2>3
<1>4. ASSUME NEW r, currentOp(r) PROVE a = front /\ r = ok
  BY <1>0, <1>2, <1>3, <1>4 DEF currentOp
<1>5. CASE Request
  <2>1. StopScan
    BY <1>2, <1>5 DEF Request, AdapterOpen, AdapterClose, SetAutoDiscoverOnConnect, Enable, Scan,
       Connect, Disconnect, Read, Write, UseConnection
  <2>2. PICK r : r = "cancelled" /\ (reportTo(front.id, r) \/ UNCHANGED outcome)
    BY <2>1 DEF StopScan
  <2>3. r = ok
    BY <1>0, <2>2, ReportFound
  <2>4. QED
    BY <2>2, <2>3
<1>6. ASSUME NEW g \in gattlib, Answer(g) PROVE Told
  <2>1. CASE ScanEnded(g) \/ DeviceDisconnected(g) \/ \E r \in {"ok", "fail"} : WriteAnswered(g, r)
    <3>1. g.op \in {"scan", "stopScan", "disconnect", "write"} /\ answers(g) /\ \E r : currentOp(r)
      BY <2>1 DEF ScanEnded, DeviceDisconnected, WriteAnswered
    <3>2. a = front /\ front.op = g.op
      BY <1>0, <1>4, <3>1, AnswerFinds
    <3>3. QED
      BY <1>1, <3>1, <3>2
  <2>2. ASSUME NEW peer \in {g.dev, None}, DeviceConnected(g, peer) PROVE Told
    <3>1. connected_to # None
      BY <2>2, HandedOver
    <3>2. ~discovers(peer) /\ currentOp(connectResult(peer))
      BY <1>2, <2>2, <3>1 DEF DeviceConnected
    <3>3. a = front /\ connectResult(peer) = "ok"
      BY <1>4, <3>2
    <3>4. QED
      BY <3>2, <3>3 DEF connectResult, discovers
  <2>3. ASSUME NEW empty, ReadAnswered(g, empty) PROVE FALSE
    BY <1>2, <2>3 DEF ReadAnswered, readDataReceived
  <2>4. QED
    BY <1>6, <2>1, <2>2, <2>3 DEF Answer
<1>7. CASE Deliver
  <2>1. ASSUME NEW g, DeviceDiscovered(g) PROVE FALSE
    BY <1>2, <2>1 DEF DeviceDiscovered
  <2>2. QED
    BY <1>6, <1>7, <2>1 DEF Deliver
<1>8. CASE RunReport
  <2>1. CASE ConnectedStep
    BY <1>4, <2>1 DEF ConnectedStep
  <2>2. CASE DataStep
    <3>1. /\ runs("data") /\ "data" \in OwnReports
          /\ \E id, r : id = Head(draining).id /\ reportTo(id, r)
      BY <2>2 DEF DataStep, OwnReports
    <3>2. a.id = Head(draining).id
      BY <1>0, <3>1, ReportFound
    <3>3. Head(draining).op = "data" /\ Belongs(Head(draining))
      BY <1>0, <3>1, OwnReportRuns
    <3>4. a = front /\ front.op = "read"
      BY <1>1, <3>2, <3>3 DEF Belongs
    <3>5. QED
      BY <1>1, <3>4
  <2>3. QED
    BY <1>2, <1>8, <2>1, <2>2 DEF RunReport, DiscoverServicesStep, DiscoverCharacteristicsStep,
       UserStep, NullStep
<1>9. CASE FrontTurn
  <2>1. CASE TriggerRefused
    BY <1>3, <2>1 DEF TriggerRefused
  <2>2. CASE TriggerStopScanDone
    BY <1>1, <1>3, <2>2 DEF TriggerStopScanDone
  <2>3. QED
    BY <1>2, <1>9, <2>1, <2>2 DEF FrontTurn, TriggerAccepted, PopDone, NothingToDo
<1>10. CASE ProcessAsync \/ TakeReports \/ UNCHANGED vars
  BY <1>2, <1>10 DEF ProcessAsync, TakeReports, vars
<1>11. QED
  BY <1>5, <1>7, <1>8, <1>9, <1>10 DEF Next, Tick

\* When connect() reports its success the maps hold what the peer of this
\* connection offers (autoDiscoverServicesStep(), autoDiscoverCharacteristicsStep(),
\* BLECentral.cpp), unless gattlib failed to list it.
THEOREM SuccessMeansDiscovered ==
  Serial /\ OneDevice => (DiscoverySpec => ConnectedMeansDiscovered)
<1> SUFFICES ASSUME Serial, OneDevice PROVE DiscoverySpec => ConnectedMeansDiscovered
  OBVIOUS
<1>1. DiscoveryInit => FoundInTurn
  BY DEF DiscoveryInit, Init, FoundInTurn, due, Due
<1>2. SerialInv /\ DiscoveryInv /\ ConnectionConsistent /\ FoundInTurn
        /\ [DiscoveryNext]_discoveryVars => FoundInTurn'
  BY FoundStep DEF Serial
<1>3. SerialInv /\ FoundInTurn /\ [DiscoveryNext]_discoveryVars =>
        [\A k \in DOMAIN asyncActions :
           LET a == asyncActions[k]
           IN a.op = "connect" /\ outcome'[a.id] = Append(outcome[a.id], "ok")
              /\ auto_discover /\ ~missed[a.dev] =>
                /\ servicesFor(a.dev) = offer[a.dev].services
                /\ characteristicsFor(a.dev) = offer[a.dev].characteristics]_discoveryVars
  <2> SUFFICES ASSUME SerialInv, FoundInTurn, [DiscoveryNext]_discoveryVars,
                      NEW k \in DOMAIN asyncActions, asyncActions[k].op = "connect",
                      outcome'[asyncActions[k].id] = Append(outcome[asyncActions[k].id], "ok"),
                      auto_discover, ~missed[asyncActions[k].dev]
               PROVE  /\ servicesFor(asyncActions[k].dev) = offer[asyncActions[k].dev].services
                      /\ characteristicsFor(asyncActions[k].dev) =
                           offer[asyncActions[k].dev].characteristics
    OBVIOUS
  <2>1. asyncActions[k] = front /\ ConnectedStep
    BY CentralStep, ConnectReported
  <2>2. /\ due("connected") /\ asyncActions # <<>> /\ isRunning(front) /\ front.op = "connect"
    BY <2>1, RunsIsDue, OwnReportRuns
       DEF ConnectedStep, SerialInv, Belongs, OwnReports, ConnectSteps
  <2>3. StillReady(front)
    BY <2>2, UnfinishedAre DEF SerialInv, Undisturbed, isRunning, isDone
  <2>4. connected_to = front.dev /\ AllFound(connected_to)
    BY <2>2, <2>3 DEF StillReady, FoundInTurn
  <2>5. QED
    BY <2>1, <2>4 DEF AllFound, servicesFor, characteristicsFor
<1>4. DiscoverySpec => []ConnectionConsistent
  BY ConnectionsConsistent, DiscoveryIsCentral
<1>5. QED
  BY <1>1, <1>2, <1>3, <1>4, SerialDiscovery, PTL DEF DiscoverySpec, ConnectedMeansDiscovered

-----------------------------------------------------------------------------
(* The short form of connections and discovery                             *)

\* What a peer offers is something.
SomethingOffered == \A o \in Offers : o.characteristics # {}

\* What Discovery's state stands for in Subscriptions.
Connections == [d \in Devices |-> isConnected(d)]
Discovering == [d \in Devices |-> \E k \in DOMAIN steps : steps[k] = d]
Found == [d \in Devices |-> IF characteristics[d] = {} THEN {} ELSE Chars]

ShortStep == [Short!Next]_Short!vars

\* Nothing it stands for changes.
LEMMA ShortStutters ==
  ASSUME Connections' = Connections, UNCHANGED <<steps, discovery_done, characteristics>>
  PROVE  ShortStep
<1>1. UNCHANGED Short!vars
  BY DEF Short!vars, Short!table, Short!gatt, Connections
<1>2. QED
  BY <1>1 DEF ShortStep

\* A device is connected, to be discovered or not.
LEMMA ShortConnects ==
  ASSUME NEW d \in Devices, NEW discover \in BOOLEAN, ~Connections[d],
         OneDevice => \A e \in Devices : ~Connections[e],
         Connections' = [Connections EXCEPT ![d] = TRUE],
         Discovering' = [Discovering EXCEPT ![d] = discover],
         UNCHANGED <<discovery_done, characteristics>>
  PROVE  ShortStep
<1>1. Short!DeviceConnected(d, discover)
  BY DEF Short!DeviceConnected, Short!ticking, Short!table, Short!gatt, Connections, Discovering
<1>2. QED
  BY <1>1 DEF ShortStep, Short!Next

\* The discovery of a device comes to its end.
LEMMA ShortDiscovers ==
  ASSUME NEW d \in Devices, NEW found \in BOOLEAN, Discovering[d],
         Discovering' = [Discovering EXCEPT ![d] = FALSE],
         discovery_done' = [discovery_done EXCEPT ![d] = TRUE],
         Found' = IF found THEN [Found EXCEPT ![d] = Chars] ELSE Found,
         Connections' = Connections
  PROVE  ShortStep
<1>1. Short!DiscoverCharacteristics(d, found)
  BY DEF Short!DiscoverCharacteristics, Short!ticking, Short!gatt, Connections, Discovering, Found
<1>2. QED
  BY <1>1 DEF ShortStep, Short!Next

\* A device is disconnected.
LEMMA ShortDisconnects ==
  ASSUME NEW d \in Devices, Connections[d], ~Discovering[d],
         Connections' = [Connections EXCEPT ![d] = FALSE],
         UNCHANGED <<steps, discovery_done, characteristics>>
  PROVE  ShortStep
<1>1. Short!DeviceDisconnected(d)
  BY DEF Short!DeviceDisconnected, Short!ticking, Short!table, Connections, Discovering
<1>2. QED
  BY <1>1 DEF ShortStep, Short!Next

\* A connection handed over connects its device, one with nothing in it stutters.
LEMMA ConnectedMaps ==
  ASSUME SerialInv, DiscoveryInv, OneDevice => ConnectionConsistent,
         NEW g \in gattlib, NEW peer \in {g.dev, None}, Connected(g, peer)
  PROVE  ShortStep
<1>1. PICK d \in Devices : /\ d = connected_to /\ connection[d] = None
                           /\ connection' = [connection EXCEPT ![d] = peer]
                           /\ g.dev = d /\ connected_to # None
  BY HandedOver DEF Connected
<1>2. /\ connection \in [Devices -> Devices \cup {None}]
      /\ g.op = "connect" /\ answers(g) /\ DeviceConnected(g, peer)
      /\ UNCHANGED <<discovery_done, characteristics>>
  BY DEF Connected, DeviceConnected, table, SerialInv, QueueInv, TypeOK
<1>3. steps = <<>> /\ phase = "events"
  BY <1>2, AnswerFinds, NoOwnNoDue DEF SerialInv, DiscoveryInv, StepsMatch
<1>4. steps' = IF discovers(peer) THEN <<d>> ELSE <<>>
  <2>1. phase' = phase
    BY <1>1, <1>2 DEF DeviceConnected
  <2>2. steps' = IF discovers(peer) THEN Append(<<>>, d) ELSE <<>>
    BY <1>1, <1>3, <2>1 DEF Connected
  <2>3. QED
    BY <2>2
<1>5. ~Connections[d]
  BY <1>1 DEF Connections, isConnected
<1>6. CASE peer = None
  <2>1. connection' = connection /\ steps' = steps
    BY <1>1, <1>2, <1>3, <1>4, <1>6 DEF discovers
  <2>2. Connections' = Connections
    BY <2>1 DEF Connections, isConnected
  <2>3. QED
    BY <1>2, <2>1, <2>2, ShortStutters
<1>7. CASE peer # None
  <2>1. discovers(peer) \in BOOLEAN
    BY DEF discovers, SerialInv, QueueInv, TypeOK
  <2>2. Connections' = [Connections EXCEPT ![d] = TRUE]
    BY <1>1, <1>2, <1>7 DEF Connections, isConnected
  <2>3. \A k \in DOMAIN <<d>> : <<d>>[k] = d
    OBVIOUS
  <2>4. 1 \in DOMAIN <<d>>
    OBVIOUS
  <2>5. Discovering' = [Discovering EXCEPT ![d] = discovers(peer)]
    <3>1. \A e \in Devices : Discovering'[e] <=> (e = d /\ discovers(peer))
      BY <1>4, <2>3, <2>4 DEF Discovering
    <3>2. \A e \in Devices : ~Discovering[e]
      BY <1>3 DEF Discovering
    <3>3. /\ \A e \in Devices : Discovering'[e] \in BOOLEAN /\ Discovering[e] \in BOOLEAN
          /\ Discovering = [e \in Devices |-> Discovering[e]]
          /\ Discovering' = [e \in Devices |-> Discovering'[e]]
      BY DEF Discovering
    <3>4. \A e \in Devices : Discovering'[e] = IF e = d THEN discovers(peer) ELSE Discovering[e]
      BY <2>1, <3>1, <3>2, <3>3
    <3>5. QED
      BY <3>3, <3>4
  <2>6. OneDevice => \A e \in Devices : ~Connections[e]
    BY <1>1 DEF ConnectionConsistent, Connections, isConnected
  <2>7. QED
    BY <1>2, <1>5, <2>1, <2>2, <2>5, <2>6, ShortConnects
<1>8. QED
  BY <1>6, <1>7

\* The second step of a discovery ends it.
LEMMA CharacteristicsMap ==
  ASSUME SerialInv, DiscoveryInv, SomethingOffered,
         NEW found \in BOOLEAN, PerformCharacteristicsDiscovery(found)
  PROVE  ShortStep
<1>1. PICK d : d = Head(steps)
  OBVIOUS
<1>2. /\ steps' = <<>> /\ steps # <<>> /\ d \in Devices /\ offer[connection[d]] \in Offers
      /\ steps \in Seq(Devices) /\ Len(steps) <= 1
  BY <1>1, CharacteristicsSteps, StepDevice DEF DiscoveryInv, DiscoveryTypeOK, StepsMatch
<1>3. /\ UNCHANGED connection
      /\ discovery_done' = [discovery_done EXCEPT ![d] = TRUE]
      /\ characteristics' =
           IF found THEN [characteristics EXCEPT ![d] = offer[connection[d]].characteristics]
                    ELSE characteristics
      /\ characteristics \in [Devices -> SUBSET Chars]
  BY <1>1 DEF PerformCharacteristicsDiscovery, DiscoverCharacteristicsStep, runs, central, listed,
     DiscoveryInv, DiscoveryTypeOK
<1>4. Connections' = Connections
  BY <1>3 DEF Connections, isConnected
<1>5. Found' = IF found THEN [Found EXCEPT ![d] = Chars] ELSE Found
  BY <1>2, <1>3 DEF Found, SomethingOffered
<1>6. 1 \in DOMAIN steps /\ \A k \in DOMAIN steps : steps[k] = d
  BY <1>1, <1>2
<1>7. Discovering[d]
  BY <1>2, <1>6 DEF Discovering
<1>8. Discovering' = [Discovering EXCEPT ![d] = FALSE]
  <2>1. \A e \in Devices : Discovering[e] <=> e = d
    BY <1>6 DEF Discovering
  <2>2. Discovering' = [e \in Devices |-> FALSE]
    BY <1>2 DEF Discovering
  <2>3. /\ Discovering = [e \in Devices |-> Discovering[e]]
        /\ \A e \in Devices : Discovering[e] \in BOOLEAN
    BY DEF Discovering
  <2>4. \A e \in Devices : (IF e = d THEN FALSE ELSE Discovering[e]) = FALSE
    BY <2>1, <2>3
  <2>5. QED
    BY <2>2, <2>3, <2>4
<1>9. QED
  BY <1>2, <1>3, <1>4, <1>5, <1>7, <1>8, ShortDiscovers

\* A device disconnected is the one connected_to names.
LEMMA DisconnectedMaps ==
  ASSUME SerialInv, DiscoveryInv, NEW g \in gattlib, DeviceDisconnected(g),
         UNCHANGED <<steps, discovery_done, characteristics>>
  PROVE  ShortStep
<1>1. /\ connection \in [Devices -> Devices \cup {None}] /\ connected_to \in Devices \cup {None}
      /\ connection' = IF connected_to = None THEN connection
                       ELSE [connection EXCEPT ![connected_to] = None]
      /\ steps = <<>>
  BY AnswerFinds, NoOwnNoDue
     DEF DeviceDisconnected, forgetConnection, SerialInv, QueueInv, TypeOK, DiscoveryInv, StepsMatch
<1>2. CASE connected_to # None /\ connection[connected_to] # None
  <2>1. PICK d \in Devices : d = connected_to
    BY <1>1, <1>2
  <2>2. Connections[d] /\ Connections' = [Connections EXCEPT ![d] = FALSE]
    BY <1>1, <1>2, <2>1 DEF Connections, isConnected
  <2>3. ~Discovering[d]
    BY <1>1 DEF Discovering
  <2>4. QED
    BY <2>2, <2>3, ShortDisconnects
<1>3. CASE connected_to = None \/ connection[connected_to] = None
  <2>1. connection' = connection
    BY <1>1, <1>3
  <2>2. QED
    BY <2>1, ShortStutters DEF Connections, isConnected
<1>4. QED
  BY <1>2, <1>3

\* Every step maps to a step or a stutter.
LEMMA ShortStepMaps ==
  ASSUME SerialInv, DiscoveryInv, OneDevice => ConnectionConsistent, SomethingOffered,
         [DiscoveryNext]_discoveryVars
  PROVE  ShortStep
<1>1. ASSUME UNCHANGED <<connection, steps, discovery_done, characteristics>> PROVE ShortStep
  BY <1>1, ShortStutters DEF Connections, isConnected
<1>2. ASSUME NEW d \in Devices, NEW c \in Chars, ReadCharacteristic(d, c) \/ WriteCharacteristic(d, c)
      PROVE  ShortStep
  BY <1>1, <1>2 DEF ReadCharacteristic, WriteCharacteristic, Read, Write, UseConnection, table
<1>3. ASSUME NEW found \in BOOLEAN, PerformServiceDiscovery(found) PROVE ShortStep
  <2>1. steps' = steps
    BY <1>3, ServiceSteps DEF DiscoveryInv
  <2>2. QED
    BY <1>1, <1>3, <2>1 DEF PerformServiceDiscovery, DiscoverServicesStep, runs, central
<1>4. CASE TriggerFront
  BY <1>1, <1>4 DEF TriggerFront, TriggerAccepted, TriggerRefused, TriggerStopScanDone, returns, table
<1>5. CASE Elsewhere
  <2>1. UNCHANGED <<steps, discovery_done, characteristics>>
    BY <1>5 DEF Elsewhere, table
  <2>2. ASSUME NEW g \in gattlib, DeviceDisconnected(g) PROVE ShortStep
    BY <2>1, <2>2, DisconnectedMaps
  <2>3. ASSUME NEW g \in gattlib, DeviceDiscovered(g) \/ OtherAnswer(g), ~DeviceDisconnected(g)
        PROVE  ShortStep
    BY <1>1, <2>1, <2>3 DEF DeviceDiscovered, OtherAnswer, ScanEnded, ReadAnswered, WriteAnswered, central
  <2>4. CASE OtherRequest
    BY <1>1, <2>1, <2>4 DEF OtherRequest, AdapterOpen, AdapterClose, SetAutoDiscoverOnConnect,
       Enable, Scan, StopScan, Connect, Disconnect, UseConnection
  <2>5. CASE OtherTick
    BY <1>1, <2>1, <2>5 DEF OtherTick, ProcessAsync, TakeReports, ConnectedStep, DataStep, UserStep,
       NullStep, runs, PopDone, NothingToDo, returns, central
  <2>6. QED
    BY <1>5, <2>2, <2>3, <2>4, <2>5 DEF Elsewhere
<1>6. CASE UNCHANGED discoveryVars
  BY <1>1, <1>6 DEF discoveryVars, vars, central, table
<1>7. QED
  BY <1>2, <1>3, <1>4, <1>5, <1>6, ConnectedMaps, CharacteristicsMap DEF DiscoveryNext

\* The initial states map to initial states.
LEMMA ShortInitMaps == ASSUME DiscoveryInit PROVE Short!Init
<1>1. /\ connection = [d \in Devices |-> None] /\ steps = <<>>
      /\ discovery_done = [d \in Devices |-> FALSE] /\ characteristics = [d \in Devices |-> {}]
  BY DEF DiscoveryInit, Init
<1>2. [d \in Devices |-> isConnected(d)] = [d \in Devices |-> FALSE]
  BY <1>1 DEF isConnected
<1>3. [d \in Devices |-> \E k \in DOMAIN steps : steps[k] = d] = [d \in Devices |-> FALSE]
  BY <1>1
<1>4. [d \in Devices |-> IF characteristics[d] = {} THEN {} ELSE Chars] = [d \in Devices |-> {}]
  BY <1>1
<1>5. QED
  BY <1>1, <1>2, <1>3, <1>4 DEF Short!Init

\* Connections and discovery are as Subscriptions takes them to be: a peer is
\* connected once at a time, discovered to the end before anything is asked of
\* it, and not disconnected while it is.
THEOREM ShortFormImplemented ==
  Serial /\ SomethingOffered => (DiscoverySpec => ImplementsShortForm)
<1> SUFFICES ASSUME Serial, SomethingOffered PROVE DiscoverySpec => Short!Spec
  BY DEF ImplementsShortForm
<1>1. DiscoveryInit => Short!Init
  BY ShortInitMaps
<1>2. SerialInv /\ DiscoveryInv /\ (OneDevice => ConnectionConsistent)
        /\ [DiscoveryNext]_discoveryVars => [Short!Next]_Short!vars
  BY ShortStepMaps DEF ShortStep
<1>3. DiscoverySpec => [](OneDevice => ConnectionConsistent)
  <2>1. CASE OneDevice
    BY <2>1, ConnectionsConsistent, DiscoveryIsCentral, PTL
  <2>2. CASE ~OneDevice
    BY <2>2, PTL
  <2>3. QED
    BY <2>1, <2>2
<1>4. QED
  BY <1>1, <1>2, <1>3, SerialDiscovery, PTL DEF DiscoverySpec, Short!Spec

=============================================================================
