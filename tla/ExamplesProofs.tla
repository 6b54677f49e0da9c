---------------------------- MODULE ExamplesProofs ----------------------------
(***************************************************************************)
(* Proofs about Examples: what the two programs leave behind.              *)
(*                                                                         *)
(* They keep to "one operation after the other" only in part: ble_scan     *)
(* asks for a stop, and then for a connection, each time it comes upon its *)
(* target.  The invariant therefore says what the queue holds at each      *)
(* stage of a program: stops as long as a scan goes on, then connections,  *)
(* and the disconnection of shutdown() last.                               *)
(***************************************************************************)
EXTENDS Examples, ShutdownProofs, DocumentedProofs

-----------------------------------------------------------------------------
(* The inductive invariant                                                 *)

ClientTypes ==
  /\ program \in Programs /\ doContinue \in BOOLEAN
  /\ role \in [Ids -> Roles]

isScanOp(a) == a.op = "scan" \/ a.op \in Stops

\* What the callbacks of an operation are for; shutdown()'s disconnection has
\* none of the program's.
Fits(r, op) ==
  \/ op = "scan" /\ r = "scan"
  \/ op \in Stops /\ r \in {"stop", "stopToConnect"}
  \/ op = "connect" /\ r = "connect"
  \/ op \in {"read", "write"} /\ r = "use"
  \/ op = "disconnect" /\ r = "none"

\* Each action has a number of its own, and callbacks that fit; what has not
\* been numbered yet has none, and was not reported.
Numbered ==
  /\ \A j, k \in DOMAIN asyncActions : asyncActions[j].id = asyncActions[k].id => j = k
  /\ \A k \in DOMAIN asyncActions :
       /\ asyncActions[k].id < nextId
       /\ asyncActions[k].op = "disconnect" <=> asyncActions[k].id = closer
       /\ Fits(role[asyncActions[k].id], asyncActions[k].op)
  /\ \A i \in Ids : i >= nextId => outcome[i] = <<>> /\ role[i] = "none"
  /\ closer # 0 => closer \in Ids /\ closer < nextId /\ role[closer] = "none"

\* ble_scan asks for its scan first, and for no stop after a connection;
\* read_write asks for one thing after the other.
InLine ==
  /\ \A k \in DOMAIN asyncActions : k > 1 =>
       isPending(asyncActions[k]) /\ asyncActions[k].op # "scan"
  /\ \A j, k \in DOMAIN asyncActions :
       j < k /\ asyncActions[k].op \in Stops => isScanOp(asyncActions[j])
  /\ \A k \in DOMAIN asyncActions :
       /\ isScanOp(asyncActions[k]) => program = "ble_scan"
       /\ asyncActions[k].op \in {"read", "write"} => program # "ble_scan"
       /\ program # "ble_scan" /\ k < Len(asyncActions) => isDone(asyncActions[k])

Line == Numbered /\ InLine

\* No stop is unfinished when there is a connection.
StoppedFirst ==
  connection[Target] # None =>
    \A k \in DOMAIN asyncActions : isScanOp(asyncActions[k]) => isDone(asyncActions[k])

allDone == \A k \in DOMAIN asyncActions : isDone(asyncActions[k])
scanOpsOnly == \A k \in DOMAIN asyncActions : isScanOp(asyncActions[k])
nothingDue == reportQueue = <<>> /\ draining = <<>>
onlyDue(r) == \/ reportQueue = <<r>> /\ draining = <<>>
              \/ reportQueue = <<>> /\ draining = <<r>>

\* main() and enable(): nothing has been queued yet.
Starts ==
  /\ asyncActions = <<>> /\ gattlib = {} /\ connection[Target] = None /\ ~is_scanning
  /\ doContinue /\ stage = "no"
  /\ \/ nothingDue /\ called \in {<<"main", "ok">>, <<"enable", "ok">>, <<"enable", "fail">>}
     \/ called = <<>> /\ onlyDue([op |-> "user", id |-> 0])

\* The scan waits for its turn.
ScanAsked ==
  /\ Len(asyncActions) = 1 /\ isPending(front) /\ front.op = "scan" /\ front.dev = None
  /\ gattlib = {} /\ called = <<>>

\* The scan goes on; it may have been cut short, and its stop be refused.
ScanGoesOn ==
  /\ \E i \in Ids : gattlib = {[id |-> i, op |-> "scan", dev |-> None]}
  /\ \A k \in DOMAIN asyncActions :
       /\ asyncActions[k].op # "stopScanDone"
       /\ asyncActions[k].op = "scan" => ~isPending(asyncActions[k])
       /\ asyncActions[k].op # "scan" => ~isRunning(asyncActions[k])
  /\ called \in {<<>>, <<"found", "ok">>, <<"stop", "fail">>, <<"stopToConnect", "fail">>}

Scans ==
  /\ ScanAsked \/ ScanGoesOn
  /\ scanOpsOnly /\ nothingDue /\ is_scanning /\ connection[Target] = None
  /\ program = "ble_scan" /\ doContinue /\ stage = "no"

\* The first action waits for gattlib.
GattlibAsked ==
  /\ asyncActions # <<>> /\ isRunning(front) /\ front.op # "scan"
  /\ gattlib = {[id |-> front.id, op |-> front.op, dev |-> front.dev]}
  /\ nothingDue /\ called = <<>>

\* gattlib has answered a connect or a read, which is not reported yet.
ReportDue ==
  /\ asyncActions # <<>> /\ gattlib = {} /\ called = <<>>
  /\ \/ /\ \E step \in ConnectSteps : onlyDue([op |-> step, id |-> 0])
        /\ isRunning(front) /\ front.op = "connect"
     \/ /\ onlyDue([op |-> "data", id |-> front.id])
        /\ phase = "events" \/ (phase = "reports" /\ draining # <<>>)
        /\ Len(asyncActions) = 1 /\ isDone(front) /\ front.op = "read"

\* A callback of the first action is to be run.
CalledBack ==
  /\ asyncActions # <<>> /\ isDone(front)
  /\ \E r \in Roles \ {"none"}, result \in {"ok", "fail"} : called = <<r, result>>
  /\ called[1] = role[front.id]
  /\ called[1] = "scan" => scanOpsOnly /\ connection[Target] = None
  /\ program # "ble_scan" => allDone

\* Nothing is under way.
Settled ==
  /\ gattlib = {} /\ nothingDue
  /\ asyncActions # <<>> /\ front.op = "scan" => isDone(front)
  /\ called = <<>> \/ CalledBack

Situation == Starts \/ Scans \/ GattlibAsked \/ ReportDue \/ Settled

\* When the loop has been left nothing is under way, or nothing will be when
\* this tick is over.
Ending ==
  stage = "no" /\ ~doContinue =>
    /\ gattlib = {} /\ nothingDue /\ called = <<>>
    /\ asyncActions # <<>> => ~isRunning(front) /\ (phase # "app" => isDone(front))
    /\ program # "ble_scan" => allDone

last == asyncActions[Len(asyncActions)]

\* Before shutdown()'s disconnection there are connections only, whose
\* callbacks ask for nothing; when it is reported there is nothing else left.
CloserInTurn ==
  stage = "waiting" =>
    /\ closer \in Ids /\ ~doContinue
    /\ IF outcome[closer] = <<>>
         THEN /\ ~adaptCloseCalled
              /\ asyncActions # <<>> /\ last.id = closer /\ ~isDone(last)
              /\ \A k \in DOMAIN asyncActions : k < Len(asyncActions) =>
                   \/ isDone(asyncActions[k])
                   \/ asyncActions[k].op = "connect" /\ program = "ble_scan"
              /\ called # <<>> => called[1] = "connect" /\ program = "ble_scan"
         ELSE /\ gattlib = {} /\ nothingDue /\ called = <<>>
              /\ \/ Len(asyncActions) = 1 /\ isDone(front)
                 \/ asyncActions = <<>> /\ phase = "app"
              /\ adaptCloseCalled => ~adapter_is_open

\* main() calls shutdown(); no callback does.
FromMain == stage # "no" => outer.phase = "app"

Returned == called = <<>> /\ exited /\ ~doneCbDue /\ NothingLeftBehind

ClientInv ==
  /\ TypeInv /\ ClientTypes
  /\ Line /\ StoppedFirst
  /\ Ending
  /\ stage = "no" => closer = 0
  /\ stage \in {"no", "waiting"} => Situation /\ (phase # "reports" => draining = <<>>)
  /\ CloserInTurn
  /\ stage \notin {"no", "waiting"} => Returned

-----------------------------------------------------------------------------
(* The queue: the four ways in which a step changes it                     *)

LEMMA SameLine ==
  ASSUME Line, UNCHANGED <<asyncActions, nextId, outcome, role, closer, program>>
  PROVE  Line'
BY DEF Line, Numbered, InLine, Fits, isScanOp, isPending, isDone

\* The first action is started, or done.
LEMMA MarkedLine ==
  ASSUME TypeOK, Line, asyncActions # <<>>, NEW state \in {"Triggered", "Completed"},
         asyncActions' = withState(state), isDone(front) => state = "Completed",
         \A i \in Ids : i >= nextId => outcome'[i] = outcome[i],
         UNCHANGED <<nextId, role, closer, program>>
  PROVE  /\ Line' /\ asyncActions' # <<>> /\ Len(asyncActions') = Len(asyncActions)
         /\ front'.id = front.id /\ front'.op = front.op /\ front'.dev = front.dev
         /\ front'.state = state
         /\ \A k \in DOMAIN asyncActions : k > 1 => asyncActions'[k] = asyncActions[k]
<1>1. /\ asyncActions \in Seq(Actions) /\ front = asyncActions[1] /\ front \in Actions
      /\ Len(asyncActions) \in Nat \ {0}
  BY FrontLemma DEF TypeOK, front
<1> PICK q : q = withState(state)
  OBVIOUS
<1>2. /\ q \in Seq(Actions) /\ q # <<>> /\ Len(q) = Len(asyncActions)
      /\ q[1] = [front EXCEPT !.state = state]
      /\ \A k \in 2..Len(asyncActions) : q[k] = asyncActions[k]
  BY <1>1, WithStateLemma
<1>3. /\ DOMAIN q = DOMAIN asyncActions /\ 1 \in DOMAIN q
      /\ \A k \in DOMAIN q : k = 1 \/ k \in 2..Len(asyncActions)
  BY <1>1, <1>2
<1>4. q[1].id = front.id /\ q[1].op = front.op /\ q[1].dev = front.dev /\ q[1].state = state
  BY <1>1, <1>2 DEF Actions
<1>5. \A k \in DOMAIN q : /\ q[k].id = asyncActions[k].id /\ q[k].op = asyncActions[k].op
                          /\ isDone(asyncActions[k]) => isDone(q[k])
                          /\ k > 1 => q[k] = asyncActions[k]
  <2>1. asyncActions[1].state = "Completed" => q[1].state = "Completed"
    BY <1>1, <1>4 DEF isDone
  <2>2. \A k \in 2..Len(asyncActions) : k > 1 /\ k # 1
    BY <1>1
  <2>3. ~(1 > 1)
    OBVIOUS
  <2>4. QED
    BY <1>1, <1>2, <1>3, <1>4, <2>1, <2>2, <2>3 DEF isDone
<1>6. Numbered'
  BY <1>3, <1>5 DEF Line, Numbered, Fits
<1>7. InLine'
  BY <1>2, <1>3, <1>5 DEF Line, InLine, isScanOp, isPending, isDone
<1>8. QED
  BY <1>1, <1>2, <1>3, <1>4, <1>5, <1>6, <1>7 DEF Line, front

\* An action is queued; the first one may have been cut short before.
LEMMA AddedLine ==
  ASSUME TypeOK, Line, NEW q \in Seq(Actions),
         \/ q = asyncActions
         \/ asyncActions # <<>> /\ isRunning(front) /\ q = withState("Completed"),
         NEW op \in QueuedOps, NEW d \in Devices \cup {None}, queueAsyncAction(q, op, d),
         Fits(role'[nextId], op), \A i \in Ids : i # nextId => role'[i] = role[i],
         \/ op # "disconnect" /\ UNCHANGED closer
         \/ op = "disconnect" /\ closer = 0 /\ closer' = nextId,
         op = "scan" => asyncActions = <<>>,
         op \in Stops => scanOpsOnly,
         isScanOp([op |-> op]) => program = "ble_scan",
         op \in {"read", "write"} => program # "ble_scan",
         program # "ble_scan" => allDone,
         \A i \in Ids : i >= nextId => outcome'[i] = outcome[i],
         UNCHANGED program
  PROVE  /\ Line' /\ asyncActions' # <<>>
         /\ Len(asyncActions') = Len(asyncActions) + 1
         /\ \A k \in DOMAIN asyncActions :
              /\ k \in DOMAIN asyncActions' /\ asyncActions'[k].op = asyncActions[k].op
              /\ asyncActions'[k].id = asyncActions[k].id
              /\ isDone(asyncActions[k]) => isDone(asyncActions'[k])
              /\ asyncActions'[k] = q[k]
         /\ asyncActions'[Len(asyncActions) + 1] =
              [id |-> nextId, op |-> op, dev |-> d, state |-> "Pending"]
<1> DEFINE n == Len(asyncActions)
           a == [id |-> nextId, op |-> op, dev |-> d, state |-> "Pending"]
<1>1. /\ asyncActions \in Seq(Actions) /\ nextId \in 1..(MaxRequests + 1) /\ n \in Nat
      /\ DOMAIN asyncActions = 1..n
  BY DEF TypeOK
<1>2. /\ Len(q) = n
      /\ \A k \in DOMAIN asyncActions :
           /\ q[k].op = asyncActions[k].op /\ q[k].id = asyncActions[k].id
           /\ isDone(asyncActions[k]) => isDone(q[k])
           /\ k > 1 => q[k] = asyncActions[k]
  <2>1. CASE q = asyncActions
    BY <2>1
  <2>2. CASE asyncActions # <<>> /\ isRunning(front) /\ q = withState("Completed")
    <3>1. /\ Len(q) = n /\ q[1] = [front EXCEPT !.state = "Completed"]
          /\ \A k \in 2..n : q[k] = asyncActions[k]
          /\ front \in Actions /\ front = asyncActions[1]
      BY <1>1, <2>2, WithStateLemma, FrontLemma DEF front
    <3>2. q[1].op = front.op /\ q[1].id = front.id /\ isDone(q[1])
      BY <3>1 DEF Actions, isDone
    <3>3. \A k \in DOMAIN asyncActions : k = 1 \/ k \in 2..n
      BY <1>1
    <3>4. \A k \in 2..n : k > 1 /\ k # 1
      BY <1>1
    <3>5. ~(1 > 1) /\ q[1].state = "Completed"
      BY <3>2 DEF isDone
    <3>6. QED
      BY <1>1, <3>1, <3>2, <3>3, <3>4, <3>5 DEF isDone
  <2>3. QED
    BY <2>1, <2>2
<1>3. /\ asyncActions' \in Seq(Actions) /\ Len(asyncActions') = n + 1
      /\ nextId \in Ids /\ nextId' = nextId + 1
      /\ asyncActions'[n + 1] = a
      /\ \A k \in 1..n : asyncActions'[k] = q[k]
  BY <1>1, <1>2, QueueLemma, BLECentralAssumption
<1> PICK q2 : q2 = asyncActions'
  OBVIOUS
<1>4. /\ DOMAIN q2 = 1..(n + 1) /\ q2[n + 1] = a /\ Len(q2) = n + 1
      /\ \A k \in 1..(n + 1) : k \in 1..n \/ k = n + 1
      /\ \A k \in 1..n : /\ q2[k].op = asyncActions[k].op /\ q2[k].id = asyncActions[k].id
                         /\ isDone(asyncActions[k]) => isDone(q2[k])
                         /\ k > 1 => q2[k] = asyncActions[k]
                         /\ q2[k] = q[k]
  <2>1. DOMAIN q2 = 1..(n + 1) /\ q2[n + 1] = a /\ Len(q2) = n + 1
    BY <1>1, <1>3
  <2>2. \A k \in 1..(n + 1) : k \in 1..n \/ k = n + 1
    BY <1>1
  <2>3. \A k \in 1..n : q2[k] = q[k]
    BY <1>3
  <2>4. QED
    BY <1>1, <1>2, <2>1, <2>2, <2>3
<1>5. a.id = nextId /\ a.op = op /\ isPending(a)
  BY DEF isPending
<1> HIDE DEF a
<1>6. \A k \in 1..n : /\ asyncActions[k] \in Actions /\ asyncActions[k].id \in Ids
                      /\ asyncActions[k].id < nextId /\ asyncActions[k].id # nextId
  <2>1. \A k \in 1..n : asyncActions[k] \in Actions /\ asyncActions[k].id < nextId
    BY <1>1 DEF Line, Numbered
  <2>2. \A b \in Actions : b.id \in Ids
    BY DEF Actions
  <2>3. \A i \in Ids : i < nextId => i # nextId
    BY <1>1 DEF Ids
  <2>4. QED
    BY <2>1, <2>2, <2>3
<1>7. Numbered'
  <2>1. \A j, k \in DOMAIN q2 : q2[j].id = q2[k].id => j = k
    BY <1>1, <1>4, <1>5, <1>6 DEF Line, Numbered
  <2>2. ASSUME NEW k \in DOMAIN q2
        PROVE  /\ q2[k].id < nextId + 1
               /\ q2[k].op = "disconnect" <=> q2[k].id = closer'
               /\ Fits(role'[q2[k].id], q2[k].op)
    <3>1. CASE k = n + 1
      <4>1. q2[k].id = nextId /\ q2[k].op = op
        BY <1>4, <1>5, <3>1
      <4>2. closer = nextId => FALSE
        BY <1>3 DEF Line, Numbered, Ids
      <4>3. QED
        BY <1>3, <4>1, <4>2 DEF Ids
    <3>2. CASE k \in 1..n
      <4>1. /\ q2[k].op = asyncActions[k].op /\ q2[k].id = asyncActions[k].id
            /\ asyncActions[k].id < nextId /\ asyncActions[k].id # nextId
            /\ asyncActions[k].id \in Ids
        BY <1>4, <1>6, <3>2
      <4>2. /\ asyncActions[k].op = "disconnect" <=> asyncActions[k].id = closer
            /\ Fits(role[asyncActions[k].id], asyncActions[k].op)
        BY <1>1, <3>2 DEF Line, Numbered
      <4>3. asyncActions[k].id # 0 /\ nextId \in Int
        BY <1>3, <4>1 DEF Ids
      <4>4. role'[asyncActions[k].id] = role[asyncActions[k].id]
        BY <4>1
      <4>5. QED
        BY <1>3, <4>1, <4>2, <4>3, <4>4 DEF Ids
    <3>3. QED
      BY <1>4, <3>1, <3>2
  <2>3. \A i \in Ids : i >= nextId + 1 => outcome'[i] = <<>> /\ role'[i] = "none"
    BY <1>3 DEF Line, Numbered, Ids
  <2>4. closer' # 0 => closer' \in Ids /\ closer' < nextId + 1 /\ role'[closer'] = "none"
    BY <1>3 DEF Line, Numbered, Ids, Fits, Stops
  <2>5. QED
    BY <1>3, <2>1, <2>2, <2>3, <2>4 DEF Numbered
<1>8. InLine'
  <2>1. \A k \in DOMAIN q2 : k > 1 => isPending(q2[k]) /\ q2[k].op # "scan"
    BY <1>1, <1>4, <1>5 DEF Line, InLine
  <2>2. \A j, k \in DOMAIN q2 : j < k /\ q2[k].op \in Stops => isScanOp(q2[j])
    BY <1>1, <1>4, <1>5 DEF Line, InLine, isScanOp, scanOpsOnly
  <2>3. \A k \in DOMAIN q2 :
          /\ isScanOp(q2[k]) => program = "ble_scan"
          /\ q2[k].op \in {"read", "write"} => program # "ble_scan"
          /\ program # "ble_scan" /\ k < n + 1 => isDone(q2[k])
    BY <1>1, <1>4, <1>5 DEF Line, InLine, isScanOp, allDone
  <2>4. QED
    BY <1>4, <2>1, <2>2, <2>3 DEF InLine, isScanOp, isPending, isDone
<1>9. QED
  BY <1>1, <1>3, <1>4, <1>7, <1>8 DEF Line, a

\* The first action is removed.
LEMMA PoppedLine ==
  ASSUME TypeOK, Line, asyncActions # <<>>, asyncActions' = Tail(asyncActions),
         UNCHANGED <<nextId, outcome, role, closer, program>>
  PROVE  /\ Line' /\ Len(asyncActions') = Len(asyncActions) - 1
         /\ \A k \in DOMAIN asyncActions' :
              /\ k + 1 \in DOMAIN asyncActions /\ asyncActions'[k] = asyncActions[k + 1]
              /\ k + 1 > 1
<1> PICK q : q = asyncActions'
  OBVIOUS
<1>1. asyncActions \in Seq(Actions)
  BY DEF TypeOK
<1>2. /\ Len(q) = Len(asyncActions) - 1 /\ Len(asyncActions) \in Nat \ {0}
      /\ \A k \in DOMAIN q : /\ k + 1 \in DOMAIN asyncActions /\ q[k] = asyncActions[k + 1]
                             /\ k \in Nat /\ k >= 1 /\ (k > 1 => k + 1 > 1)
      /\ \A j, k \in DOMAIN q : /\ j + 1 = k + 1 => j = k
                                /\ j < k => j + 1 < k + 1
      /\ \A k \in DOMAIN q : k < Len(q) => k + 1 < Len(asyncActions)
  BY <1>1
<1>3. Numbered'
  BY <1>2 DEF Line, Numbered, Fits
<1>4. InLine'
  BY <1>2 DEF Line, InLine, isScanOp, isPending, isDone
<1>5. QED
  BY <1>2, <1>3, <1>4 DEF Line

-----------------------------------------------------------------------------
(* The callbacks                                                           *)

\* The callback of the action that is reported is called, if it has one.
LEMMA CallbackRuns ==
  ASSUME TypeOK, callsBack, NEW i \in Ids, NEW result \in {"ok", "fail"}, reportTo(i, result)
  PROVE  called' = IF role[i] = "none" THEN <<>> ELSE <<role[i], result>>
<1> DEFINE reported == {j \in Ids : outcome'[j] # outcome[j] /\ role[j] # "none"}
<1>1. /\ outcome[i] \in Seq({"ok", "fail", "cancelled"})
      /\ outcome'[i] = Append(outcome[i], result)
      /\ \A j \in Ids : j # i => outcome'[j] = outcome[j]
  BY DEF TypeOK, reportTo
<1>2. outcome'[i] # outcome[i] /\ outcome'[i][Len(outcome'[i])] = result
  <2>1. \A s \in Seq({"ok", "fail", "cancelled"}) :
          /\ Append(s, result) # s
          /\ Append(s, result)[Len(Append(s, result))] = result
    OBVIOUS
  <2>2. QED
    BY <1>1, <2>1
<1>3. called' = IF reported = {} THEN <<>>
                ELSE LET j == CHOOSE j \in reported : TRUE
                     IN <<role[j], outcome'[j][Len(outcome'[j])]>>
  BY DEF callsBack
<1>4. CASE role[i] = "none"
  <2>1. reported = {}
    BY <1>1, <1>4
  <2>2. QED
    BY <1>3, <1>4, <2>1
<1>5. CASE role[i] # "none"
  <2>1. reported = {i}
    BY <1>1, <1>2, <1>5
  <2>2. (CHOOSE j \in reported : TRUE) = i
    BY <2>1
  <2>3. QED
    BY <1>2, <1>3, <1>5, <2>1, <2>2
<1>6. QED
  BY <1>4, <1>5

LEMMA NoCallbackRuns == ASSUME callsBack, UNCHANGED outcome PROVE called' = <<>>
BY DEF callsBack

\* While a callback is run shutdown() has not returned, and while it waits
\* that callback is one of connect() in ble_scan.
LEMMA CallbackWhen ==
  ASSUME ClientInv, called # <<>>
  PROVE  /\ phase # "crashed" => goesOn
         /\ Situation
         /\ stage = "no" \/ (stage = "waiting" /\ called[1] = "connect" /\ program = "ble_scan")
<1>1. stage \in {"no", "waiting"} /\ Situation
  BY DEF ClientInv, Returned
<1>2. CASE stage = "no"
  BY <1>1, <1>2 DEF ClientInv, goesOn, exited, hasReturned, doneCbDue
<1>3. CASE stage = "waiting"
  BY <1>1, <1>3 DEF ClientInv, CloserInTurn, goesOn, exited, hasReturned, doneCbDue
<1>4. QED
  BY <1>1, <1>2, <1>3

\* The program ends when shutdown() has returned.
LEMMA NotOver == ASSUME ClientInv, goesOn PROVE stage \in {"no", "waiting"}
BY DEF ClientInv, Returned, goesOn

-----------------------------------------------------------------------------
(* The programs are applications such as Shutdown is about                 *)

LEMMA ClientSteps ==
  ASSUME ClientInv, [ExamplesNext]_examplesVars
  PROVE  [ShutdownNext]_shutdownVars
<1>1. ASSUME goesOn, stage = "no", Request, UNCHANGED shutdownOnly PROVE ShutdownNext
  BY <1>1 DEF ShutdownNext, RequestMade
<1>2. ASSUME called # <<>>, called[1] # "connect" \/ program # "ble_scan",
             Request, UNCHANGED shutdownOnly
      PROVE  ShutdownNext
  <2>1. phase # "crashed"
    BY <1>2 DEF Request, Enable, AdapterOpen, AdapterClose, SetAutoDiscoverOnConnect, Scan, StopScan,
       Connect, Disconnect, Read, Write, UseConnection, MayRequest, MayStopScan, ClientInv,
       TypeInv
  <2>2. QED
    BY <1>1, <1>2, <2>1, CallbackWhen
<1>3. CASE Main
  <2>1. CASE endsLoop
    BY <2>1 DEF endsLoop
  <2>2. CASE Enable("enable") /\ UNCHANGED shutdownOnly
    <3>1. called = <<"main", "ok">>
      BY <1>3 DEF Main, runsBody
    <3>2. called # <<>> /\ called[1] # "connect"
      BY <3>1
    <3>3. Request
      BY <2>2 DEF Request
    <3>4. QED
      BY <1>2, <2>2, <3>2, <3>3
  <2>3. QED
    BY <1>3, <2>1, <2>2 DEF Main
<1>4. ASSUME NEW r, NEW result, runsBody(r, result) PROVE called # <<>> /\ called[1] = r
  BY <1>4 DEF runsBody
<1>5. Devices = {Target}
  BY ExamplesAssumption
<1>6. CASE Enabled
  <2>1. called # <<>> /\ called[1] # "connect"
    BY <1>4, <1>6 DEF Enabled
  <2>2. Scan("scan") => Request
    BY DEF Request, ScanOps
  <2>3. Connect(Target) => Request
    BY <1>5 DEF Request
  <2>4. QED
    BY <1>2, <1>6, <2>1, <2>2, <2>3 DEF Enabled, asks
<1>7. CASE ScanDone \/ Found
  <2>1. called # <<>> /\ called[1] # "connect"
    BY <1>4, <1>7 DEF ScanDone, Found
  <2>2. StopScan => Request
    BY DEF Request
  <2>3. QED
    BY <1>2, <1>7, <2>1, <2>2 DEF ScanDone, Found, asks
<1>8. CASE StoppedToConnect
  <2>1. called # <<>> /\ called[1] # "connect"
    BY <1>4, <1>8 DEF StoppedToConnect
  <2>2. Connect(Target) => Request
    BY <1>5 DEF Request
  <2>3. QED
    BY <1>2, <1>8, <2>1, <2>2 DEF StoppedToConnect, asks, endsLoop
<1>9. CASE ConnectDone
  <2>1. called # <<>>
    BY <1>4, <1>9 DEF ConnectDone
  <2>2. (Read(Target) => Request) /\ (Write(Target) => Request)
    BY <1>5 DEF Request
  <2>3. CASE program = "read" /\ asks(Read(Target), "use")
    BY <1>2, <2>1, <2>2, <2>3 DEF asks
  <2>4. CASE program = "write" /\ asks(Write(Target), "use")
    BY <1>2, <2>1, <2>2, <2>4 DEF asks
  <2>5. CASE endsLoop
    BY <2>5 DEF endsLoop
  <2>6. QED
    BY <1>9, <2>3, <2>4, <2>5 DEF ConnectDone
<1>10. CASE StopFailed \/ ConnectFailed \/ LastCallback
  BY <1>10 DEF StopFailed, ConnectFailed, LastCallback, endsLoop, doesNothing
<1>11. CASE LoopTurns
  BY <1>11 DEF LoopTurns, ShutdownNext
<1>12. CASE EventsEnd
  BY <1>12 DEF EventsEnd, noBody, EventsDelivered, ShutdownNext
<1>13. CASE EnableReported \/ OtherReport
  BY <1>13 DEF EnableReported, OtherReport, noBody, ReportRuns, RunReport, ShutdownNext
<1>14. CASE LoopEnds
  BY <1>14 DEF LoopEnds, ShutdownNext
<1>15. CASE MainShutsDown \/ ShuttingDown
  BY <1>15 DEF MainShutsDown, ShuttingDown, ShutdownNext
<1>16. ASSUME NEW g \in gattlib, TargetDiscovered(g) \/ Answered(g) PROVE ShutdownNext
  BY <1>16 DEF TargetDiscovered, Answered, noBody, EventsDelivered, Deliver, ShutdownNext
<1>17. CASE UNCHANGED examplesVars
  BY <1>17 DEF examplesVars
<1>18. CASE Ended
  BY <1>18 DEF Ended
<1>19. QED
  BY <1>3, <1>6, <1>7, <1>8, <1>9, <1>10, <1>11, <1>12, <1>13, <1>14, <1>15, <1>16, <1>17,
     <1>18 DEF ExamplesNext, ProgramStep, Body

-----------------------------------------------------------------------------
(* The first action is reported                                            *)

\* A scan is not done before gattlib has been asked for it.
LEMMA ScanIsFirst ==
  ASSUME Situation, asyncActions # <<>>, front.op = "scan" PROVE Scans \/ isDone(front)
BY DEF Situation, Starts, GattlibAsked, ReportDue, Settled

\* An action that is not done is the only one in read_write.
LEMMA OneInTurn ==
  ASSUME TypeOK, Line, asyncActions # <<>>, program # "ble_scan", ~isDone(front)
  PROVE  Len(asyncActions) = 1
<1>1. Len(asyncActions) \in Nat \ {0} /\ front = asyncActions[1] /\ 1 \in DOMAIN asyncActions
  BY FrontLemma DEF TypeOK, front
<1>2. ~(1 < Len(asyncActions))
  BY <1>1 DEF Line, InLine
<1>3. QED
  BY <1>1, <1>2

LEMMA Concluded ==
  ASSUME ClientInv, TypeInv', asyncActions # <<>>, stage \in {"no", "waiting"}, phase # "app",
         NEW result \in {"ok", "fail"}, completedWith(result),
         result = "ok" => front.op # "read",
         ~isDone(front) \/ Scans, Scans => connection'[Target] = None, StoppedFirst',
         callsBack, gattlib' = {}, nothingDue',
         UNCHANGED <<nextId, stage, closer, adaptCloseCalled>>
  PROVE  ClientInv'
<1>1. /\ asyncActions' = withState("Completed") /\ reportTo(front.id, result)
      /\ UNCHANGED <<program, doContinue, role, stage, closer, adaptCloseCalled>>
  BY DEF completedWith, callsBack
<1>2. /\ TypeOK /\ Line /\ front \in Actions /\ front.id \in Ids
      /\ Len(asyncActions) \in Nat \ {0} /\ front = asyncActions[1] /\ 1 \in DOMAIN asyncActions
      /\ ClientTypes /\ Situation /\ stage \in {"no", "waiting"}
  <2>1. /\ TypeOK /\ Line /\ ClientTypes /\ Situation /\ stage \in {"no", "waiting"}
    BY DEF ClientInv, TypeInv, ShutdownTypeOK
  <2>2. front \in Actions /\ Len(asyncActions) \in Nat \ {0}
    BY <2>1, FrontLemma DEF TypeOK
  <2>3. front.id \in Ids /\ front = asyncActions[1] /\ 1 \in DOMAIN asyncActions
    BY <2>1, <2>2 DEF Actions, TypeOK, front
  <2>4. QED
    BY <2>1, <2>2, <2>3
<1>3. /\ outcome[front.id] \in Seq({"ok", "fail", "cancelled"})
      /\ outcome'[front.id] = Append(outcome[front.id], result)
      /\ \A i \in Ids : i # front.id => outcome'[i] = outcome[i]
  BY <1>1, <1>2 DEF TypeOK, reportTo
<1>4. /\ front.id < nextId /\ Fits(role[front.id], front.op)
      /\ front.op = "disconnect" <=> front.id = closer
  BY <1>2 DEF Line, Numbered
<1>5. /\ Line' /\ asyncActions' # <<>> /\ Len(asyncActions') = Len(asyncActions)
      /\ front'.id = front.id /\ front'.op = front.op /\ front'.state = "Completed"
      /\ \A k \in DOMAIN asyncActions : k > 1 => asyncActions'[k] = asyncActions[k]
  <2>1. \A i \in Ids : i >= nextId => outcome'[i] = outcome[i]
    BY <1>2, <1>3, <1>4, BLECentralAssumption DEF Ids, TypeOK
  <2>2. QED
    BY <1>1, <1>2, <2>1, MarkedLine
<1>6. isDone(front')
  BY <1>5 DEF isDone
<1>7. called' = IF role[front.id] = "none" THEN <<>> ELSE <<role[front.id], result>>
  BY <1>1, <1>2, CallbackRuns
<1>8. /\ DOMAIN asyncActions' = DOMAIN asyncActions /\ front' = asyncActions'[1]
      /\ \A k \in DOMAIN asyncActions : k = 1 \/ k > 1
  BY <1>2, <1>5, TypeCorrect DEF TypeInv, TypeOK, front
<1>9. ~Scans => ~isDone(front) /\ front.op # "scan"
  BY <1>2, ScanIsFirst
<1>10. ~Scans /\ program # "ble_scan" => Len(asyncActions) = 1
  BY <1>2, <1>9, OneInTurn
<1>11. \A k \in DOMAIN asyncActions : asyncActions'[k].op = asyncActions[k].op
  BY <1>2, <1>5, <1>8
<1>12. Settled'
  <2>1. CASE role[front.id] = "none"
    BY <1>5, <1>6, <1>7, <2>1 DEF Settled
  <2>2. CASE role[front.id] # "none"
    <3>1. role[front.id] \in Roles \ {"none"} /\ called' = <<role[front.id], result>>
      BY <1>2, <1>7, <2>2 DEF ClientTypes
    <3>2. role[front.id] = "scan" => front.op = "scan"
      BY <1>4 DEF Fits
    <3>3. front.op = "scan" => scanOpsOnly' /\ connection'[Target] = None
      <4>1. front.op = "scan" => Scans
        BY <1>9
      <4>2. Scans => scanOpsOnly'
        BY <1>8, <1>11 DEF Scans, scanOpsOnly, isScanOp
      <4>3. QED
        BY <4>1, <4>2
    <3>4. program' # "ble_scan" => allDone'
      <4>1. Scans => program = "ble_scan"
        BY DEF Scans
      <4>2. Len(asyncActions) = 1 => \A k \in DOMAIN asyncActions' : k = 1
        BY <1>2, <1>8
      <4>3. Len(asyncActions) = 1 => allDone'
        BY <1>6, <1>8, <4>2 DEF allDone, isDone
      <4>4. QED
        BY <1>1, <1>10, <4>1, <4>3
    <3>5. called'[1] = role'[front'.id]
      BY <1>1, <1>5, <3>1
    <3>6. CalledBack'
      BY <1>5, <1>6, <3>1, <3>2, <3>3, <3>4, <3>5 DEF CalledBack
    <3>7. QED
      BY <1>6, <3>6 DEF Settled
  <2>3. QED
    BY <2>1, <2>2
<1>13. Ending'
  <2>1. stage = "no" /\ ~doContinue => isDone(front)
    BY DEF ClientInv, Ending
  <2>2. Scans => doContinue
    BY DEF Scans
  <2>3. QED
    BY <1>1, <2>1, <2>2 DEF Ending
<1>14. CloserInTurn'
  <2> SUFFICES ASSUME stage = "waiting" PROVE CloserInTurn'
    BY <1>1 DEF CloserInTurn
  <2>1. ~isDone(front) /\ closer \in Ids /\ ~doContinue
    BY <1>9 DEF Scans, ClientInv, CloserInTurn
  <2>2. outcome[closer] = <<>> /\ ~adaptCloseCalled
    BY <1>2, <2>1 DEF ClientInv, CloserInTurn
  <2>3. /\ last.id = closer /\ ~isDone(last)
        /\ \A k \in DOMAIN asyncActions : k < Len(asyncActions) =>
             isDone(asyncActions[k]) \/ (asyncActions[k].op = "connect" /\ program = "ble_scan")
    BY <2>2 DEF ClientInv, CloserInTurn
  <2>4. last = asyncActions[Len(asyncActions)] /\ Len(asyncActions) \in DOMAIN asyncActions
    BY <1>2 DEF last, TypeOK
  <2>5. CASE front.id = closer
    <3>1. Len(asyncActions) = 1
      BY <1>2, <2>3, <2>4, <2>5 DEF Line, Numbered
    <3>2. outcome'[closer] # <<>>
      BY <1>3, <2>5
    <3>3. called' = <<>>
      BY <1>2, <1>7, <2>1, <2>5 DEF Line, Numbered, Ids
    <3>4. QED
      BY <1>1, <1>5, <1>6, <2>1, <2>2, <3>1, <3>2, <3>3 DEF CloserInTurn
  <2>6. CASE front.id # closer
    <3>1. Len(asyncActions) > 1
      BY <1>2, <2>3, <2>4, <2>6
    <3>2. front.op = "connect" /\ program = "ble_scan"
      BY <1>2, <2>1, <2>3, <3>1
    <3>3. outcome'[closer] = <<>>
      BY <1>3, <2>1, <2>2, <2>6
    <3>4. last' = last
      BY <1>5, <2>4, <3>1 DEF last
    <3>5. last'.id = closer /\ ~isDone(last')
      BY <2>3, <3>4
    <3>6. \A k \in DOMAIN asyncActions' : k < Len(asyncActions') =>
            isDone(asyncActions'[k]) \/ (asyncActions'[k].op = "connect" /\ program = "ble_scan")
      BY <1>5, <1>6, <1>8, <2>3 DEF isDone
    <3>7. role[front.id] = "connect"
      BY <1>4, <3>2 DEF Fits, Stops
    <3>8. called' # <<>> => called'[1] = "connect"
      BY <1>7, <3>7
    <3>9. QED
      BY <1>1, <1>5, <2>1, <2>2, <3>2, <3>3, <3>5, <3>6, <3>8 DEF CloserInTurn, isDone
  <2>7. QED
    BY <2>5, <2>6
<1>15. QED
  BY <1>1, <1>2, <1>5, <1>12, <1>13, <1>14
     DEF ClientInv, ClientTypes, Situation, nothingDue, Returned

-----------------------------------------------------------------------------
(* The answers of gattlib                                                  *)

\* Nothing but the first action's own progress: the queue, what has been
\* reported and the program stay as they are while something is under way.
LEMMA UnderWay ==
  ASSUME ClientInv, TypeInv', stage \in {"no", "waiting"}, gattlib # {} \/ ~nothingDue,
         UNCHANGED <<asyncActions, nextId, outcome, program, doContinue, role, stage, closer,
                     adaptCloseCalled>>,
         called' = <<>>, StoppedFirst', Situation', phase' # "reports" => draining' = <<>>
  PROVE  ClientInv'
<1>1. ClientTypes' /\ Line'
  BY SameLine DEF ClientInv, ClientTypes
<1>2. stage = "no" => doContinue /\ closer = 0
  BY DEF ClientInv, Ending
<1>3. CloserInTurn'
  BY DEF ClientInv, CloserInTurn, last, isDone
<1>4. QED
  BY <1>1, <1>2, <1>3 DEF ClientInv, Ending, Returned

\* While the first action has to do with no scan no other has.
LEMMA NoScanAfter ==
  ASSUME TypeOK, Line, asyncActions # <<>>, ~isScanOp(front)
  PROVE  \A k \in DOMAIN asyncActions : ~isScanOp(asyncActions[k])
<1>1. /\ 1 \in DOMAIN asyncActions /\ front = asyncActions[1]
      /\ \A k \in DOMAIN asyncActions : k = 1 \/ (1 < k /\ k > 1)
  BY FrontLemma DEF TypeOK, front
<1>2. QED
  BY <1>1 DEF Line, InLine, isScanOp

\* The first action is done, and no connection has come about unless it was
\* one itself.
LEMMA StillStoppedFirst ==
  ASSUME TypeOK, Line, StoppedFirst, asyncActions # <<>>,
         asyncActions' = withState("Completed"),
         \/ connection'[Target] \in {connection[Target], None}
         \/ ~isScanOp(front)
  PROVE  StoppedFirst'
<1>1. asyncActions \in Seq(Actions) /\ front = asyncActions[1] /\ front \in Actions
  BY FrontLemma DEF TypeOK, front
<1> PICK q : q = withState("Completed")
  OBVIOUS
<1>2. /\ q \in Seq(Actions) /\ Len(q) = Len(asyncActions)
      /\ q[1] = [front EXCEPT !.state = "Completed"]
      /\ \A k \in 2..Len(asyncActions) : q[k] = asyncActions[k]
  BY <1>1, WithStateLemma
<1>3. /\ DOMAIN q = DOMAIN asyncActions
      /\ \A k \in DOMAIN q : k = 1 \/ k \in 2..Len(asyncActions)
  BY <1>1, <1>2
<1>4. isDone(q[1]) /\ q[1].op = front.op
  BY <1>1, <1>2 DEF Actions, isDone
<1>5. CASE connection'[Target] \in {connection[Target], None}
  BY <1>2, <1>3, <1>4, <1>5 DEF StoppedFirst, isScanOp, isDone
<1>6. CASE ~isScanOp(front)
  BY <1>2, <1>3, <1>4, <1>6, NoScanAfter DEF StoppedFirst, isScanOp, isDone
<1>7. QED
  BY <1>5, <1>6

\* What an answer finds: the call that gattlib answers is the only one, and
\* it is a scan or the call the first action waits for.
LEMMA WhoIsAnswered ==
  ASSUME ClientInv, stage \in {"no", "waiting"}, NEW g \in gattlib
  PROVE  /\ gattlib = {g} /\ nothingDue /\ g.op # "startScan"
         /\ \/ Scans /\ ScanGoesOn /\ g.op = "scan"
            \/ GattlibAsked /\ front.op = g.op /\ g.op # "scan"
<1>1. TypeOK /\ Line /\ Situation
  BY DEF ClientInv, TypeInv
<1>2. CASE Scans
  BY <1>2 DEF Scans, ScanAsked, ScanGoesOn
<1>3. CASE GattlibAsked
  <2>1. 1 \in DOMAIN asyncActions /\ front = asyncActions[1]
    BY <1>1, <1>3, FrontLemma DEF TypeOK, front, GattlibAsked
  <2>2. front.op # "startScan"
    BY <1>1, <2>1 DEF Line, Numbered, Fits, Stops
  <2>3. QED
    BY <1>3, <2>2 DEF GattlibAsked
<1>4. QED
  BY <1>1, <1>2, <1>3 DEF Situation, Starts, ReportDue, Settled

LEMMA ScanAnswered ==
  ASSUME ClientInv, TypeInv', noBody, NEW g \in gattlib, ScanEnded(g), callsBack,
         UNCHANGED shutdownOnly
  PROVE  ClientInv'
<1>1. /\ TypeOK /\ Line /\ StoppedFirst /\ stage \in {"no", "waiting"} /\ phase = "events"
      /\ UNCHANGED <<program, doContinue, role, stage, closer, adaptCloseCalled>>
  BY NotOver DEF ClientInv, TypeInv, noBody, ScanEnded, answers, callsBack, shutdownOnly
<1>2. /\ gattlib = {g} /\ nothingDue
      /\ \/ Scans /\ ScanGoesOn
         \/ GattlibAsked /\ front.op = g.op /\ g.op # "scan"
  BY <1>1, WhoIsAnswered
<1>3. /\ gattlib' = {} /\ nothingDue' /\ currentOp("ok")
      /\ UNCHANGED <<phase, connection, draining, nextId>>
  BY <1>2 DEF ScanEnded, answers, nothingDue
<1>4. CASE asyncActions = <<>>
  <2>1. UNCHANGED <<asyncActions, outcome>> /\ called' = <<>>
    BY <1>3, <1>4, NoCallbackRuns DEF currentOp
  <2>2. Settled'
    BY <1>3, <1>4, <2>1 DEF Settled
  <2>3. StoppedFirst'
    BY <1>1, <1>3, <2>1 DEF StoppedFirst, isScanOp, isDone
  <2>4. QED
    BY <1>1, <1>2, <1>3, <2>1, <2>2, <2>3, UnderWay DEF Situation, nothingDue
<1>5. CASE asyncActions # <<>>
  <2>1. completedWith("ok") /\ asyncActions' = withState("Completed")
    BY <1>3, <1>5 DEF currentOp, completedWith
  <2>2. StoppedFirst'
    BY <1>1, <1>3, <1>5, <2>1, StillStoppedFirst
  <2>3. front.op # "read"
    <3>1. 1 \in DOMAIN asyncActions /\ front = asyncActions[1]
      BY <1>1, <1>5, FrontLemma DEF TypeOK, front
    <3>2. QED
      BY <1>2, <3>1 DEF Scans, scanOpsOnly, isScanOp, Stops, ScanEnded
  <2>4. ~isDone(front) \/ Scans
    BY <1>2 DEF GattlibAsked, isRunning, isDone
  <2>5. Scans => connection'[Target] = None
    BY <1>3 DEF Scans
  <2>6. QED
    BY <1>1, <1>3, <1>5, <2>1, <2>2, <2>3, <2>4, <2>5, Concluded
<1>6. QED
  BY <1>4, <1>5

LEMMA ConnectAnswered ==
  ASSUME ClientInv, TypeInv', noBody, NEW g \in gattlib, NEW peer, DeviceConnected(g, peer),
         callsBack, UNCHANGED shutdownOnly
  PROVE  ClientInv'
<1>1. /\ TypeOK /\ Line /\ StoppedFirst /\ stage \in {"no", "waiting"} /\ phase = "events"
      /\ UNCHANGED <<program, doContinue, role, stage, closer, adaptCloseCalled>>
  BY NotOver DEF ClientInv, TypeInv, noBody, DeviceConnected, answers, callsBack, shutdownOnly
<1>2. /\ gattlib = {g} /\ nothingDue /\ GattlibAsked /\ front.op = "connect"
      /\ asyncActions # <<>> /\ isRunning(front)
  BY <1>1, WhoIsAnswered DEF DeviceConnected, GattlibAsked
<1>3. gattlib' = {} /\ UNCHANGED <<draining, nextId>>
  BY <1>2 DEF DeviceConnected, answers
<1>4. ~isScanOp(front) /\ \A k \in DOMAIN asyncActions : ~isScanOp(asyncActions[k])
  BY <1>1, <1>2, NoScanAfter DEF isScanOp, Stops
<1>5. CASE connected_to = None
  <2>1. /\ UNCHANGED <<connection, reportQueue, asyncActions, outcome>>
        /\ called' = <<>> /\ nothingDue'
    BY <1>2, <1>3, <1>5, NoCallbackRuns DEF DeviceConnected, nothingDue
  <2>2. front' = front
    BY <2>1 DEF front
  <2>3. Settled' /\ StoppedFirst'
    BY <1>2, <1>3, <1>4, <2>1, <2>2 DEF Settled, StoppedFirst, isScanOp
  <2>4. QED
    BY <1>1, <1>2, <1>3, <2>1, <2>3, UnderWay DEF Situation, nothingDue
<1>6. CASE connected_to # None /\ discovers(peer)
  <2>1. /\ UNCHANGED <<phase, asyncActions, outcome>> /\ called' = <<>>
        /\ reportQueue' = <<[op |-> "discoverServices", id |-> 0]>>
    BY <1>2, <1>6, NoCallbackRuns DEF DeviceConnected, nothingDue, pushReport
  <2>2. front' = front
    BY <2>1 DEF front
  <2>3. ReportDue'
    BY <1>2, <1>3, <2>1, <2>2 DEF ReportDue, onlyDue, nothingDue, isRunning, ConnectSteps
  <2>4. StoppedFirst'
    BY <1>4, <2>1 DEF StoppedFirst, isScanOp
  <2>5. QED
    BY <1>1, <1>2, <1>3, <2>1, <2>3, <2>4, UnderWay DEF Situation, nothingDue
<1>7. CASE connected_to # None /\ ~discovers(peer)
  <2> PICK result \in {"ok", "fail"} : result = connectResult(peer)
    BY DEF connectResult
  <2>1. /\ completedWith(result) /\ asyncActions' = withState("Completed")
        /\ nothingDue'
    BY <1>2, <1>3, <1>7 DEF DeviceConnected, currentOp, completedWith, nothingDue
  <2>2. StoppedFirst'
    BY <1>1, <1>2, <1>4, <2>1, StillStoppedFirst
  <2>3. ~isDone(front) /\ ~Scans
    BY <1>2 DEF Scans, ScanAsked, ScanGoesOn, isRunning, isDone, isPending, GattlibAsked
  <2>4. front.op # "read"
    BY <1>2
  <2>5. QED
    BY <1>1, <1>2, <1>3, <2>1, <2>2, <2>3, <2>4, Concluded
<1>8. QED
  BY <1>5, <1>6, <1>7

\* The answers to a disconnection and to a write report them.
LEMMA OthersAnswered ==
  ASSUME ClientInv, TypeInv', noBody, NEW g \in gattlib, NEW result \in {"ok", "fail"},
         (DeviceDisconnected(g) /\ result = "ok") \/ WriteAnswered(g, result),
         callsBack, UNCHANGED shutdownOnly
  PROVE  ClientInv'
<1>1. /\ TypeOK /\ Line /\ StoppedFirst /\ stage \in {"no", "waiting"} /\ phase = "events"
      /\ UNCHANGED <<program, doContinue, role, stage, closer, adaptCloseCalled>>
      /\ g.op \in {"disconnect", "write"} /\ gattlib' = gattlib \ {g} /\ currentOp(result)
      /\ UNCHANGED <<reportQueue, draining, nextId>>
  BY NotOver DEF ClientInv, TypeInv, noBody, DeviceDisconnected, WriteAnswered, answers,
         callsBack, shutdownOnly
<1>2. /\ gattlib = {g} /\ nothingDue /\ GattlibAsked /\ front.op = g.op
      /\ asyncActions # <<>> /\ isRunning(front)
  BY <1>1, WhoIsAnswered DEF GattlibAsked
<1>3. gattlib' = {} /\ nothingDue'
  BY <1>1, <1>2 DEF nothingDue
<1>4. completedWith(result) /\ asyncActions' = withState("Completed")
  BY <1>1, <1>2 DEF currentOp, completedWith
<1>5. ~isScanOp(front) /\ front.op # "read"
  BY <1>1, <1>2 DEF isScanOp, Stops
<1>6. StoppedFirst'
  BY <1>1, <1>2, <1>4, <1>5, StillStoppedFirst
<1>7. ~isDone(front) /\ ~Scans
  BY <1>2 DEF Scans, ScanAsked, ScanGoesOn, isRunning, isDone, isPending, GattlibAsked
<1>8. QED
  BY <1>1, <1>2, <1>3, <1>4, <1>5, <1>6, <1>7, Concluded

LEMMA ReadIsAnswered ==
  ASSUME ClientInv, TypeInv', noBody, NEW g \in gattlib, NEW empty, ReadAnswered(g, empty),
         callsBack, UNCHANGED shutdownOnly
  PROVE  ClientInv'
<1>1. /\ TypeOK /\ Line /\ StoppedFirst /\ ClientTypes /\ stage \in {"no", "waiting"} /\ phase = "events"
      /\ UNCHANGED <<program, doContinue, role, stage, closer, adaptCloseCalled>>
      /\ g.op = "read" /\ gattlib' = gattlib \ {g}
      /\ UNCHANGED <<phase, connection, draining, nextId, outcome>> /\ called' = <<>>
  BY NotOver, NoCallbackRuns DEF ClientInv, TypeInv, noBody, ReadAnswered, answers, central,
     readDataReceived, callsBack, shutdownOnly
<1>2. /\ gattlib = {g} /\ nothingDue /\ GattlibAsked /\ front.op = "read"
      /\ asyncActions # <<>> /\ isRunning(front)
  BY <1>1, WhoIsAnswered DEF GattlibAsked
<1>3. gattlib' = {} /\ ~isScanOp(front)
  BY <1>1, <1>2 DEF isScanOp, Stops
<1>4. CASE UNCHANGED <<asyncActions, reportQueue>>
  <2>1. front' = front
    BY <1>4 DEF front
  <2>2. Settled'
    BY <1>1, <1>2, <1>3, <1>4, <2>1 DEF Settled, nothingDue
  <2>3. StoppedFirst'
    BY <1>1, <1>4 DEF StoppedFirst, isScanOp, isDone
  <2>4. QED
    BY <1>1, <1>2, <1>4, <2>2, <2>3, UnderWay DEF Situation, nothingDue
<1>5. CASE asyncActions' = withState("Completed") /\ pushReport("data", front.id)
  <2>1. /\ Line' /\ asyncActions' # <<>> /\ Len(asyncActions') = Len(asyncActions)
        /\ front'.id = front.id /\ front'.op = front.op /\ front'.state = "Completed"
    BY <1>1, <1>2, <1>5, MarkedLine
  <2>2. /\ 1 \in DOMAIN asyncActions /\ front = asyncActions[1] /\ Len(asyncActions) = 1
        /\ last = front
    <3>1. 1 \in DOMAIN asyncActions /\ front = asyncActions[1]
      BY <1>1, <1>2, FrontLemma DEF TypeOK, front
    <3>2. program # "ble_scan" /\ ~isDone(front)
      BY <1>1, <1>2, <3>1 DEF Line, InLine, isDone, isRunning
    <3>3. QED
      BY <1>1, <1>2, <3>1, <3>2, OneInTurn DEF last
  <2>3. reportQueue' = <<[op |-> "data", id |-> front'.id]>> /\ draining' = <<>>
    BY <1>1, <1>2, <1>5, <2>1 DEF pushReport, nothingDue
  <2>4. ReportDue'
    BY <1>1, <1>2, <1>3, <2>1, <2>2, <2>3 DEF ReportDue, onlyDue, isDone
  <2>5. StoppedFirst'
    BY <1>1, <1>2, <1>3, <1>5, StillStoppedFirst
  <2>6. stage # "waiting"
    <3>1. front.id # closer
      BY <1>1, <1>2, <2>2 DEF Line, Numbered
    <3>2. QED
      BY <1>2, <2>2, <3>1 DEF ClientInv, CloserInTurn
  <2>7. stage = "no" => doContinue /\ closer = 0
    BY <1>2 DEF ClientInv, Ending
  <2>8. QED
    BY <1>1, <1>2, <2>1, <2>3, <2>4, <2>5, <2>6, <2>7
       DEF ClientInv, ClientTypes, Ending, CloserInTurn, Situation
<1>6. QED
  BY <1>2, <1>4, <1>5 DEF ReadAnswered, readDataReceived

LEMMA AnswerStep ==
  ASSUME ClientInv, TypeInv', NEW g \in gattlib, Answered(g) PROVE ClientInv'
<1>1. noBody /\ Answer(g) /\ callsBack /\ UNCHANGED shutdownOnly
  BY DEF Answered
<1>2. CASE ScanEnded(g)
  BY <1>1, <1>2, ScanAnswered
<1>3. CASE \E peer \in {g.dev, None} : DeviceConnected(g, peer)
  BY <1>1, <1>3, ConnectAnswered
<1>4. CASE DeviceDisconnected(g)
  BY <1>1, <1>4, OthersAnswered
<1>5. CASE \E empty \in {FALSE, EmptyReads} : ReadAnswered(g, empty)
  BY <1>1, <1>5, ReadIsAnswered
<1>6. CASE \E result \in {"ok", "fail"} : WriteAnswered(g, result)
  BY <1>1, <1>6, OthersAnswered
<1>7. QED
  BY <1>1, <1>2, <1>3, <1>4, <1>5, <1>6 DEF Answer

LEMMA DiscoveryStep ==
  ASSUME ClientInv, TypeInv', NEW g \in gattlib, TargetDiscovered(g) PROVE ClientInv'
<1>1. /\ stage \in {"no", "waiting"} /\ Line /\ StoppedFirst /\ called' = <<"found", "ok">>
      /\ g.op \in ScanOps
      /\ UNCHANGED <<phase, connection, is_scanning, asyncActions, reportQueue, draining,
                     gattlib, nextId, outcome, program, doContinue, role, stage, closer,
                     adaptCloseCalled>>
  BY NotOver DEF ClientInv, TargetDiscovered, noBody, DeviceDiscovered, central, shutdownOnly
<1>2. Scans /\ ScanGoesOn
  BY <1>1, WhoIsAnswered DEF ScanOps
<1>3. Line' /\ StoppedFirst' /\ ClientTypes'
  BY <1>1, SameLine DEF ClientInv, ClientTypes, StoppedFirst, isScanOp, isDone
<1>4. Scans'
  BY <1>1, <1>2 DEF Scans, ScanGoesOn, scanOpsOnly, isScanOp, nothingDue, isPending, isRunning
<1>5. QED
  BY <1>1, <1>2, <1>3, <1>4 DEF ClientInv, Scans, Situation, Ending, CloserInTurn

-----------------------------------------------------------------------------
(* The main loop, and what processAsync() reports                          *)

LEMMA LoopStep == ASSUME ClientInv, TypeInv', LoopTurns PROVE ClientInv'
<1>1. /\ stage \in {"no", "waiting"} /\ called = <<>> /\ ~doneCbDue
      /\ (stage = "no" => doContinue) /\ (stage = "waiting" => ~adaptCloseCalled)
      /\ phase = "app" /\ phase' = "events"
      /\ UNCHANGED <<connection, is_scanning, asyncActions, reportQueue, draining,
                     gattlib, nextId, outcome, program, doContinue, role, called, stage, closer,
                     adaptCloseCalled>>
  BY NotOver DEF LoopTurns, noBody, goesOn, TickBegins, ProcessAsync, central, clientVars, waitsOn
<1>2. Line' /\ StoppedFirst' /\ ClientTypes' /\ draining = <<>>
  BY <1>1, SameLine DEF ClientInv, ClientTypes, StoppedFirst, isScanOp, isDone
<1>3. Situation'
  BY <1>1 DEF ClientInv, Situation, Starts, Scans, ScanAsked, ScanGoesOn, GattlibAsked,
     ReportDue, Settled, CalledBack, scanOpsOnly, isScanOp, nothingDue, onlyDue, allDone,
     isPending, isRunning, isDone, front
<1>4. CloserInTurn'
  <2> SUFFICES ASSUME stage = "waiting" PROVE CloserInTurn'
    BY <1>1 DEF CloserInTurn
  <2>1. closer \in Ids /\ outcome[closer] = <<>>
    BY <1>1 DEF ClientInv, CloserInTurn, doneCbDue, Ids
  <2>2. QED
    BY <1>1, <2>1 DEF ClientInv, CloserInTurn, last, isDone
<1>5. QED
  BY <1>1, <1>2, <1>3, <1>4 DEF ClientInv, Ending

LEMMA EventsStep == ASSUME ClientInv, TypeInv', EventsEnd PROVE ClientInv'
<1>1. /\ stage \in {"no", "waiting"} /\ called = <<>>
      /\ phase = "events" /\ phase' = "reports" /\ draining = <<>>
      /\ draining' = reportQueue /\ reportQueue' = <<>>
      /\ UNCHANGED <<connection, is_scanning, asyncActions,
                     gattlib, nextId, outcome, program, doContinue, role, called, stage, closer,
                     adaptCloseCalled, adapter_is_open>>
  BY NotOver DEF ClientInv, EventsEnd, noBody, TakeReports, central, clientVars, shutdownOnly
<1>2. Line' /\ StoppedFirst' /\ ClientTypes'
  BY <1>1, SameLine DEF ClientInv, ClientTypes, StoppedFirst, isScanOp, isDone
<1>3. /\ nothingDue => nothingDue'
      /\ \A r : onlyDue(r) => onlyDue(r)' /\ draining' # <<>>
  BY <1>1 DEF nothingDue, onlyDue
<1>4. Situation'
  <2>1. CASE Starts
    <3>1. CASE nothingDue
      BY <1>1, <1>3, <2>1, <3>1 DEF Starts, Situation
    <3>2. CASE onlyDue([op |-> "user", id |-> 0])
      BY <1>1, <1>3, <2>1, <3>2 DEF Starts, Situation
    <3>3. QED
      BY <2>1, <3>1, <3>2 DEF Starts
  <2>2. CASE ReportDue
    <3>1. front' = front
      BY <1>1 DEF front
    <3>2. CASE \E step \in ConnectSteps : onlyDue([op |-> step, id |-> 0])
      <4>1. isRunning(front) /\ front.op = "connect"
        BY <2>2, <3>2 DEF ReportDue, onlyDue, ConnectSteps
      <4>2. QED
        BY <1>1, <1>3, <2>2, <3>1, <3>2, <4>1 DEF ReportDue, Situation, isRunning
    <3>3. CASE onlyDue([op |-> "data", id |-> front.id])
      <4>1. Len(asyncActions) = 1 /\ isDone(front) /\ front.op = "read"
        BY <2>2, <3>3 DEF ReportDue, onlyDue, ConnectSteps
      <4>2. QED
        BY <1>1, <1>3, <2>2, <3>1, <3>3, <4>1 DEF ReportDue, Situation, isDone
    <3>4. QED
      BY <2>2, <3>2, <3>3 DEF ReportDue
  <2>3. CASE Scans \/ GattlibAsked \/ Settled
    BY <1>1, <1>3, <2>3 DEF Situation, Scans, ScanAsked, ScanGoesOn, GattlibAsked,
       Settled, CalledBack, scanOpsOnly, isScanOp, allDone, isPending, isRunning, isDone, front
  <2>4. QED
    BY <1>1, <2>1, <2>2, <2>3 DEF ClientInv, Situation
<1>5. CloserInTurn'
  BY <1>1, <1>3 DEF ClientInv, CloserInTurn, last, isDone, front
<1>6. Ending'
  BY <1>1, <1>3 DEF ClientInv, Ending, isRunning, isDone, front, allDone
<1>7. QED
  BY <1>1, <1>2, <1>4, <1>5, <1>6 DEF ClientInv

\* The report of enable(): the program asks for its first operation next.
LEMMA EnableStep == ASSUME ClientInv, TypeInv', EnableReported PROVE ClientInv'
<1>1. /\ stage \in {"no", "waiting"} /\ called = <<>> /\ draining # <<>>
      /\ Head(draining).op = "user" /\ draining' = Tail(draining)
      /\ called' \in {<<"enable", "ok">>, <<"enable", "fail">>}
      /\ UNCHANGED <<phase, connection, is_scanning, asyncActions, reportQueue, gattlib,
                     nextId, outcome, program, doContinue, role, stage, closer>>
  BY NotOver DEF EnableReported, noBody, UserStep, runs, central, shutdownOnly
<1>2. Starts /\ reportQueue = <<>> /\ draining' = <<>>
  <2>1. ~nothingDue /\ draining # <<>>
    BY <1>1 DEF nothingDue
  <2>2. \A r : onlyDue(r) => draining = <<r>> /\ reportQueue = <<>>
    BY <1>1 DEF onlyDue
  <2>3. \A r : draining = <<r>> => r.op = "user" /\ draining' = <<>>
    BY <1>1
  <2>4. ~ReportDue
    <3>1. \A step \in ConnectSteps : [op |-> step, id |-> 0].op # "user"
      BY DEF ConnectSteps
    <3>2. [op |-> "data", id |-> front.id].op # "user"
      OBVIOUS
    <3>3. QED
      BY <2>2, <2>3, <3>1, <3>2 DEF ReportDue
  <2>5. Starts
    BY <1>1, <2>1, <2>4 DEF ClientInv, Situation, Scans, GattlibAsked, Settled
  <2>6. QED
    BY <2>1, <2>2, <2>3, <2>5 DEF Starts
<1>3. Starts'
  BY <1>1, <1>2 DEF Starts, nothingDue
<1>4. Line' /\ StoppedFirst' /\ ClientTypes'
  BY <1>1, SameLine DEF ClientInv, ClientTypes, StoppedFirst, isScanOp, isDone
<1>5. QED
  BY <1>1, <1>2, <1>3, <1>4 DEF ClientInv, Starts, Situation, Ending, CloserInTurn

\* Whose report is run: the one that is due for the first action.
LEMMA WhoIsReported ==
  ASSUME ClientInv, stage \in {"no", "waiting"}, NEW op \in ConnectSteps \cup {"data"}, runs(op)
  PROVE  /\ ReportDue /\ reportQueue = <<>> /\ draining' = <<>> /\ ~nothingDue
         /\ IF op = "data"
              THEN /\ draining = <<[op |-> "data", id |-> front.id]>>
                   /\ Len(asyncActions) = 1 /\ isDone(front) /\ front.op = "read"
              ELSE /\ isRunning(front) /\ front.op = "connect"
<1>1. draining # <<>> /\ Head(draining).op = op /\ draining' = Tail(draining)
  BY DEF runs
<1>2. \A r : onlyDue(r) => draining = <<r>> /\ reportQueue = <<>>
  BY <1>1 DEF onlyDue
<1>3. \A r : draining = <<r>> => r.op = op /\ draining' = <<>>
  BY <1>1
<1>4. ~nothingDue
  BY <1>1 DEF nothingDue
<1>5. op # "user"
  BY DEF ConnectSteps
<1>6. ReportDue
  <2>1. ~Starts
    <3>1. [op |-> "user", id |-> 0].op = "user"
      OBVIOUS
    <3>2. QED
      BY <1>2, <1>3, <1>4, <1>5, <3>1 DEF Starts
  <2>2. QED
    BY <1>4, <2>1 DEF ClientInv, Situation, Scans, GattlibAsked, Settled
<1>7. CASE \E step \in ConnectSteps : onlyDue([op |-> step, id |-> 0])
  <2> PICK step \in ConnectSteps : onlyDue([op |-> step, id |-> 0])
    BY <1>7
  <2>1. draining = <<[op |-> step, id |-> 0]>> /\ reportQueue = <<>> /\ draining' = <<>>
    BY <1>2, <1>3
  <2>2. step = op
    BY <1>3, <2>1
  <2>3. op # "data" /\ draining # <<[op |-> "data", id |-> front.id]>>
    BY <2>1, <2>2 DEF ConnectSteps
  <2>4. isRunning(front) /\ front.op = "connect"
    BY <1>2, <1>6, <2>3 DEF ReportDue
  <2>5. QED
    BY <1>4, <1>6, <2>1, <2>3, <2>4
<1>8. CASE ~\E step \in ConnectSteps : onlyDue([op |-> step, id |-> 0])
  <2>1. /\ onlyDue([op |-> "data", id |-> front.id])
        /\ Len(asyncActions) = 1 /\ isDone(front) /\ front.op = "read"
    BY <1>6, <1>8 DEF ReportDue
  <2>2. draining = <<[op |-> "data", id |-> front.id]>> /\ reportQueue = <<>> /\ draining' = <<>>
    BY <1>2, <1>3, <2>1
  <2>3. op = "data"
    BY <1>3, <2>2
  <2>4. QED
    BY <1>4, <1>6, <2>1, <2>2, <2>3
<1>9. QED
  BY <1>7, <1>8

\* The first two steps of the discovery push the next one.
LEMMA DiscoverSteps ==
  ASSUME ClientInv, TypeInv', noBody, DiscoverServicesStep \/ DiscoverCharacteristicsStep,
         callsBack, UNCHANGED shutdownOnly
  PROVE  ClientInv'
<1>1. /\ stage \in {"no", "waiting"} /\ called' = <<>>
      /\ UNCHANGED <<connection, phase, asyncActions, gattlib, nextId, outcome, program,
                     doContinue, role, stage, closer, adaptCloseCalled>>
  BY NotOver, NoCallbackRuns DEF noBody, DiscoverServicesStep, DiscoverCharacteristicsStep, runs,
     central, callsBack, shutdownOnly
<1> PICK op \in {"discoverServices", "discoverCharacteristics"},
         next \in {"discoverCharacteristics", "connected"} : runs(op) /\ pushReport(next, 0)
  BY DEF DiscoverServicesStep, DiscoverCharacteristicsStep
<1>2. /\ ReportDue /\ reportQueue = <<>> /\ draining' = <<>> /\ ~nothingDue
      /\ isRunning(front) /\ front.op = "connect"
  BY <1>1, WhoIsReported DEF ConnectSteps
<1>3. reportQueue' = <<[op |-> next, id |-> 0]>> /\ front' = front /\ next \in ConnectSteps
  BY <1>1, <1>2 DEF pushReport, front, ConnectSteps
<1>4. ReportDue'
  BY <1>1, <1>2, <1>3 DEF ReportDue, onlyDue, isRunning
<1>5. StoppedFirst'
  BY <1>1 DEF ClientInv, StoppedFirst, isScanOp, isDone
<1>6. QED
  BY <1>1, <1>2, <1>4, <1>5, UnderWay DEF Situation

\* The last one reports the connection.
LEMMA ConnectedIsReported ==
  ASSUME ClientInv, TypeInv', noBody, ConnectedStep, callsBack, UNCHANGED shutdownOnly
  PROVE  ClientInv'
<1>1. /\ stage \in {"no", "waiting"} /\ TypeOK /\ Line /\ StoppedFirst /\ phase = "reports"
      /\ runs("connected") /\ currentOp("ok")
      /\ UNCHANGED <<connection, phase, reportQueue, gattlib, nextId, stage, closer,
                     adaptCloseCalled>>
  BY NotOver DEF ClientInv, TypeInv, noBody, ConnectedStep, runs, central, shutdownOnly
<1>2. /\ ReportDue /\ reportQueue = <<>> /\ draining' = <<>> /\ ~nothingDue
      /\ isRunning(front) /\ front.op = "connect" /\ asyncActions # <<>> /\ gattlib = {}
  BY <1>1, WhoIsReported DEF ConnectSteps, ReportDue
<1>3. completedWith("ok") /\ asyncActions' = withState("Completed") /\ nothingDue'
  BY <1>1, <1>2 DEF currentOp, completedWith, nothingDue
<1>4. ~isScanOp(front) /\ front.op # "read" /\ ~isDone(front) /\ ~Scans
  BY <1>2 DEF isScanOp, Stops, isDone, isRunning, Scans
<1>5. StoppedFirst'
  BY <1>1, <1>2, <1>3, <1>4, StillStoppedFirst
<1>6. QED
  BY <1>1, <1>2, <1>3, <1>4, <1>5, Concluded

\* The value read is handed over.
LEMMA DataIsReported ==
  ASSUME ClientInv, TypeInv', noBody, DataStep, callsBack, UNCHANGED shutdownOnly
  PROVE  ClientInv'
<1>1. /\ stage \in {"no", "waiting"} /\ TypeOK /\ Line /\ StoppedFirst /\ ClientTypes
      /\ runs("data") /\ reportTo(Head(draining).id, "ok")
      /\ UNCHANGED <<connection, phase, asyncActions, reportQueue, gattlib, nextId, program,
                     doContinue, role, stage, closer, adaptCloseCalled>>
  BY NotOver DEF ClientInv, TypeInv, noBody, DataStep, runs, central, callsBack, shutdownOnly
<1>2. /\ ReportDue /\ reportQueue = <<>> /\ draining' = <<>> /\ ~nothingDue
      /\ draining = <<[op |-> "data", id |-> front.id]>> /\ gattlib = {} /\ asyncActions # <<>>
      /\ Len(asyncActions) = 1 /\ isDone(front) /\ front.op = "read"
  BY <1>1, WhoIsReported DEF ReportDue
<1>3. /\ 1 \in DOMAIN asyncActions /\ front = asyncActions[1] /\ front \in Actions
      /\ front.id \in Ids /\ last = front /\ \A k \in DOMAIN asyncActions : k = 1
  BY <1>1, <1>2, FrontLemma DEF TypeOK, front, Actions, last
<1>4. front.id < nextId /\ role[front.id] = "use" /\ front.id # closer
  BY <1>1, <1>2, <1>3 DEF Line, Numbered, Fits, Stops
<1>5. reportTo(front.id, "ok")
  BY <1>1, <1>2
<1>6. called' = <<"use", "ok">>
  BY <1>1, <1>3, <1>4, <1>5, CallbackRuns
<1>7. Line'
  <2>1. \A i \in Ids : i # front.id => outcome'[i] = outcome[i]
    BY <1>1, <1>5 DEF reportTo, TypeOK
  <2>2. \A i \in Ids : i >= nextId => i # front.id
    BY <1>1, <1>3, <1>4, BLECentralAssumption DEF Ids, TypeOK
  <2>3. Numbered'
    BY <1>1, <2>1, <2>2 DEF Line, Numbered, Fits
  <2>4. InLine'
    BY <1>1 DEF Line, InLine, isScanOp, isPending, isDone
  <2>5. QED
    BY <2>3, <2>4 DEF Line
<1>8. front' = front /\ isDone(front')
  BY <1>1, <1>2 DEF front, isDone
<1>9. Settled'
  <2>1. allDone'
    BY <1>1, <1>2, <1>3 DEF allDone, isDone
  <2>2. CalledBack'
    <3>1. \E r \in Roles \ {"none"}, result \in {"ok", "fail"} : called' = <<r, result>>
      BY <1>6 DEF Roles
    <3>2. called'[1] = role'[front'.id] /\ called'[1] # "scan"
      BY <1>1, <1>4, <1>6, <1>8
    <3>3. QED
      BY <1>1, <1>2, <1>8, <2>1, <3>1, <3>2 DEF CalledBack
  <2>3. QED
    BY <1>1, <1>2, <1>8, <2>2 DEF Settled, nothingDue
<1>10. stage # "waiting"
  BY <1>2, <1>3, <1>4 DEF ClientInv, CloserInTurn
<1>11. stage = "no" => doContinue /\ closer = 0
  BY <1>2 DEF ClientInv, Ending
<1>12. StoppedFirst' /\ ClientTypes'
  BY <1>1 DEF StoppedFirst, isScanOp, isDone, ClientTypes
<1>13. QED
  BY <1>1, <1>2, <1>7, <1>9, <1>10, <1>11, <1>12
     DEF ClientInv, Situation, Ending, CloserInTurn

LEMMA ReportStep == ASSUME ClientInv, TypeInv', OtherReport PROVE ClientInv'
BY DiscoverSteps, ConnectedIsReported, DataIsReported DEF OtherReport

-----------------------------------------------------------------------------
(* The turn of the first action                                            *)

\* The first action while it waits for its turn: the scan itself, a stop of
\* the scan that goes on, or anything when nothing is under way.
LEMMA WhoseTurn ==
  ASSUME ClientInv, stage \in {"no", "waiting"}, asyncActions # <<>>, isPending(front)
  PROVE  /\ stage = "no" => phase = "app" \/ doContinue
         /\ nothingDue /\ ~isDone(front)
         /\ \/ Scans /\ ScanAsked
            \/ Scans /\ ScanGoesOn /\ front.op = "stopScan"
            \/ Settled /\ gattlib = {} /\ front.op # "scan"
<1>1. TypeOK /\ Situation /\ ~isDone(front) /\ ~isRunning(front)
  BY DEF ClientInv, TypeInv, isPending, isDone, isRunning
<1>2. 1 \in DOMAIN asyncActions /\ front = asyncActions[1]
  BY <1>1, FrontLemma DEF TypeOK, front
<1>3. stage = "no" => phase = "app" \/ doContinue
  BY <1>1 DEF ClientInv, Ending
<1>4. CASE Scans
  <2>1. front.op \in {"scan"} \cup Stops
    BY <1>2, <1>4 DEF Scans, scanOpsOnly, isScanOp
  <2>2. ScanGoesOn => front.op = "stopScan"
    BY <1>2, <2>1 DEF ScanGoesOn, Stops
  <2>3. QED
    BY <1>1, <1>3, <1>4, <2>2 DEF Scans
<1>5. CASE Settled
  BY <1>1, <1>3, <1>5 DEF Settled
<1>6. QED
  BY <1>1, <1>4, <1>5 DEF Situation, Starts, GattlibAsked, ReportDue

LEMMA TurnAccepted ==
  ASSUME ClientInv, TypeInv', stage \in {"no", "waiting"}, TriggerAccepted, callsBack,
         UNCHANGED <<stage, closer, adaptCloseCalled>>
  PROVE  ClientInv'
<1>1. /\ TypeOK /\ Line /\ StoppedFirst /\ phase = "reports"
      /\ asyncActions # <<>> /\ isPending(front) /\ front.op # "stopScanDone"
      /\ asyncActions' = withState("Triggered") /\ gattlib' = acceptedCalls
      /\ called' = <<>>
      /\ UNCHANGED <<connection, is_scanning, reportQueue, draining, nextId, outcome, program,
                     doContinue, role>>
  BY NoCallbackRuns DEF ClientInv, TypeInv, TriggerAccepted, returns, callsBack
<1>2. /\ nothingDue /\ ~isDone(front)
      /\ \/ Scans /\ ScanAsked
         \/ Scans /\ ScanGoesOn /\ front.op = "stopScan"
         \/ Settled /\ gattlib = {} /\ front.op # "scan"
  BY <1>1, WhoseTurn
<1>3. /\ Line' /\ asyncActions' # <<>> /\ Len(asyncActions') = Len(asyncActions)
      /\ front'.id = front.id /\ front'.op = front.op /\ front'.dev = front.dev
      /\ front'.state = "Triggered"
      /\ \A k \in DOMAIN asyncActions : k > 1 => asyncActions'[k] = asyncActions[k]
  BY <1>1, <1>2, MarkedLine
<1>4. /\ DOMAIN asyncActions' = DOMAIN asyncActions /\ front' = asyncActions'[1]
      /\ front = asyncActions[1] /\ front \in Actions /\ Len(asyncActions) \in Nat \ {0}
      /\ DOMAIN asyncActions = 1..Len(asyncActions)
      /\ \A k \in DOMAIN asyncActions : k = 1 \/ k > 1
  BY <1>1, <1>3, FrontLemma DEF TypeInv, TypeOK, front
<1>5. isRunning(front') /\ ~isDone(front')
  BY <1>3 DEF isRunning, isDone
<1>6. ASSUME Scans, ScanAsked PROVE Situation'
  <2>1. gattlib' = {[id |-> front.id, op |-> "scan", dev |-> None]} /\ front.id \in Ids
    BY <1>1, <1>4, <1>6 DEF ScanAsked, acceptedCalls, Actions
  <2>2. \A k \in DOMAIN asyncActions' : asyncActions'[k].op = "scan" /\ ~isPending(asyncActions'[k])
    <3>1. \A k \in DOMAIN asyncActions : k = 1
      BY <1>4, <1>6 DEF ScanAsked
    <3>2. front'.op = "scan" /\ ~isPending(front')
      BY <1>3, <1>6 DEF ScanAsked, isPending
    <3>3. QED
      BY <1>4, <3>1, <3>2 DEF isPending
  <2>3. ScanGoesOn'
    BY <1>1, <2>1, <2>2 DEF ScanGoesOn, isPending, isRunning
  <2>4. QED
    BY <1>1, <1>2, <1>6, <2>2, <2>3 DEF Scans, Situation, scanOpsOnly, isScanOp, nothingDue
<1>7. ASSUME Scans, ScanGoesOn, front.op = "stopScan" PROVE Situation'
  <2>1. gattlib' = {[id |-> front.id, op |-> front.op, dev |-> front.dev]}
    BY <1>1, <1>7 DEF ScanGoesOn, acceptedCalls, ScanOps
  <2>2. GattlibAsked'
    BY <1>1, <1>2, <1>3, <1>5, <1>7, <2>1 DEF GattlibAsked, nothingDue
  <2>3. QED
    BY <2>2 DEF Situation
<1>8. ASSUME Settled, gattlib = {}, front.op # "scan" PROVE Situation'
  <2>1. gattlib' = {[id |-> front.id, op |-> front.op, dev |-> front.dev]}
    BY <1>1, <1>8 DEF acceptedCalls
  <2>2. GattlibAsked'
    BY <1>1, <1>2, <1>3, <1>5, <1>8, <2>1 DEF GattlibAsked, nothingDue
  <2>3. QED
    BY <2>2 DEF Situation
<1>9. Situation'
  BY <1>2, <1>6, <1>7, <1>8
<1>10. StoppedFirst'
  <2>1. connection[Target] # None => ~isScanOp(front)
    BY <1>2, <1>4 DEF ClientInv, StoppedFirst
  <2>2. connection[Target] # None => \A k \in DOMAIN asyncActions : ~isScanOp(asyncActions[k])
    BY <1>1, <2>1, NoScanAfter
  <2>3. \A k \in DOMAIN asyncActions : asyncActions'[k].op = asyncActions[k].op
    BY <1>3, <1>4
  <2>4. QED
    BY <1>1, <1>4, <2>2, <2>3 DEF StoppedFirst, isScanOp
<1>11. CloserInTurn'
  <2> SUFFICES ASSUME stage = "waiting" PROVE CloserInTurn'
    BY DEF CloserInTurn
  <2>1. /\ closer \in Ids /\ ~doContinue /\ outcome[closer] = <<>> /\ ~adaptCloseCalled
        /\ last.id = closer /\ ~isDone(last)
        /\ \A k \in DOMAIN asyncActions : k < Len(asyncActions) =>
             isDone(asyncActions[k]) \/ (asyncActions[k].op = "connect" /\ program = "ble_scan")
    BY <1>1, <1>2 DEF ClientInv, CloserInTurn
  <2>2. last'.id = closer /\ ~isDone(last')
    <3>1. CASE Len(asyncActions) = 1
      BY <1>3, <1>4, <1>5, <2>1, <3>1 DEF last
    <3>2. CASE Len(asyncActions) > 1
      <4>1. last' = last
        BY <1>3, <1>4, <3>2 DEF last
      <4>2. QED
        BY <2>1, <4>1 DEF isDone
    <3>3. QED
      BY <1>4, <3>1, <3>2
  <2>3. \A k \in DOMAIN asyncActions' : k < Len(asyncActions') =>
          isDone(asyncActions'[k]) \/ (asyncActions'[k].op = "connect" /\ program = "ble_scan")
    <3>1. 1 < Len(asyncActions) => front'.op = "connect" /\ program = "ble_scan"
      BY <1>2, <1>3, <1>4, <2>1
    <3>2. QED
      BY <1>3, <1>4, <2>1, <3>1 DEF isDone
  <2>4. QED
    BY <1>1, <1>3, <2>1, <2>2, <2>3 DEF CloserInTurn, isDone
<1>12. (stage = "no" => doContinue) /\ (stage = "no" => closer = 0)
  BY <1>1, <1>2 DEF ClientInv, Ending
<1>13. Ending' /\ draining' = <<>>
  BY <1>1, <1>2, <1>12 DEF Ending, nothingDue
<1>14. QED
  BY <1>1, <1>3, <1>9, <1>10, <1>11, <1>12, <1>13 DEF ClientInv, ClientTypes

\* A stop is refused while the scan it was asked for goes on.
LEMMA StopRefused ==
  ASSUME ClientInv, TypeInv', stage \in {"no", "waiting"}, TriggerRefused, callsBack,
         Scans, ScanGoesOn, front.op = "stopScan", UNCHANGED <<stage, closer>>
  PROVE  ClientInv'
<1>1. /\ TypeOK /\ Line /\ StoppedFirst /\ ClientTypes /\ phase = "reports"
      /\ asyncActions # <<>> /\ asyncActions' = withState("Completed")
      /\ reportTo(front.id, "fail") /\ is_scanning' /\ front.op # "read"
      /\ UNCHANGED <<connection, reportQueue, draining, gattlib, nextId, program, doContinue,
                     role>>
  BY DEF ClientInv, TypeInv, TriggerRefused, returns, completedWith, callsBack, Scans, ScanOps
<1>2. /\ 1 \in DOMAIN asyncActions /\ front = asyncActions[1] /\ front \in Actions
      /\ front.id \in Ids
  BY <1>1, FrontLemma DEF TypeOK, front, Actions
<1>3. front.id < nextId /\ role[front.id] \in {"stop", "stopToConnect"}
  BY <1>2 DEF ClientInv, Line, Numbered, Fits, Stops
<1>4. called' = <<role[front.id], "fail">> /\ called' \in {<<"stop", "fail">>, <<"stopToConnect", "fail">>}
  BY <1>1, <1>2, <1>3, CallbackRuns
<1>5. \A i \in Ids : i >= nextId => outcome'[i] = outcome[i]
  BY <1>1, <1>2, <1>3, BLECentralAssumption DEF reportTo, Ids, TypeOK
<1>6. /\ Line' /\ asyncActions' # <<>> /\ Len(asyncActions') = Len(asyncActions)
      /\ front'.op = front.op /\ front'.state = "Completed"
      /\ \A k \in DOMAIN asyncActions : k > 1 => asyncActions'[k] = asyncActions[k]
  BY <1>1, <1>5, MarkedLine
<1>7. /\ DOMAIN asyncActions' = DOMAIN asyncActions /\ front' = asyncActions'[1]
      /\ \A k \in DOMAIN asyncActions : k = 1 \/ k > 1
  BY <1>1, <1>6 DEF TypeInv, TypeOK, front
<1>8. isDone(front') /\ ~isRunning(front') /\ ~isPending(front')
  BY <1>6 DEF isDone, isRunning, isPending
<1>9. ScanGoesOn' /\ scanOpsOnly'
  <2>1. \A k \in DOMAIN asyncActions' :
          /\ asyncActions'[k].op = asyncActions[k].op
          /\ asyncActions'[k] = asyncActions[k] \/ (~isRunning(asyncActions'[k]) /\ asyncActions'[k].op = "stopScan")
    BY <1>2, <1>6, <1>7, <1>8 DEF isRunning
  <2>2. QED
    BY <1>1, <1>4, <1>7, <2>1 DEF Scans, ScanGoesOn, scanOpsOnly, isScanOp, isPending, isRunning
<1>10. Scans'
  BY <1>1, <1>9 DEF Scans, nothingDue
<1>11. StoppedFirst'
  BY <1>1, StillStoppedFirst
<1>12. QED
  BY <1>1, <1>6, <1>10, <1>11
     DEF ClientInv, ClientTypes, Situation, Scans, Ending, CloserInTurn, nothingDue

LEMMA TurnRefused ==
  ASSUME ClientInv, TypeInv', stage \in {"no", "waiting"}, TriggerRefused \/ TriggerStopScanDone,
         callsBack, UNCHANGED <<stage, closer, adaptCloseCalled>>
  PROVE  ClientInv'
<1> PICK result \in {"ok", "fail"} :
      /\ completedWith(result)
      /\ result = "fail" => TriggerRefused
      /\ result = "ok" => front.op = "stopScanDone"
  BY DEF TriggerRefused, TriggerStopScanDone
<1>1. /\ TypeOK /\ Line /\ StoppedFirst /\ phase # "app"
      /\ asyncActions # <<>> /\ isPending(front) /\ asyncActions' = withState("Completed")
      /\ UNCHANGED <<connection, reportQueue, draining, gattlib, nextId>>
  BY DEF ClientInv, TypeInv, TriggerRefused, TriggerStopScanDone, returns, completedWith
<1>2. /\ nothingDue /\ ~isDone(front)
      /\ \/ Scans /\ ScanAsked
         \/ Scans /\ ScanGoesOn /\ front.op = "stopScan"
         \/ Settled /\ gattlib = {} /\ front.op # "scan"
  BY <1>1, WhoseTurn
<1>3. CASE Scans /\ ScanGoesOn /\ front.op = "stopScan"
  BY <1>3, StopRefused
<1>4. CASE gattlib = {}
  <2>1. gattlib' = {} /\ nothingDue'
    BY <1>1, <1>2, <1>4 DEF nothingDue
  <2>2. StoppedFirst'
    BY <1>1, StillStoppedFirst
  <2>3. Scans => connection'[Target] = None
    BY <1>1 DEF Scans
  <2>4. QED
    BY <1>1, <1>2, <2>1, <2>2, <2>3, Concluded
<1>5. QED
  BY <1>2, <1>3, <1>4 DEF ScanAsked

LEMMA TurnPops ==
  ASSUME ClientInv, TypeInv', stage \in {"no", "waiting"}, called = <<>>, PopDone, callsBack,
         UNCHANGED <<stage, closer, adaptCloseCalled>>,
         adaptCloseCalled => UNCHANGED adapter_is_open
  PROVE  ClientInv'
<1>1. /\ TypeOK /\ Line /\ StoppedFirst /\ Situation /\ phase = "reports" /\ draining = <<>>
      /\ asyncActions # <<>> /\ isDone(front) /\ asyncActions' = Tail(asyncActions)
      /\ called' = <<>> /\ phase' = "app"
      /\ UNCHANGED <<connection, is_scanning, reportQueue, draining, gattlib, nextId, outcome,
                     program, doContinue, role>>
  BY NoCallbackRuns DEF ClientInv, TypeInv, PopDone, returns, callsBack
<1>2. /\ Line' /\ Len(asyncActions') = Len(asyncActions) - 1
      /\ \A k \in DOMAIN asyncActions' :
           /\ k + 1 \in DOMAIN asyncActions /\ asyncActions'[k] = asyncActions[k + 1]
           /\ k + 1 > 1
  BY <1>1, PoppedLine
<1>3. /\ front = asyncActions[1] /\ Len(asyncActions) \in Nat \ {0}
      /\ DOMAIN asyncActions' = 1..(Len(asyncActions) - 1) /\ front' = asyncActions'[1]
      /\ asyncActions' # <<>> <=> Len(asyncActions) > 1
      /\ asyncActions' # <<>> => 1 \in DOMAIN asyncActions'
  <2> PICK q : q = asyncActions'
    OBVIOUS
  <2>1. asyncActions \in Seq(Actions) /\ q = Tail(asyncActions)
    BY <1>1 DEF TypeOK
  <2>2. /\ Len(asyncActions) \in Nat \ {0} /\ q \in Seq(Actions)
        /\ Len(q) = Len(asyncActions) - 1
    BY <1>1, <2>1
  <2>3. DOMAIN q = 1..(Len(asyncActions) - 1)
    BY <2>2
  <2>4. (q # <<>> => Len(q) # 0) /\ (Len(asyncActions) > 1 => q # <<>>)
    <3>1. \A s \in Seq(Actions) : s # <<>> <=> Len(s) # 0
      OBVIOUS
    <3>2. q # <<>> <=> Len(q) # 0
      BY <2>2, <3>1
    <3>3. \A n \in Nat \ {0} : n - 1 # 0 <=> n > 1
      OBVIOUS
    <3>4. QED
      BY <2>2, <3>2, <3>3
  <2>5. q # <<>> => Len(asyncActions) > 1 /\ 1 \in DOMAIN q
    BY <2>2, <2>3, <2>4
  <2>6. QED
    BY <1>1, <2>2, <2>3, <2>4, <2>5 DEF front
<1>4. \A k \in DOMAIN asyncActions' : isPending(asyncActions'[k]) /\ asyncActions'[k].op # "scan"
  BY <1>2 DEF ClientInv, Line, InLine, isPending
<1>5. asyncActions' # <<>> => isPending(front') /\ ~isRunning(front') /\ front'.op # "scan"
  BY <1>3, <1>4 DEF isPending, isRunning
<1>6. ASSUME Scans PROVE Situation'
  <2>1. ScanGoesOn
    BY <1>1, <1>6 DEF Scans, ScanAsked, isPending, isDone
  <2>2. scanOpsOnly'
    BY <1>2, <1>6 DEF Scans, scanOpsOnly, isScanOp
  <2>3. ScanGoesOn'
    BY <1>1, <1>2, <2>1 DEF ScanGoesOn, isPending, isRunning
  <2>4. QED
    BY <1>1, <1>6, <2>2, <2>3 DEF Scans, Situation, nothingDue
<1>7. ASSUME Settled PROVE Situation'
  BY <1>1, <1>5, <1>7 DEF Settled, Situation, nothingDue
<1>8. ~GattlibAsked
  BY <1>1 DEF GattlibAsked, isRunning, isDone
<1>9. ~ReportDue
  BY <1>1 DEF ReportDue, isRunning, isDone
<1>10. Situation'
  BY <1>1, <1>6, <1>7, <1>8, <1>9 DEF Situation, Starts
<1>11. StoppedFirst'
  BY <1>1, <1>2 DEF StoppedFirst, isScanOp, isDone
<1>12. Ending'
  BY <1>1, <1>2, <1>5 DEF ClientInv, Ending, nothingDue, allDone, isDone
<1>13. CloserInTurn'
  <2> SUFFICES ASSUME stage = "waiting" PROVE CloserInTurn'
    BY DEF CloserInTurn
  <2>1. CASE outcome[closer] = <<>>
    <3>1. /\ last.id = closer /\ ~isDone(last) /\ ~adaptCloseCalled /\ ~doContinue /\ closer \in Ids
          /\ \A k \in DOMAIN asyncActions : k < Len(asyncActions) =>
               isDone(asyncActions[k]) \/ (asyncActions[k].op = "connect" /\ program = "ble_scan")
      BY <2>1 DEF ClientInv, CloserInTurn
    <3>2. Len(asyncActions) > 1
      BY <1>1, <1>3, <3>1 DEF last
    <3>3. last' = last
      BY <1>2, <1>3, <3>2 DEF last
    <3>4. \A k \in DOMAIN asyncActions' : k < Len(asyncActions') =>
            isDone(asyncActions'[k]) \/ (asyncActions'[k].op = "connect" /\ program = "ble_scan")
      <4>1. \A k \in DOMAIN asyncActions' : k < Len(asyncActions') => k + 1 < Len(asyncActions)
        BY <1>2, <1>3
      <4>2. QED
        BY <1>2, <3>1, <4>1 DEF isDone
    <3>5. QED
      BY <1>1, <1>3, <2>1, <3>1, <3>2, <3>3, <3>4 DEF CloserInTurn, isDone
  <2>2. CASE outcome[closer] # <<>>
    <3>1. Len(asyncActions) = 1 /\ gattlib = {} /\ nothingDue /\ ~doContinue /\ closer \in Ids
          /\ (adaptCloseCalled => ~adapter_is_open)
      BY <1>1, <2>2 DEF ClientInv, CloserInTurn
    <3>2. asyncActions' = <<>>
      BY <1>3, <3>1
    <3>3. QED
      BY <1>1, <2>2, <3>1, <3>2 DEF CloserInTurn, nothingDue
  <2>3. QED
    BY <2>1, <2>2
<1>14. QED
  BY <1>1, <1>2, <1>10, <1>11, <1>12, <1>13 DEF ClientInv, ClientTypes

LEMMA NoTurn ==
  ASSUME ClientInv, TypeInv', stage \in {"no", "waiting"}, called = <<>>, NothingToDo, callsBack,
         UNCHANGED <<stage, closer, adaptCloseCalled>>
  PROVE  ClientInv'
<1>1. /\ TypeOK /\ Line /\ StoppedFirst /\ Situation /\ phase = "reports" /\ draining = <<>>
      /\ asyncActions # <<>> => isRunning(front)
      /\ called' = <<>> /\ phase' = "app"
      /\ UNCHANGED <<connection, is_scanning, asyncActions, reportQueue, draining, gattlib,
                     nextId, outcome, program, doContinue, role, called>>
  BY NoCallbackRuns DEF ClientInv, TypeInv, NothingToDo, returns, callsBack
<1>2. front' = front /\ last' = last /\ (asyncActions # <<>> => ~isDone(front))
  BY <1>1 DEF front, last, isRunning, isDone
<1>3. Line' /\ StoppedFirst' /\ ClientTypes'
  BY <1>1, SameLine DEF ClientInv, ClientTypes, StoppedFirst, isScanOp, isDone
<1>4. Situation'
  BY <1>1, <1>2 DEF Situation, Starts, Scans, ScanAsked, ScanGoesOn, GattlibAsked,
     ReportDue, Settled, CalledBack, scanOpsOnly, isScanOp, nothingDue, onlyDue, allDone,
     isPending, isRunning, isDone
<1>5. Ending'
  BY <1>1, <1>2 DEF ClientInv, Ending, nothingDue, allDone, isDone, isRunning
<1>6. CloserInTurn'
  <2> SUFFICES ASSUME stage = "waiting" PROVE CloserInTurn'
    BY DEF CloserInTurn
  <2>1. outcome[closer] = <<>>
    <3>1. asyncActions = <<>> \/ ~isDone(front)
      BY <1>2
    <3>2. Len(asyncActions) = 1 => asyncActions # <<>>
      OBVIOUS
    <3>3. QED
      BY <1>1, <3>1, <3>2 DEF ClientInv, CloserInTurn
  <2>2. QED
    BY <1>1, <1>2, <2>1 DEF ClientInv, CloserInTurn, isDone
<1>7. QED
  BY <1>1, <1>3, <1>4, <1>5, <1>6 DEF ClientInv

LEMMA TurnStep == ASSUME ClientInv, TypeInv', LoopEnds PROVE ClientInv'
<1>1. /\ stage \in {"no", "waiting"} /\ called = <<>> /\ FrontTurn /\ callsBack
      /\ UNCHANGED <<stage, closer, adaptCloseCalled>>
  BY NotOver DEF LoopEnds, noBody, TickEnds
<1>2. CASE PopDone
  BY <1>1, <1>2, TurnPops DEF PopDone, returns
<1>3. QED
  BY <1>1, <1>2, TurnAccepted, TurnRefused, NoTurn DEF FrontTurn

-----------------------------------------------------------------------------
(* shutdown()                                                              *)

\* main() has left its loop: nothing is under way, and nothing is to be run.
LEMMA LoopIsLeft ==
  ASSUME ClientInv, called = <<>>, stage = "no", ~doContinue
  PROVE  /\ Settled /\ gattlib = {} /\ nothingDue /\ closer = 0 /\ ~adaptCloseCalled
         /\ asyncActions # <<>> => ~isRunning(front)
         /\ program # "ble_scan" => allDone
<1>1. /\ gattlib = {} /\ nothingDue /\ closer = 0 /\ ~adaptCloseCalled /\ Situation
      /\ asyncActions # <<>> => ~isRunning(front)
      /\ program # "ble_scan" => allDone
  BY DEF ClientInv, Ending, TypeInv
<1>2. Settled
  BY <1>1 DEF Situation, Starts, Scans, GattlibAsked, ReportDue, nothingDue, onlyDue
<1>3. QED
  BY <1>1, <1>2

LEMMA ClosesAtOnce ==
  ASSUME ClientInv, TypeInv', noBody, ~doContinue, phase = "app",
         ShutdownAtOnce \/ ShutdownRefused, UNCHANGED clientVars
  PROVE  ClientInv'
<1>1. /\ called = <<>> /\ stage = "no" /\ stage' = "returned" /\ ~adapter_is_open'
      /\ UNCHANGED <<connection, asyncActions, gattlib, nextId, outcome, program, doContinue,
                     role, called, closer>>
  BY DEF noBody, ShutdownAtOnce, ShutdownRefused, MayShutdown, clientVars, central
<1>2. gattlib = {} /\ closer = 0
  BY <1>1, LoopIsLeft
<1>3. Line' /\ StoppedFirst' /\ ClientTypes'
  BY <1>1, SameLine DEF ClientInv, ClientTypes, StoppedFirst, isScanOp, isDone
<1>4. Returned'
  <2>1. phase' = "app"
    BY DEF ShutdownAtOnce, ShutdownRefused
  <2>2. QED
    BY <1>1, <1>2, <2>1 DEF Returned, exited, hasReturned, doneCbDue, NothingLeftBehind
<1>5. QED
  BY <1>1, <1>3, <1>4 DEF ClientInv, Ending, CloserInTurn

LEMMA DisconnectsFirst ==
  ASSUME ClientInv, TypeInv', noBody, ~doContinue, ShutdownDisconnects, UNCHANGED clientVars
  PROVE  ClientInv'
<1>1. /\ called = <<>> /\ stage = "no" /\ stage' = "waiting" /\ mustDisconnect
      /\ queueAsyncAction(asyncActions, "disconnect", connected_to)
      /\ closer' = nextId /\ draining' = <<>>
      /\ UNCHANGED <<connection, reportQueue, gattlib, outcome, program, doContinue, role,
                     called, adaptCloseCalled>>
  BY DEF noBody, ShutdownDisconnects, MayShutdown, clientVars
<1>2. /\ Settled /\ gattlib = {} /\ nothingDue /\ closer = 0 /\ ~adaptCloseCalled
      /\ program # "ble_scan" => allDone
  BY <1>1, LoopIsLeft
<1>3. /\ TypeInv /\ TypeOK /\ Line /\ StoppedFirst /\ ClientTypes
      /\ asyncActions \in Seq(Actions) /\ Len(asyncActions) \in Nat
      /\ connected_to \in Devices /\ "disconnect" \in QueuedOps /\ nextId \in Ids
      /\ DOMAIN asyncActions = 1..Len(asyncActions)
  <2>1. /\ TypeInv /\ TypeOK /\ Line /\ StoppedFirst /\ ClientTypes
        /\ asyncActions \in Seq(Actions) /\ Len(asyncActions) \in Nat
        /\ DOMAIN asyncActions = 1..Len(asyncActions)
    BY DEF ClientInv, TypeInv, TypeOK
  <2>2. connected_to \in Devices /\ "disconnect" \in QueuedOps /\ nextId \in Ids
    BY <2>1, DisconnectQueued
  <2>3. QED
    BY <2>1, <2>2
<1>4. role[nextId] = "none" /\ outcome[nextId] = <<>>
  BY <1>3, BLECentralAssumption DEF Line, Numbered, TypeOK
<1>5. connection[Target] # None
  BY <1>1, <1>3, ExamplesAssumption DEF mustDisconnect, isConnected
<1>6. \A k \in DOMAIN asyncActions :
        isDone(asyncActions[k]) \/ (asyncActions[k].op = "connect" /\ program = "ble_scan")
  <2> SUFFICES ASSUME NEW k \in DOMAIN asyncActions, ~isDone(asyncActions[k])
               PROVE  asyncActions[k].op = "connect" /\ program = "ble_scan"
    OBVIOUS
  <2>1. program = "ble_scan" /\ ~isScanOp(asyncActions[k])
    BY <1>2, <1>3, <1>5 DEF allDone, StoppedFirst
  <2>2. asyncActions[k].op \notin {"read", "write"}
    BY <1>3, <2>1 DEF Line, InLine
  <2>3. asyncActions[k].id \in Ids /\ asyncActions[k].id # 0
    <3>1. asyncActions[k] \in Actions
      BY <1>3
    <3>2. (\A b \in Actions : b.id \in Ids) /\ \A i \in Ids : i # 0
      BY DEF Actions, Ids
    <3>3. QED
      BY <3>1, <3>2
  <2>4. asyncActions[k].op # "disconnect"
    BY <1>2, <1>3, <2>3 DEF Line, Numbered
  <2>5. QED
    BY <1>3, <2>1, <2>2, <2>4 DEF Line, Numbered, Fits, isScanOp
<1>7. /\ Line' /\ asyncActions' # <<>>
      /\ Len(asyncActions') = Len(asyncActions) + 1
      /\ \A k \in DOMAIN asyncActions :
           k \in DOMAIN asyncActions' /\ asyncActions'[k] = asyncActions[k]
      /\ asyncActions'[Len(asyncActions) + 1] =
           [id |-> nextId, op |-> "disconnect", dev |-> connected_to, state |-> "Pending"]
  <2>1. Fits(role'[nextId], "disconnect")
    BY <1>1, <1>4 DEF Fits
  <2>2. ~isScanOp([op |-> "disconnect"]) /\ "disconnect" \notin Stops
    BY DEF isScanOp, Stops
  <2>3. QED
    BY <1>1, <1>2, <1>3, <2>1, <2>2, AddedLine
<1>8. /\ DOMAIN asyncActions' = 1..(Len(asyncActions) + 1)
      /\ last'.id = nextId /\ last'.op = "disconnect" /\ ~isDone(last')
      /\ \A k \in DOMAIN asyncActions' :
           k \in DOMAIN asyncActions \/ k = Len(asyncActions) + 1
      /\ asyncActions # <<>> => 1 \in DOMAIN asyncActions
      /\ asyncActions = <<>> => Len(asyncActions) = 0
  <2>1. asyncActions' \in Seq(Actions)
    BY DEF TypeInv, TypeOK
  <2>2. DOMAIN asyncActions' = 1..(Len(asyncActions) + 1)
    BY <1>3, <1>7, <2>1
  <2>3. last'.id = nextId /\ last'.op = "disconnect" /\ ~isDone(last')
    BY <1>7 DEF last, isDone
  <2>4. asyncActions # <<>> => 1 \in DOMAIN asyncActions
    BY <1>3, FrontLemma
  <2>5. QED
    BY <1>3, <2>2, <2>3, <2>4
<1>9. StoppedFirst'
  <2>1. asyncActions'[Len(asyncActions) + 1].op = "disconnect"
    BY <1>7
  <2>2. \A k \in DOMAIN asyncActions' : isScanOp(asyncActions'[k]) => k \in DOMAIN asyncActions
    BY <1>8, <2>1 DEF isScanOp, Stops
  <2>3. \A k \in DOMAIN asyncActions : isScanOp(asyncActions[k]) => isDone(asyncActions[k])
    BY <1>3, <1>5 DEF StoppedFirst
  <2>4. QED
    BY <1>7, <2>2, <2>3 DEF StoppedFirst
<1>10. Settled'
  <2>1. asyncActions # <<>> => front' = front
    BY <1>7, <1>8 DEF front
  <2>2. asyncActions = <<>> => front'.op = "disconnect"
    BY <1>7, <1>8 DEF front
  <2>3. front'.op = "scan" => isDone(front')
    BY <1>2, <2>1, <2>2 DEF Settled, isDone
  <2>4. QED
    BY <1>1, <1>2, <2>3 DEF Settled, nothingDue
<1>11. CloserInTurn'
  <2>1. \A k \in DOMAIN asyncActions' : k < Len(asyncActions') => k \in DOMAIN asyncActions
    BY <1>3, <1>7, <1>8
  <2>2. \A k \in DOMAIN asyncActions' : k < Len(asyncActions') =>
          isDone(asyncActions'[k]) \/ (asyncActions'[k].op = "connect" /\ program' = "ble_scan")
    BY <1>1, <1>6, <1>7, <2>1
  <2>3. outcome'[closer'] = <<>> /\ closer' \in Ids /\ last'.id = closer' /\ ~doContinue'
    BY <1>1, <1>3, <1>4, <1>8
  <2>4. QED
    BY <1>1, <1>2, <1>7, <1>8, <2>2, <2>3 DEF CloserInTurn
<1>12. QED
  BY <1>1, <1>3, <1>7, <1>9, <1>10, <1>11 DEF ClientInv, ClientTypes, Situation, Ending

LEMMA DoneCbStep ==
  ASSUME ClientInv, TypeInv', DoneCb, called = <<>>, UNCHANGED clientVars PROVE ClientInv'
<1>1. /\ doneCbDue /\ ~adapter_is_open'
      /\ phase' \in {phase, IF stage = "gaveUp" THEN "crashed" ELSE phase}
      /\ UNCHANGED <<connection, is_scanning, asyncActions, reportQueue, draining,
                     gattlib, nextId, outcome, program, doContinue, role, called, stage, closer>>
  BY DEF DoneCb, adapterCloseInDoneCb, clientVars
<1>2. stage = "waiting" /\ outcome[closer] # <<>>
  BY <1>1 DEF ClientInv, Returned, doneCbDue
<1>3. Line' /\ StoppedFirst' /\ ClientTypes'
  BY <1>1, SameLine DEF ClientInv, ClientTypes, StoppedFirst, isScanOp, isDone
<1>4. CloserInTurn'
  BY <1>1, <1>2 DEF ClientInv, CloserInTurn, nothingDue, isDone, front
<1>5. Situation'
  BY <1>1, <1>2 DEF ClientInv, Situation, Starts, Scans, GattlibAsked,
     ReportDue, Settled, CalledBack, scanOpsOnly, isScanOp, nothingDue, onlyDue, allDone,
     isPending, isRunning, isDone, front
<1>6. QED
  BY <1>1, <1>2, <1>3, <1>4, <1>5 DEF ClientInv, Ending

LEMMA ReturnStep ==
  ASSUME ClientInv, FromMain, TypeInv', ShutdownReturns, called = <<>>, UNCHANGED clientVars
  PROVE  ClientInv'
<1>1. /\ stage = "waiting" /\ stage' = (IF adaptCloseCalled THEN "returned" ELSE "gaveUp")
      /\ ~doneCbDue /\ phase' = "app"
      /\ UNCHANGED <<adapter_is_open, connection, asyncActions, gattlib, nextId, outcome,
                     program, doContinue, role, called, closer, adaptCloseCalled>>
  BY DEF ShutdownReturns, FromMain, clientVars, central
<1>2. Line' /\ StoppedFirst' /\ ClientTypes'
  BY <1>1, SameLine DEF ClientInv, ClientTypes, StoppedFirst, isScanOp, isDone
<1>3. ~doneCbDue' /\ closer # 0
  BY <1>1 DEF doneCbDue, ClientInv, CloserInTurn, Ids
<1>4. adaptCloseCalled => ~adapter_is_open /\ gattlib = {}
  BY <1>1 DEF ClientInv, CloserInTurn
<1>5. Returned'
  BY <1>1, <1>3, <1>4 DEF Returned, exited, hasReturned, NothingLeftBehind
<1>6. QED
  BY <1>1, <1>2, <1>5 DEF ClientInv, Ending, CloserInTurn

-----------------------------------------------------------------------------
(* The bodies of the callbacks                                             *)

\* Which situation a body finds.
LEMMA WhoIsCalled ==
  ASSUME ClientInv, NEW r, NEW result, runsBody(r, result)
  PROVE  /\ called # <<>> /\ called[1] = r /\ called' = <<>> /\ stage \in {"no", "waiting"}
         /\ stage = "no" => doContinue
         /\ stage = "no" \/ (stage = "waiting" /\ r = "connect" /\ program = "ble_scan")
         /\ \/ Starts /\ nothingDue /\ r \in {"main", "enable"}
            \/ Scans /\ ScanGoesOn /\ called \in {<<"found", "ok">>, <<"stop", "fail">>,
                                                  <<"stopToConnect", "fail">>}
            \/ /\ Settled /\ CalledBack /\ r \in Roles \ {"none"} /\ role[front.id] = r
               /\ Fits(r, front.op) /\ front \in Actions
<1>1. called = <<r, result>> /\ called # <<>> /\ called[1] = r /\ called' = <<>>
  BY DEF runsBody
<1>2. /\ Situation /\ TypeOK /\ Line
      /\ stage = "no" \/ (stage = "waiting" /\ r = "connect" /\ program = "ble_scan")
  BY <1>1, CallbackWhen DEF ClientInv, TypeInv
<1>3. stage \in {"no", "waiting"} /\ (stage = "no" => doContinue)
  BY <1>1, <1>2 DEF ClientInv, Ending
<1>4. CASE Starts
  <2>1. nothingDue /\ called \in {<<"main", "ok">>, <<"enable", "ok">>, <<"enable", "fail">>}
    BY <1>1, <1>4 DEF Starts
  <2>2. r \in {"main", "enable"}
    BY <1>1, <2>1
  <2>3. QED
    BY <1>1, <1>2, <1>3, <1>4, <2>1, <2>2
<1>5. CASE Scans
  BY <1>1, <1>2, <1>3, <1>5 DEF Scans, ScanAsked, ScanGoesOn
<1>6. CASE Settled
  <2>1. CalledBack
    BY <1>1, <1>6 DEF Settled
  <2>2. asyncActions # <<>> /\ role[front.id] = r /\ r \in Roles \ {"none"}
    BY <1>1, <2>1 DEF CalledBack
  <2>3. front = asyncActions[1] /\ front \in Actions /\ 1 \in DOMAIN asyncActions
    BY <1>2, <2>2, FrontLemma DEF TypeOK, front
  <2>4. Fits(r, front.op)
    BY <1>2, <2>2, <2>3 DEF Line, Numbered
  <2>5. QED
    BY <1>1, <1>2, <1>3, <1>6, <2>1, <2>2, <2>3, <2>4
<1>7. QED
  BY <1>1, <1>2, <1>4, <1>5, <1>6 DEF Situation, GattlibAsked, ReportDue

\* The loop is ended, or not even that is done.
LEMMA BodyOnly ==
  ASSUME ClientInv, TypeInv', NEW r, NEW result, runsBody(r, result),
         endsLoop \/ doesNothing, endsLoop => ~Scans
  PROVE  ClientInv'
<1>1. /\ called' = <<>> /\ stage \in {"no", "waiting"} /\ called # <<>>
      /\ \/ Starts /\ nothingDue
         \/ Scans /\ ScanGoesOn
         \/ Settled /\ CalledBack
      /\ doContinue' \in {doContinue, FALSE}
      /\ Scans => doContinue'
      /\ stage = "no" => doContinue
  <2>1. Scans => doContinue
    BY DEF Scans
  <2>2. CASE endsLoop
    BY <2>2, WhoIsCalled DEF endsLoop
  <2>3. CASE doesNothing
    BY <2>1, <2>3, WhoIsCalled DEF doesNothing
  <2>4. QED
    BY <2>2, <2>3
<1>2. UNCHANGED <<phase, connection, is_scanning, asyncActions, reportQueue, draining, gattlib,
                  nextId, outcome, program, role, stage, closer, adaptCloseCalled,
                  adapter_is_open>>
  BY DEF endsLoop, doesNothing, shutdownVars, shutdownOnly, vars, central
<1>3. Line' /\ StoppedFirst' /\ ClientTypes'
  BY <1>1, <1>2, SameLine DEF ClientInv, ClientTypes, StoppedFirst, isScanOp, isDone
<1>4. front' = front
  BY <1>2 DEF front
<1>5. Situation'
  <2>1. CASE Starts /\ nothingDue
    BY <1>1, <1>2, <2>1 DEF Starts, Settled, Situation, nothingDue
  <2>2. CASE Scans /\ ScanGoesOn
    BY <1>1, <1>2, <2>2 DEF Scans, ScanGoesOn, Situation, scanOpsOnly, isScanOp, nothingDue,
       isPending, isRunning
  <2>3. CASE Settled
    BY <1>1, <1>2, <1>4, <2>3 DEF Settled, Situation, nothingDue, isDone
  <2>4. QED
    BY <1>1, <2>1, <2>2, <2>3
<1>6. Ending'
  <2>1. CASE Starts /\ nothingDue
    BY <1>1, <1>2, <2>1 DEF Starts, Ending, nothingDue, allDone
  <2>2. CASE Scans
    BY <1>1, <1>2, <2>2 DEF Ending
  <2>3. CASE Settled /\ CalledBack
    BY <1>1, <1>2, <1>4, <2>3 DEF Settled, CalledBack, Ending, nothingDue, allDone, isDone,
       isRunning
  <2>4. QED
    BY <1>1, <2>1, <2>2, <2>3
<1>7. CloserInTurn'
  BY <1>1, <1>2 DEF ClientInv, CloserInTurn, nothingDue, last, isDone, front
<1>8. QED
  BY <1>1, <1>2, <1>3, <1>5, <1>6, <1>7 DEF ClientInv

\* A callback asks for the next operation when nothing else is under way.
LEMMA NextAsked ==
  ASSUME ClientInv, TypeInv', stage = "no", doContinue, called' = <<>>,
         Settled \/ (Starts /\ nothingDue),
         NEW op \in {"stopScan", "stopScanDone", "connect", "read", "write"},
         NEW d \in Devices \cup {None}, queueAsyncAction(asyncActions, op, d),
         NEW r, r \in Roles, Fits(r, op), role' = [role EXCEPT ![nextId] = r],
         op \in Stops => scanOpsOnly /\ connection[Target] = None /\ program = "ble_scan",
         op \in {"read", "write"} => program # "ble_scan",
         program # "ble_scan" => allDone,
         UNCHANGED <<phase, connection, reportQueue, draining, gattlib, outcome, program,
                     doContinue, shutdownOnly>>
  PROVE  ClientInv'
<1>1. /\ TypeOK /\ Line /\ StoppedFirst /\ ClientTypes
      /\ asyncActions \in Seq(Actions) /\ Len(asyncActions) \in Nat /\ nextId \in Ids
      /\ DOMAIN asyncActions = 1..Len(asyncActions)
      /\ op \in QueuedOps /\ closer = 0 /\ UNCHANGED <<stage, closer>>
  BY DEF ClientInv, TypeInv, TypeOK, QueuedOps, queueAsyncAction, shutdownOnly
<1>2. /\ role'[nextId] = r /\ \A i \in Ids : i # nextId => role'[i] = role[i]
      /\ role' \in [Ids -> Roles]
  BY <1>1 DEF ClientTypes
<1>3. /\ Line' /\ asyncActions' # <<>>
      /\ Len(asyncActions') = Len(asyncActions) + 1
      /\ \A k \in DOMAIN asyncActions :
           k \in DOMAIN asyncActions' /\ asyncActions'[k] = asyncActions[k]
      /\ asyncActions'[Len(asyncActions) + 1] =
           [id |-> nextId, op |-> op, dev |-> d, state |-> "Pending"]
  <2>1. Fits(role'[nextId], op)
    BY <1>2
  <2>2. isScanOp([op |-> op]) => program = "ble_scan"
    BY DEF isScanOp
  <2>3. op # "disconnect" /\ op # "scan"
    OBVIOUS
  <2>4. QED
    BY <1>1, <1>2, <2>1, <2>2, <2>3, AddedLine
<1>4. /\ DOMAIN asyncActions' = 1..(Len(asyncActions) + 1)
      /\ \A k \in DOMAIN asyncActions' :
           k \in DOMAIN asyncActions \/ k = Len(asyncActions) + 1
      /\ asyncActions # <<>> => 1 \in DOMAIN asyncActions
      /\ asyncActions = <<>> => Len(asyncActions) = 0
  <2>1. asyncActions' \in Seq(Actions)
    BY DEF TypeInv, TypeOK
  <2>2. DOMAIN asyncActions' = 1..(Len(asyncActions) + 1)
    BY <1>1, <1>3, <2>1
  <2>3. asyncActions # <<>> => 1 \in DOMAIN asyncActions
    BY <1>1, FrontLemma
  <2>4. QED
    BY <1>1, <2>2, <2>3
<1>5. StoppedFirst'
  <2> SUFFICES ASSUME connection[Target] # None, NEW k \in DOMAIN asyncActions',
                      isScanOp(asyncActions'[k])
               PROVE  isDone(asyncActions'[k])
    BY DEF StoppedFirst
  <2>1. asyncActions'[Len(asyncActions) + 1].op = op /\ op \notin Stops /\ op # "scan"
    BY <1>3
  <2>2. k \in DOMAIN asyncActions
    BY <1>4, <2>1 DEF isScanOp
  <2>3. QED
    BY <1>1, <1>3, <2>2 DEF StoppedFirst
<1>6. Settled'
  <2>1. asyncActions # <<>> => front' = front
    BY <1>3, <1>4 DEF front
  <2>2. asyncActions = <<>> => front'.op # "scan"
    BY <1>3, <1>4 DEF front
  <2>3. front'.op = "scan" => isDone(front')
    BY <2>1, <2>2 DEF Settled, Starts, isDone
  <2>4. QED
    BY <2>3 DEF Settled, Starts, nothingDue
<1>7. QED
  BY <1>1, <1>2, <1>3, <1>5, <1>6
     DEF ClientInv, ClientTypes, Situation, Ending, CloserInTurn

LEMMA NotBoth == ~(Starts /\ Scans) /\ ~(Settled /\ CalledBack /\ Scans /\ ScanGoesOn)
BY DEF Starts, Scans, Settled, ScanGoesOn

LEMMA MainStep == ASSUME ClientInv, TypeInv', Main PROVE ClientInv'
<1>1. runsBody("main", "ok")
  BY DEF Main
<1>2. Starts /\ nothingDue /\ called' = <<>> /\ stage = "no" /\ doContinue
  BY <1>1, WhoIsCalled DEF Roles, Starts
<1>3. CASE endsLoop
  BY <1>1, <1>2, <1>3, BodyOnly, NotBoth
<1>4. CASE Enable("enable") /\ UNCHANGED <<shutdownOnly, program, doContinue, role, sightings>>
  <2>1. /\ reportQueue' = <<[op |-> "user", id |-> 0]>> /\ draining' = <<>>
        /\ UNCHANGED <<phase, connection, is_scanning, asyncActions, gattlib,
                       nextId, outcome, program, doContinue, role, stage, closer>>
    BY <1>2, <1>4 DEF Enable, pushReport, nothingDue, shutdownOnly
  <2>2. Starts'
    BY <1>2, <2>1 DEF Starts, onlyDue
  <2>3. Line' /\ StoppedFirst' /\ ClientTypes'
    BY <2>1, SameLine DEF ClientInv, ClientTypes, StoppedFirst, isScanOp, isDone
  <2>4. QED
    BY <1>2, <2>1, <2>2, <2>3 DEF ClientInv, Situation, Ending, CloserInTurn
<1>5. QED
  BY <1>3, <1>4 DEF Main

\* The scan of ble_scan is the first action of all.
LEMMA ScanIsAsked ==
  ASSUME ClientInv, TypeInv', runsBody("enable", "ok"), program = "ble_scan",
         asks(Scan("scan"), "scan")
  PROVE  ClientInv'
<1>1. Starts /\ nothingDue /\ called' = <<>> /\ stage = "no" /\ doContinue /\ closer = 0
  BY WhoIsCalled DEF Roles, Starts, ClientInv
<1>2. /\ queueAsyncAction(asyncActions, "scan", None) /\ is_scanning'
      /\ role' = [role EXCEPT ![nextId] = "scan"]
      /\ UNCHANGED <<phase, connection, reportQueue, draining, gattlib, outcome, program,
                     doContinue, stage, closer>>
  BY DEF asks, Scan, shutdownOnly
<1>3. /\ TypeOK /\ Line /\ ClientTypes /\ asyncActions \in Seq(Actions)
      /\ nextId \in Ids /\ Len(asyncActions) = 0 /\ "scan" \in QueuedOps
  BY <1>1, <1>2 DEF ClientInv, TypeInv, TypeOK, Starts, queueAsyncAction, QueuedOps, ScanOps
<1>4. /\ role'[nextId] = "scan" /\ \A i \in Ids : i # nextId => role'[i] = role[i]
      /\ role' \in [Ids -> Roles]
  BY <1>2, <1>3 DEF ClientTypes, Roles
<1>5. /\ Line' /\ asyncActions' # <<>> /\ Len(asyncActions') = 1
      /\ asyncActions'[1] = [id |-> nextId, op |-> "scan", dev |-> None, state |-> "Pending"]
  <2> PICK op : op = "scan"
    OBVIOUS
  <2> PICK d \in Devices \cup {None} : d = None
    OBVIOUS
  <2>1. /\ TypeOK /\ Line /\ asyncActions \in Seq(Actions) /\ op \in QueuedOps
        /\ queueAsyncAction(asyncActions, op, d) /\ Fits(role'[nextId], op)
        /\ \A i \in Ids : i # nextId => role'[i] = role[i]
    BY <1>2, <1>3, <1>4 DEF Fits, Stops
  <2>2. /\ op # "disconnect" /\ UNCHANGED <<closer, program>>
        /\ op = "scan" => asyncActions = <<>>
        /\ op \in Stops => scanOpsOnly
        /\ op \in {"read", "write"} => program # "ble_scan"
        /\ \A i \in Ids : i >= nextId => outcome'[i] = outcome[i]
    BY <1>1, <1>2 DEF Starts, Stops
  <2>3. /\ Line' /\ asyncActions' # <<>>
        /\ Len(asyncActions') = Len(asyncActions) + 1
        /\ asyncActions'[Len(asyncActions) + 1] =
             [id |-> nextId, op |-> op, dev |-> d, state |-> "Pending"]
    BY <2>1, <2>2, AddedLine
  <2>4. Len(asyncActions) + 1 = 1
    BY <1>3
  <2>5. QED
    BY <2>3, <2>4
<1>6. scanOpsOnly'
  <2>1. asyncActions' \in Seq(Actions)
    BY DEF TypeInv, TypeOK
  <2>2. \A k \in DOMAIN asyncActions' : k = 1
    BY <1>5, <2>1
  <2>3. QED
    BY <1>5, <2>2 DEF scanOpsOnly, isScanOp
<1>7. Scans'
  BY <1>1, <1>2, <1>5, <1>6 DEF Starts, Scans, ScanAsked, nothingDue, isPending, front
<1>8. QED
  BY <1>1, <1>2, <1>3, <1>4, <1>5, <1>7
     DEF ClientInv, ClientTypes, Situation, Starts, StoppedFirst, Ending, CloserInTurn

LEMMA EnabledStep == ASSUME ClientInv, TypeInv', Enabled PROVE ClientInv'
<1>1. runsBody("enable", "ok")
  BY DEF Enabled
<1>2. CASE program = "ble_scan"
  BY <1>1, <1>2, ScanIsAsked DEF Enabled
<1>3. CASE program # "ble_scan"
  <2>1. /\ Starts /\ nothingDue /\ called' = <<>> /\ stage = "no" /\ doContinue
        /\ Target \in Devices
    BY <1>1, WhoIsCalled, ExamplesAssumption DEF Roles, Starts
  <2>2. /\ queueAsyncAction(asyncActions, "connect", Target)
        /\ role' = [role EXCEPT ![nextId] = "connect"]
        /\ UNCHANGED <<phase, connection, reportQueue, draining, gattlib, outcome, program,
                       doContinue, shutdownOnly>>
    BY <1>3 DEF Enabled, asks, Connect
  <2>3. "connect" \in Roles /\ Fits("connect", "connect") /\ "connect" \notin Stops /\ allDone
    BY <2>1 DEF Roles, Fits, Stops, allDone, Starts
  <2>4. QED
    BY <2>1, <2>2, <2>3, NextAsked
<1>4. QED
  BY <1>2, <1>3

\* The scan is over, and is stopped even so.
LEMMA ScanDoneStep == ASSUME ClientInv, TypeInv', ScanDone PROVE ClientInv'
<1>1. runsBody("scan", "ok") /\ asks(StopScan, "stop")
  BY DEF ScanDone
<1>2. /\ Settled /\ CalledBack /\ called[1] = "scan" /\ called' = <<>> /\ stage = "no"
      /\ doContinue /\ Fits("scan", front.op)
  <2>1. called = <<"scan", "ok">>
    BY <1>1 DEF runsBody
  <2>2. QED
    BY <1>1, <2>1, WhoIsCalled
<1>3. front.op = "scan" /\ isDone(front) /\ asyncActions # <<>> /\ scanOpsOnly
      /\ connection[Target] = None
  BY <1>2 DEF Fits, Stops, CalledBack
<1>4. program = "ble_scan"
  <2>1. 1 \in DOMAIN asyncActions /\ front = asyncActions[1]
    BY <1>3, FrontLemma DEF ClientInv, TypeInv, TypeOK, front
  <2>2. QED
    BY <1>3, <2>1 DEF ClientInv, Line, InLine, isScanOp
<1>5. ~scanRuns
  BY <1>3 DEF scanRuns, isRunning, isDone
<1> PICK op \in Stops : queueAsyncAction(asyncActions, op, None)
  BY <1>1, <1>5 DEF asks, StopScan, Stops
<1>6. /\ role' = [role EXCEPT ![nextId] = "stop"]
      /\ UNCHANGED <<phase, connection, reportQueue, draining, gattlib, outcome, program,
                     doContinue, shutdownOnly>>
  BY <1>1, <1>5 DEF asks, StopScan
<1>7. "stop" \in Roles /\ Fits("stop", op) /\ op \in {"stopScan", "stopScanDone"}
  BY DEF Roles, Fits, Stops
<1>8. QED
  BY <1>2, <1>3, <1>4, <1>6, <1>7, NextAsked

\* The target is found: the scan is cut short if it is the first action yet.
LEMMA FoundStep == ASSUME ClientInv, TypeInv', Found PROVE ClientInv'
<1>1. runsBody("found", "ok") /\ asks(StopScan, "stopToConnect")
  BY DEF Found
<1>2. Scans /\ ScanGoesOn /\ called' = <<>> /\ stage = "no" /\ closer = 0
  <2>1. "found" \notin Roles /\ "found" \notin {"main", "enable"}
    BY DEF Roles
  <2>2. QED
    BY <1>1, <2>1, WhoIsCalled DEF Scans, ClientInv
<1>3. /\ TypeOK /\ Line /\ ClientTypes /\ asyncActions \in Seq(Actions)
      /\ Len(asyncActions) \in Nat /\ DOMAIN asyncActions = 1..Len(asyncActions)
      /\ connection[Target] = None /\ scanOpsOnly /\ program = "ble_scan" /\ is_scanning
  BY <1>2 DEF ClientInv, TypeInv, TypeOK, Scans
<1> PICK q \in Seq(Actions) :
      /\ \/ q = asyncActions
         \/ asyncActions # <<>> /\ isRunning(front) /\ q = withState("Completed")
      /\ queueAsyncAction(q, "stopScan", None)
      /\ UNCHANGED outcome \/ (asyncActions # <<>> /\ reportTo(front.id, "cancelled"))
  <2>1. CASE scanRuns
    <3>1. withState("Completed") \in Seq(Actions)
      BY <1>3, <2>1, WithStateLemma DEF scanRuns
    <3>2. QED
      BY <1>1, <1>3, <2>1, <3>1 DEF asks, StopScan, scanRuns
  <2>2. CASE ~scanRuns
    BY <1>1, <1>3, <2>2 DEF asks, StopScan
  <2>3. QED
    BY <2>1, <2>2
<1>4. /\ role' = [role EXCEPT ![nextId] = "stopToConnect"] /\ nextId \in Ids
      /\ UNCHANGED <<phase, connection, is_scanning, reportQueue, draining, gattlib, program,
                     doContinue, stage, closer>>
  BY <1>1 DEF asks, StopScan, queueAsyncAction, shutdownOnly
<1>5. /\ role'[nextId] = "stopToConnect" /\ \A i \in Ids : i # nextId => role'[i] = role[i]
      /\ role' \in [Ids -> Roles]
  BY <1>3, <1>4 DEF ClientTypes, Roles
<1>6. \A i \in Ids : i >= nextId => outcome'[i] = outcome[i]
  <2>1. ASSUME asyncActions # <<>>, reportTo(front.id, "cancelled"), NEW i \in Ids, i >= nextId
        PROVE  outcome'[i] = outcome[i]
    <3>1. /\ 1 \in DOMAIN asyncActions /\ front = asyncActions[1] /\ front \in Actions
          /\ front.id \in Ids
      BY <1>3, <2>1, FrontLemma DEF front, Actions
    <3>2. front.id < nextId
      BY <1>3, <3>1 DEF Line, Numbered
    <3>3. i # front.id
      BY <1>4, <2>1, <3>1, <3>2 DEF Ids
    <3>4. QED
      BY <1>3, <2>1, <3>3 DEF reportTo, TypeOK
  <2>2. QED
    BY <2>1
<1>7. /\ Line' /\ asyncActions' # <<>>
      /\ Len(asyncActions') = Len(asyncActions) + 1
      /\ \A k \in DOMAIN asyncActions :
           /\ asyncActions'[k].op = asyncActions[k].op /\ asyncActions'[k] = q[k]
      /\ asyncActions'[Len(asyncActions) + 1] =
           [id |-> nextId, op |-> "stopScan", dev |-> None, state |-> "Pending"]
  <2>1. Fits(role'[nextId], "stopScan") /\ "stopScan" \in QueuedOps
    BY <1>5 DEF Fits, Stops, QueuedOps
  <2>2. QED
    BY <1>3, <1>4, <1>5, <1>6, <2>1, AddedLine
<1>8. /\ \A k \in DOMAIN asyncActions' :
           k \in DOMAIN asyncActions \/ k = Len(asyncActions) + 1
  <2>1. asyncActions' \in Seq(Actions)
    BY DEF TypeInv, TypeOK
  <2>2. QED
    BY <1>3, <1>7, <2>1
<1>9. \A k \in DOMAIN asyncActions :
        q[k] = asyncActions[k] \/ (isDone(q[k]) /\ asyncActions # <<>> /\ k = 1)
  <2>1. ASSUME asyncActions # <<>>, q = withState("Completed")
        PROVE  \A k \in DOMAIN asyncActions : q[k] = asyncActions[k] \/ (isDone(q[k]) /\ k = 1)
    <3>1. /\ q[1] = [front EXCEPT !.state = "Completed"] /\ front \in Actions
          /\ \A k \in 2..Len(asyncActions) : q[k] = asyncActions[k]
      BY <1>3, <2>1, WithStateLemma, FrontLemma
    <3>2. q[1].state = "Completed" /\ \A k \in DOMAIN asyncActions : k = 1 \/ k \in 2..Len(asyncActions)
      BY <1>3, <3>1 DEF Actions
    <3>3. QED
      BY <3>1, <3>2 DEF isDone
  <2>2. QED
    BY <2>1
<1>10. scanOpsOnly' /\ ScanGoesOn'
  <2>1. \A k \in DOMAIN asyncActions' :
          /\ isScanOp(asyncActions'[k]) /\ asyncActions'[k].op # "stopScanDone"
          /\ asyncActions'[k].op = "scan" => ~isPending(asyncActions'[k])
          /\ asyncActions'[k].op # "scan" => ~isRunning(asyncActions'[k])
    <3> SUFFICES ASSUME NEW k \in DOMAIN asyncActions'
                 PROVE  /\ isScanOp(asyncActions'[k]) /\ asyncActions'[k].op # "stopScanDone"
                        /\ asyncActions'[k].op = "scan" => ~isPending(asyncActions'[k])
                        /\ asyncActions'[k].op # "scan" => ~isRunning(asyncActions'[k])
      OBVIOUS
    <3>1. CASE k = Len(asyncActions) + 1
      <4>1. asyncActions'[k].op = "stopScan" /\ asyncActions'[k].state = "Pending"
        BY <1>7, <3>1
      <4>2. QED
        BY <4>1 DEF isScanOp, Stops, isPending, isRunning
    <3>2. CASE k \in DOMAIN asyncActions
      <4>1. asyncActions'[k].op = asyncActions[k].op /\ asyncActions'[k] = q[k]
        BY <1>7, <3>2
      <4>2. \/ asyncActions'[k].state = asyncActions[k].state
            \/ asyncActions'[k].state = "Completed"
        BY <1>9, <3>2, <4>1 DEF isDone
      <4>3. QED
        BY <1>2, <1>3, <3>2, <4>1, <4>2 DEF scanOpsOnly, isScanOp, ScanGoesOn, isPending, isRunning
    <3>3. QED
      BY <1>8, <3>1, <3>2
  <2>2. QED
    BY <1>2, <1>4, <2>1 DEF ScanGoesOn, scanOpsOnly, isScanOp, isPending, isRunning
<1>11. Scans'
  BY <1>2, <1>4, <1>10 DEF Scans, nothingDue
<1>12. QED
  BY <1>2, <1>3, <1>4, <1>5, <1>7, <1>11
     DEF ClientInv, ClientTypes, Situation, Scans, StoppedFirst, Ending, CloserInTurn, nothingDue

\* The scan is stopped, and the connection is asked for unless there is one.
LEMMA StoppedToConnectStep == ASSUME ClientInv, TypeInv', StoppedToConnect PROVE ClientInv'
<1>1. runsBody("stopToConnect", "ok")
  BY DEF StoppedToConnect
<1>2. /\ Settled /\ CalledBack /\ called' = <<>> /\ stage = "no" /\ doContinue
      /\ front.op \in Stops /\ Target \in Devices
  <2>1. called = <<"stopToConnect", "ok">>
    BY <1>1 DEF runsBody
  <2>2. /\ Settled /\ CalledBack /\ called' = <<>> /\ stage = "no" /\ doContinue
        /\ Fits("stopToConnect", front.op)
    BY <1>1, <2>1, WhoIsCalled
  <2>3. QED
    BY <2>2, ExamplesAssumption DEF Fits
<1>3. program = "ble_scan"
  <2>1. 1 \in DOMAIN asyncActions /\ front = asyncActions[1]
    BY <1>2, FrontLemma DEF ClientInv, TypeInv, TypeOK, front, CalledBack
  <2>2. QED
    BY <1>2, <2>1 DEF ClientInv, Line, InLine, isScanOp
<1>4. CASE endsLoop
  <2>1. ~(Scans /\ ScanGoesOn)
    BY <1>2, NotBoth
  <2>2. ~Scans
    BY <1>2, <2>1 DEF Scans, ScanAsked, CalledBack, isDone, isPending
  <2>3. QED
    BY <1>1, <1>4, <2>2, BodyOnly
<1>5. CASE asks(Connect(Target), "connect")
  <2>1. /\ queueAsyncAction(asyncActions, "connect", Target)
        /\ role' = [role EXCEPT ![nextId] = "connect"]
        /\ UNCHANGED <<phase, connection, reportQueue, draining, gattlib, outcome, program,
                       doContinue, shutdownOnly>>
    BY <1>5 DEF asks, Connect
  <2>2. "connect" \in Roles /\ Fits("connect", "connect") /\ "connect" \notin Stops
    BY DEF Roles, Fits, Stops
  <2>3. QED
    BY <1>2, <1>3, <2>1, <2>2, NextAsked
<1>6. QED
  BY <1>4, <1>5 DEF StoppedToConnect

\* Connected: ble_scan ends, read_write goes on to its operation.
LEMMA ConnectDoneStep == ASSUME ClientInv, TypeInv', ConnectDone PROVE ClientInv'
<1>1. runsBody("connect", "ok")
  BY DEF ConnectDone
<1>2. /\ Settled /\ CalledBack /\ called' = <<>> /\ Target \in Devices /\ ~Scans
      /\ stage = "no" => doContinue
      /\ stage = "no" \/ program = "ble_scan"
  <2>1. called = <<"connect", "ok">>
    BY <1>1 DEF runsBody
  <2>2. /\ Settled /\ CalledBack /\ called' = <<>> /\ (stage = "no" => doContinue)
        /\ stage = "no" \/ program = "ble_scan"
    BY <1>1, <2>1, WhoIsCalled
  <2>3. ~Scans
    BY <2>1, <2>2, NotBoth DEF Scans, ScanAsked
  <2>4. QED
    BY <2>2, <2>3, ExamplesAssumption
<1>3. CASE endsLoop
  BY <1>1, <1>2, <1>3, BodyOnly
<1>4. ASSUME NEW op \in {"read", "write"}, program = op,
             asks(UseConnection(op, Target), "use")
      PROVE  ClientInv'
  <2>1. /\ queueAsyncAction(asyncActions, op, Target)
        /\ role' = [role EXCEPT ![nextId] = "use"]
        /\ UNCHANGED <<phase, connection, reportQueue, draining, gattlib, outcome, program,
                       doContinue, shutdownOnly>>
    BY <1>4 DEF asks, UseConnection
  <2>2. "use" \in Roles /\ Fits("use", op) /\ op \notin Stops /\ program # "ble_scan"
    BY <1>4 DEF Roles, Fits, Stops
  <2>3. allDone
    BY <1>2, <2>2 DEF CalledBack
  <2>4. QED
    BY <1>2, <2>1, <2>2, <2>3, NextAsked
<1>5. QED
  BY <1>3, <1>4 DEF ConnectDone, Read, Write

\* The callbacks that ask for nothing.
LEMMA OtherBodies ==
  ASSUME ClientInv, TypeInv', StopFailed \/ ConnectFailed \/ LastCallback PROVE ClientInv'
<1>1. CASE StopFailed
  <2>1. doesNothing /\ \E r \in {"stop", "stopToConnect"} : runsBody(r, "fail")
    BY <1>1 DEF StopFailed
  <2>2. endsLoop => ~Scans
    BY <2>1 DEF endsLoop, doesNothing, Scans
  <2>3. QED
    BY <2>1, <2>2, BodyOnly
<1>2. CASE ConnectFailed \/ LastCallback
  <2> PICK r, result : /\ runsBody(r, result) /\ (endsLoop \/ doesNothing)
                       /\ <<r, result>> \notin {<<"found", "ok">>, <<"stop", "fail">>,
                                                <<"stopToConnect", "fail">>}
    <3>1. ConnectFailed => runsBody("connect", "fail") /\ (endsLoop \/ doesNothing)
      BY DEF ConnectFailed
    <3>2. LastCallback => /\ endsLoop
                          /\ \/ runsBody("enable", "fail")
                             \/ runsBody("scan", "fail")
                             \/ runsBody("stop", "ok")
                             \/ \E result \in {"ok", "fail"} : runsBody("use", result)
      BY DEF LastCallback
    <3>3. QED
      BY <1>2, <3>1, <3>2
  <2>1. called = <<r, result>>
    BY DEF runsBody
  <2>2. Starts \/ (Settled /\ CalledBack)
    BY <2>1, WhoIsCalled
  <2>3. ~Scans
    <3>1. ~ScanAsked
      BY <2>1 DEF ScanAsked
    <3>2. QED
      BY <2>2, <3>1, NotBoth DEF Scans
  <2>4. QED
    BY <2>3, BodyOnly
<1>3. QED
  BY <1>1, <1>2

-----------------------------------------------------------------------------
(* The theorems                                                            *)

LEMMA FromMainStep ==
  ASSUME FromMain, [ExamplesNext]_examplesVars PROVE FromMain'
<1>1. CASE Body
  BY <1>1 DEF Body, Main, Enabled, ScanDone, Found, StopFailed, StoppedToConnect, ConnectDone,
     ConnectFailed, LastCallback, asks, endsLoop, doesNothing, shutdownVars, shutdownOnly, FromMain
<1>2. CASE LoopTurns \/ EventsEnd \/ EnableReported \/ OtherReport \/ LoopEnds
  BY <1>2 DEF LoopTurns, EventsEnd, EnableReported, OtherReport, LoopEnds, TickBegins, TickEnds,
     shutdownOnly, FromMain
<1>3. CASE MainShutsDown
  BY <1>3 DEF MainShutsDown, ShutdownCalled, ShutdownAtOnce, ShutdownRefused,
     ShutdownDisconnects, FromMain
<1>4. CASE ShuttingDown
  BY <1>4 DEF ShuttingDown, DoneCb, ShutdownReturns, FromMain
<1>5. ASSUME NEW g \in gattlib, TargetDiscovered(g) \/ Answered(g) PROVE FromMain'
  BY <1>5 DEF TargetDiscovered, Answered, shutdownOnly, FromMain
<1>6. CASE Ended \/ UNCHANGED examplesVars
  BY <1>6 DEF Ended, examplesVars, shutdownVars, shutdownOnly, FromMain
<1>7. QED
  BY <1>1, <1>2, <1>3, <1>4, <1>5, <1>6 DEF ExamplesNext, ProgramStep

LEMMA ClientStep ==
  ASSUME ClientInv, FromMain, [ExamplesNext]_examplesVars PROVE ClientInv'
<1>1. TypeInv'
  BY ClientSteps, TypeInvStep DEF ClientInv
<1>2. CASE Body
  BY <1>1, <1>2, MainStep, EnabledStep, ScanDoneStep, FoundStep, StoppedToConnectStep,
     ConnectDoneStep, OtherBodies DEF Body
<1>3. CASE LoopTurns \/ EventsEnd \/ EnableReported \/ OtherReport \/ LoopEnds
  BY <1>1, <1>3, LoopStep, EventsStep, EnableStep, ReportStep, TurnStep
<1>4. CASE MainShutsDown
  BY <1>1, <1>4, ClosesAtOnce, DisconnectsFirst DEF MainShutsDown, ShutdownCalled
<1>5. CASE ShuttingDown
  BY <1>1, <1>5, DoneCbStep, ReturnStep DEF ShuttingDown
<1>6. ASSUME NEW g \in gattlib, TargetDiscovered(g) \/ Answered(g) PROVE ClientInv'
  BY <1>1, <1>6, DiscoveryStep, AnswerStep
<1>7. CASE UNCHANGED examplesVars
  <2>1. /\ Line' /\ ClientTypes'
        /\ UNCHANGED <<phase, connection, is_scanning, asyncActions, reportQueue, draining,
                       gattlib, nextId, outcome, program, doContinue, role, called, stage,
                       closer, adaptCloseCalled, adapter_is_open>>
    BY <1>7, SameLine DEF examplesVars, shutdownVars, shutdownOnly, vars, central, clientVars,
       ClientInv, ClientTypes
  <2>2. front' = front /\ last' = last
    BY <2>1 DEF front, last
  <2>3. stage \in {"no", "waiting"} => Situation'
    BY <2>1, <2>2 DEF ClientInv, Situation, Starts, Scans, ScanAsked, ScanGoesOn,
       GattlibAsked, ReportDue, Settled, CalledBack, scanOpsOnly, isScanOp, nothingDue,
       onlyDue, allDone, isPending, isRunning, isDone
  <2>4. QED
    BY <1>1, <2>1, <2>2, <2>3 DEF ClientInv, StoppedFirst, Ending, CloserInTurn, Returned,
       NothingLeftBehind, exited, hasReturned, doneCbDue, nothingDue, allDone, isScanOp, isDone, isRunning
<1>8. CASE Ended /\ UNCHANGED clientVars
  BY <1>7, <1>8 DEF Ended, examplesVars
<1>9. QED
  BY <1>2, <1>3, <1>4, <1>5, <1>6, <1>7, <1>8 DEF ExamplesNext, ProgramStep

LEMMA ClientInit == ExamplesInit => ClientInv
<1> SUFFICES ASSUME ExamplesInit PROVE ClientInv
  OBVIOUS
<1>1. TypeInv
  BY TypeInvInit DEF ExamplesInit
<1>2. /\ program \in Programs /\ doContinue = TRUE /\ called = <<"main", "ok">>
      /\ role = [i \in Ids |-> "none"] /\ stage = "no" /\ closer = 0
      /\ asyncActions = <<>> /\ reportQueue = <<>> /\ draining = <<>> /\ gattlib = {}
      /\ is_scanning = FALSE /\ connection[Target] = None /\ outcome = [i \in Ids |-> <<>>]
  BY ExamplesAssumption DEF ExamplesInit, ShutdownInit, Init
<1>3. ClientTypes /\ Line /\ StoppedFirst
  BY <1>2 DEF ClientTypes, Roles, Line, Numbered, InLine, StoppedFirst
<1>4. Starts
  BY <1>2 DEF Starts, nothingDue
<1>5. QED
  BY <1>1, <1>2, <1>3, <1>4 DEF ClientInv, Situation, Ending, CloserInTurn

LEMMA ClientInvariant == ExamplesSpec => []ClientInv
<1>1. ExamplesInit => FromMain
  BY DEF ExamplesInit, ShutdownInit, FromMain
<1>2. FromMain /\ [ExamplesNext]_examplesVars => FromMain'
  BY FromMainStep
<1>3. ClientInv /\ FromMain /\ [ExamplesNext]_examplesVars => ClientInv'
  BY ClientStep
<1>4. QED
  BY <1>1, <1>2, <1>3, ClientInit, PTL DEF ExamplesSpec

\* Each example program is an application such as Shutdown is about, one that
\* calls shutdown() from its main program: what is proved of ShutdownSpec
\* without a condition on the application holds of both.
THEOREM ExamplesAreShutdown == ExamplesSpec => ShutdownSpec
<1>1. ExamplesInit => ShutdownInit
  BY DEF ExamplesInit
<1>2. ClientInv /\ [ExamplesNext]_examplesVars => [ShutdownNext]_shutdownVars
  BY ClientSteps
<1>3. QED
  BY <1>1, <1>2, ClientInvariant, PTL DEF ExamplesSpec, ShutdownSpec

\* When an example program has ended the adapter is closed and gattlib owes no
\* answer, whichever operations fail and whenever gattlib answers, unless the
\* time shutdown() waits has run out: ble_scan's many stops and connections
\* are all behind it by then.
THEOREM NothingIsLeftBehind == ExamplesSpec => []NothingLeftBehind
<1>1. ClientInv => NothingLeftBehind
  <2>1. CASE stage \notin {"no", "waiting"}
    BY <2>1 DEF ClientInv, Returned
  <2>2. CASE stage \in {"no", "waiting"}
    BY <2>2 DEF NothingLeftBehind
  <2>3. QED
    BY <2>1, <2>2
<1>2. QED
  BY <1>1, ClientInvariant, PTL

===============================================================================
