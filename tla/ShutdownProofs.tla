---------------------------- MODULE ShutdownProofs ----------------------------
(***************************************************************************)
(* Proofs about Shutdown.                                                  *)
(*                                                                         *)
(* Its steps are those of BLECentral, whose invariant of the queue is used *)
(* throughout, and five of its own.  Only the application that cuts in     *)
(* with shutdown() ahead of the library's own callbacks is left out of it. *)
(***************************************************************************)
EXTENDS Shutdown, BLECentralProofs

-----------------------------------------------------------------------------
(* The types                                                               *)

\* The number of the first action of the queue, or of the next action queued.
first == nextId - Len(asyncActions)

\* Every action in the queue has had a number of its own; a program that has
\* crashed runs no callback, hence does not call shutdown(); a tick is found
\* busy at most once.
TypeInv ==
  /\ TypeOK /\ ShutdownTypeOK
  /\ first > 0
  /\ phase = "crashed" => ~appTurn
  /\ stage = "no" => waitLoopCount = 0 /\ busy = 0 /\ closer = 0 /\ ~adaptCloseCalled
  /\ stage = "waiting" => busy + (IF phase = "app" THEN 0 ELSE 1) <= waitLoopCount

-----------------------------------------------------------------------------
(* The waiting                                                             *)

\* The library's own callbacks that processAsync() has still to run when
\* shutdown() is called in it come after shutdown(), so late that QueueInv would
\* not hold: the application calls it in no callback that is ahead of one.
InterruptsNoReport == ~(FromCallbacks /\ CutsIn)

\* The processAsync() that has been interrupted has callbacks of the application
\* to run at most; the data of a read is due in the queue only if it has come
\* before those of the queue are taken.
Interrupted ==
  /\ NoOwnReport(outer.draining)
  /\ outer.phase # "reports" => outer.draining = <<>>
  /\ stage = "waiting" /\ phase = "app" /\ outer.phase = "reports" => ~DataDue(reportQueue)

\* Where in the queue shutdown()'s disconnection is.
place == closer - first + 1

\* The ticks it takes to start and to remove each action up to there, if none
\* of them has to wait for gattlib.
started == IF asyncActions # <<>> /\ ~isPending(front) THEN 1 ELSE 0
ticksNeeded == 2 * place - started

\* The tick that has begun has yet to take its turn at the first action.
inTick == IF phase = "app" THEN 0 ELSE 1

ClosersTurnComes ==
  stage = "waiting" /\ ~adaptCloseCalled =>
    /\ closer \in Ids
    /\ place \in DOMAIN asyncActions /\ asyncActions[place].op = "disconnect"
    /\ waitLoopCount + ticksNeeded <= 2 * (ahead + 1) + busy + inTick

WaitInv ==
  /\ TypeInv
  /\ QueueInv
  /\ Interrupted
  /\ ClosersTurnComes
  /\ WaitsForRunningOnly \/ (stage = "waiting" /\ ~adaptCloseCalled)

-----------------------------------------------------------------------------
(* What is left when it returns                                            *)

\* The disconnection is an action of the queue until it is removed.
CloserQueued ==
  closer # 0 =>
    /\ closer < nextId
    /\ place \in DOMAIN asyncActions => asyncActions[place].op = "disconnect"

\* When it has been removed doneCb has run.  Nothing is started any more, but
\* by the end of the tick that goes on, with which the program ends.
OnceRemoved ==
  closer # 0 /\ closer < first =>
    \/ exited
    \/ /\ asyncActions # <<>> => isPending(front)
       /\ hasReturned \/ (phase = "app" /\ adaptCloseCalled)

\* If one device is connected at a time, deviceDisconnected() finds it.
ConnectedToNamesIt == \A d \in Devices : connection[d] # None => connected_to = d

ClosingInv ==
  /\ CloserQueued
  /\ stage = "waiting" => closer # 0 /\ (adaptCloseCalled => outcome[closer] # <<>>)
  /\ OnceRemoved
  /\ hasReturned /\ outer.phase = "app" => exited
  /\ OneDevice =>
       /\ ConnectedToNamesIt
       /\ closer # 0 /\ outcome[closer] = <<"ok">> => \A d \in Devices : connection[d] = None

-----------------------------------------------------------------------------
(* The steps                                                               *)

\* A step of the program, or of the tick that goes on when shutdown() has
\* returned, which is a step of BLECentral.
GoesOn == RequestMade \/ TickBegins \/ EventsDelivered \/ ReportRuns \/ TickEnds

LEMMA GoesOnIsStep ==
  ASSUME GoesOn
  PROVE  /\ goesOn /\ [Next]_vars
         /\ UNCHANGED <<stage, outer, closer, adaptCloseCalled, ahead>>
<1>1. goesOn /\ UNCHANGED <<stage, outer, closer, adaptCloseCalled, ahead>>
  BY DEF GoesOn, RequestMade, TickBegins, EventsDelivered, ReportRuns, TickEnds, shutdownOnly
<1>2. Request \/ ProcessAsync \/ Deliver \/ TakeReports \/ RunReport \/ FrontTurn
  BY DEF GoesOn, RequestMade, TickBegins, EventsDelivered, ReportRuns, TickEnds
<1>3. [Next]_vars
  BY <1>2 DEF Next, Tick
<1>4. QED
  BY <1>1, <1>3

\* What a step may be.
LEMMA ShutdownSteps ==
  ASSUME [ShutdownNext]_shutdownVars
  PROVE  \/ ShutdownAtOnce \/ ShutdownRefused \/ ShutdownDisconnects
         \/ DoneCb \/ ShutdownReturns
         \/ GoesOn
         \/ UNCHANGED shutdownVars
BY DEF ShutdownNext, ShutdownCalled, GoesOn, Ended

-----------------------------------------------------------------------------
(* Types                                                                   *)

\* Every action keeps its place in the queue, and what has been started is not
\* pending again, until the first action is removed.
LEMMA QueueMoves ==
  ASSUME TypeOK, [Next]_vars
  PROVE  \/ /\ first' = first /\ Len(asyncActions) <= Len(asyncActions')
            /\ \A k \in DOMAIN asyncActions : asyncActions'[k].op = asyncActions[k].op
            /\ asyncActions # <<>> /\ ~isPending(front) => ~isPending(front')
         \/ PopDone
<1>1. /\ asyncActions \in Seq(Actions) /\ nextId \in 1..(MaxRequests + 1) /\ nextId \in Int
      /\ Len(asyncActions) \in Nat
      /\ asyncActions # <<>> => 1 \in DOMAIN asyncActions
  BY BLECentralAssumption DEF TypeOK
<1> DEFINE Moves == /\ first' = first /\ Len(asyncActions) <= Len(asyncActions')
                    /\ \A k \in DOMAIN asyncActions : asyncActions'[k].op = asyncActions[k].op
                    /\ asyncActions # <<>> /\ ~isPending(front) => ~isPending(front')
<1>2. CASE UNCHANGED <<asyncActions, nextId>>
  BY <1>1, <1>2 DEF first, front
<1>3. ASSUME asyncActions # <<>>, NEW state \in {"Triggered", "Completed"}
      PROVE  /\ withState(state) \in Seq(Actions) /\ withState(state) # <<>>
             /\ Len(withState(state)) = Len(asyncActions)
             /\ \A k \in DOMAIN asyncActions : withState(state)[k].op = asyncActions[k].op
             /\ ~isPending(withState(state)[1])
  <2>1. /\ withState(state) \in Seq(Actions) /\ Len(withState(state)) = Len(asyncActions)
        /\ withState(state) # <<>> /\ withState(state)[1] = [front EXCEPT !.state = state]
        /\ \A k \in 2..Len(asyncActions) : withState(state)[k] = asyncActions[k]
    BY <1>1, <1>3, WithStateLemma
  <2>2. front \in Actions /\ front = asyncActions[1]
    BY <1>1, <1>3 DEF front
  <2>3. withState(state)[1].op = asyncActions[1].op /\ withState(state)[1].state = state
    BY <2>1, <2>2 DEF Actions
  <2>4. \A k \in DOMAIN asyncActions : k = 1 \/ k \in 2..Len(asyncActions)
    BY <1>1
  <2>5. QED
    BY <2>1, <2>3, <2>4 DEF isPending
<1>4. ASSUME asyncActions # <<>>, UNCHANGED nextId, NEW state \in {"Triggered", "Completed"},
             asyncActions' = withState(state)
      PROVE  Moves
  <2>1. /\ Len(asyncActions') = Len(asyncActions) /\ ~isPending(asyncActions'[1])
        /\ \A k \in DOMAIN asyncActions : asyncActions'[k].op = asyncActions[k].op
    BY <1>3, <1>4
  <2>2. first' = first /\ front' = asyncActions'[1]
    BY <1>4, <2>1 DEF first, front
  <2>3. isPending(front') <=> isPending(asyncActions'[1])
    BY <2>2
  <2>4. QED
    BY <1>1, <2>1, <2>2, <2>3
<1>5. ASSUME NEW op \in QueuedOps, NEW d \in Devices \cup {None}, NEW q \in Seq(Actions),
             queueAsyncAction(q, op, d), Len(q) = Len(asyncActions),
             \A k \in DOMAIN asyncActions : q[k].op = asyncActions[k].op,
             asyncActions # <<>> /\ ~isPending(front) => ~isPending(q[1])
      PROVE  Moves
  <2>1. /\ Len(asyncActions') = Len(q) + 1 /\ nextId' = nextId + 1
        /\ \A k \in 1..Len(q) : asyncActions'[k] = q[k]
    BY <1>1, <1>5, QueueLemma, BLECentralAssumption
  <2>2. DOMAIN asyncActions = 1..Len(q)
    BY <1>1, <1>5
  <2>3. first' = first /\ Len(asyncActions) <= Len(asyncActions')
    BY <1>1, <1>5, <2>1 DEF first
  <2>4. asyncActions # <<>> => front' = q[1]
    BY <1>1, <2>1, <2>2 DEF front
  <2>5. QED
    BY <1>5, <2>1, <2>2, <2>3, <2>4
<1>6. ASSUME NEW op \in QueuedOps, NEW d \in Devices \cup {None},
             queueAsyncAction(asyncActions, op, d)
      PROVE  Moves
  BY <1>1, <1>5, <1>6 DEF front
<1>7. ASSUME asyncActions # <<>>, NEW op \in QueuedOps, NEW d \in Devices \cup {None},
             queueAsyncAction(withState("Completed"), op, d)
      PROVE  Moves
  <2>1. /\ withState("Completed") \in Seq(Actions)
        /\ Len(withState("Completed")) = Len(asyncActions)
        /\ \A k \in DOMAIN asyncActions : withState("Completed")[k].op = asyncActions[k].op
        /\ ~isPending(withState("Completed")[1])
    BY <1>3, <1>7
  <2>2. QED
    BY <1>5, <1>7, <2>1
<1>8. QED
  BY <1>2, <1>4, <1>6, <1>7, QueueChanges

\* There are no more actions in the queue than have been given numbers.
LEMMA QueueIsShorter ==
  ASSUME TypeOK, TypeOK', [Next]_vars, first > 0
  PROVE  first' > 0
<1>1. CASE first' = first
  BY <1>1
<1>2. CASE PopDone
  <2>1. /\ asyncActions \in Seq(Actions) /\ nextId \in Int
        /\ asyncActions # <<>> /\ asyncActions' = Tail(asyncActions) /\ nextId' = nextId
    BY <1>2, BLECentralAssumption DEF TypeOK, PopDone, returns
  <2>2. Len(asyncActions) \in Nat /\ Len(asyncActions') = Len(asyncActions) - 1
    BY <2>1
  <2>3. QED
    BY <2>1, <2>2 DEF first
<1>3. QED
  BY <1>1, <1>2, QueueMoves

\* A program that has crashed calls nothing.
LEMMA CrashIsSilent ==
  ASSUME [Next]_vars, phase = "crashed" => ~appTurn
  PROVE  phase' = "crashed" => ~appTurn'
<1>1. CASE Request
  BY <1>1 DEF Request, AdapterOpen, AdapterClose, SetAutoDiscoverOnConnect, Enable, Scan,
     StopScan, Connect, Disconnect, Read, Write, UseConnection
<1>2. CASE Deliver
  BY <1>2 DEF Deliver, Answer, answers, DeviceDiscovered, ScanEnded, DeviceConnected,
     DeviceDisconnected, ReadAnswered, WriteAnswered
<1>3. CASE RunReport
  BY <1>3 DEF RunReport, DiscoverServicesStep, DiscoverCharacteristicsStep, ConnectedStep,
     DataStep, UserStep, NullStep, runs
<1>4. CASE ProcessAsync \/ TakeReports \/ FrontTurn \/ UNCHANGED vars
  BY <1>4 DEF ProcessAsync, TakeReports, FrontTurn, TriggerAccepted, TriggerRefused,
     TriggerStopScanDone, PopDone, NothingToDo, returns, vars
<1>5. QED
  BY <1>1, <1>2, <1>3, <1>4 DEF Next, Tick


\* What the call of shutdown() does to the queue.
LEMMA DisconnectQueued ==
  ASSUME TypeInv, ShutdownDisconnects
  PROVE  /\ "disconnect" \in QueuedOps /\ connected_to \in Devices
         /\ queueAsyncAction(asyncActions, "disconnect", connected_to)
         /\ asyncActions' \in Seq(Actions) /\ Len(asyncActions') = Len(asyncActions) + 1
         /\ nextId \in Ids /\ nextId' = nextId + 1 /\ nextId' \in 1..(MaxRequests + 1)
         /\ asyncActions'[Len(asyncActions) + 1] =
              [id |-> nextId, op |-> "disconnect", dev |-> connected_to, state |-> "Pending"]
         /\ \A k \in 1..Len(asyncActions) : asyncActions'[k] = asyncActions[k]
<1>1. connected_to \in Devices /\ queueAsyncAction(asyncActions, "disconnect", connected_to)
  BY DEF TypeInv, TypeOK, ShutdownDisconnects, mustDisconnect
<1>2. "disconnect" \in QueuedOps /\ asyncActions \in Seq(Actions) /\ nextId \in 1..(MaxRequests + 1)
  BY DEF QueuedOps, TypeInv, TypeOK
<1>3. QED
  BY <1>1, <1>2, QueueLemma, BLECentralAssumption

\* The call of shutdown() and its own steps keep the types.
LEMMA ShutdownOwnTypes ==
  ASSUME TypeInv,
         \/ ShutdownAtOnce \/ ShutdownRefused \/ ShutdownDisconnects
         \/ DoneCb \/ ShutdownReturns
  PROVE  TypeInv'
<1> USE DEF central
<1>1. /\ TypeOK /\ ShutdownTypeOK /\ first > 0
      /\ phase = "crashed" => ~appTurn
      /\ stage = "no" => waitLoopCount = 0 /\ busy = 0 /\ closer = 0 /\ ~adaptCloseCalled
      /\ stage = "waiting" => busy + (IF phase = "app" THEN 0 ELSE 1) <= waitLoopCount
  BY DEF TypeInv
<1>2. CASE ShutdownAtOnce \/ ShutdownRefused
  <2>1. TypeOK'
    BY <1>1, <1>2 DEF ShutdownAtOnce, ShutdownRefused, TypeOK
  <2>2. /\ stage' = "returned" /\ stage = "no" /\ appTurn /\ phase # "crashed"
        /\ outer' = [phase |-> phase, draining |-> draining]
        /\ UNCHANGED <<phase, draining, asyncActions, nextId, closer, waitLoopCount, ahead, busy>>
    BY <1>1, <1>2 DEF ShutdownAtOnce, ShutdownRefused, MayShutdown
  <2>3. outer' \in [phase : {"app", "events", "reports"}, draining : Seq(Reports)]
    BY <1>1, <2>2 DEF TypeOK
  <2>4. adaptCloseCalled' \in BOOLEAN
    BY <1>1, <1>2 DEF ShutdownAtOnce, ShutdownRefused, ShutdownTypeOK
  <2>5. ShutdownTypeOK'
    BY <1>1, <2>2, <2>3, <2>4 DEF ShutdownTypeOK
  <2>6. QED
    BY <1>1, <2>1, <2>2, <2>5 DEF TypeInv, first
<1>3. CASE ShutdownDisconnects
  <2>1. /\ asyncActions' \in Seq(Actions) /\ Len(asyncActions') = Len(asyncActions) + 1
        /\ nextId \in Ids /\ nextId' = nextId + 1 /\ nextId' \in 1..(MaxRequests + 1)
    BY <1>3, DisconnectQueued
  <2>2. /\ stage = "no" /\ appTurn /\ phase # "crashed"
        /\ closer' = nextId /\ ahead' = Len(asyncActions) /\ stage' = "waiting"
        /\ outer' = [phase |-> phase, draining |-> draining]
        /\ phase' = "app" /\ draining' = <<>> /\ appTurn' = FALSE
        /\ UNCHANGED <<adaptCloseCalled, waitLoopCount, busy>>
    BY <1>1, <1>3 DEF ShutdownDisconnects, MayShutdown
  <2>3. TypeOK'
    <3>1. adapter_is_open' = TRUE /\ <<>> \in Seq(Reports)
      BY <1>3 DEF ShutdownDisconnects, openAdapterIfRequired
    <3>2. UNCHANGED <<is_scanning, auto_discover, connected_to, connection, reportQueue,
                      gattlib, outcome>>
      BY <1>3 DEF ShutdownDisconnects
    <3>3. QED
      BY <1>1, <2>1, <2>2, <3>1, <3>2 DEF TypeOK
  <2>4. Len(asyncActions) \in Nat /\ Len(asyncActions) < nextId /\ nextId \in 1..MaxRequests
    BY <1>1, <2>1 DEF TypeOK, Ids, first
  <2>5. ahead' \in 0..MaxRequests
    BY <2>2, <2>4, BLECentralAssumption
  <2>6. outer' \in [phase : {"app", "events", "reports"}, draining : Seq(Reports)]
    BY <1>1, <2>2 DEF TypeOK
  <2>7. ShutdownTypeOK'
    BY <1>1, <2>1, <2>2, <2>5, <2>6 DEF ShutdownTypeOK
  <2>8. first' > 0
    BY <1>1, <2>1, <2>4 DEF first
  <2>9. QED
    BY <1>1, <2>2, <2>3, <2>7, <2>8 DEF TypeInv
<1>4. CASE DoneCb
  <2>1. TypeOK'
    BY <1>1, <1>4 DEF DoneCb, adapterCloseInDoneCb, TypeOK
  <2>2. ShutdownTypeOK' /\ (phase' = "crashed" => ~appTurn')
    BY <1>1, <1>4 DEF DoneCb, ShutdownTypeOK
  <2>3. stage # "no" /\ (stage = "waiting" => phase' = phase)
    BY <1>1, <1>4 DEF DoneCb, doneCbDue
  <2>4. QED
    BY <1>1, <1>4, <2>1, <2>2, <2>3 DEF DoneCb, TypeInv, first
<1>5. CASE ShutdownReturns
  <2>1. outer.phase \in {"app", "events", "reports"} /\ outer.draining \in Seq(Reports)
    BY <1>1 DEF ShutdownTypeOK
  <2>2. TypeOK'
    BY <1>1, <1>5, <2>1 DEF ShutdownReturns, TypeOK
  <2>3. ShutdownTypeOK' /\ phase' # "crashed" /\ stage' \in {"returned", "gaveUp"}
    BY <1>1, <1>5, <2>1 DEF ShutdownReturns, ShutdownTypeOK
  <2>4. QED
    BY <1>1, <1>5, <2>2, <2>3 DEF ShutdownReturns, TypeInv, first
<1>6. QED
  BY <1>2, <1>3, <1>4, <1>5

\* Ticks begin and end in steps of their own.
LEMMA InsideATick ==
  ASSUME RequestMade \/ EventsDelivered \/ ReportRuns
  PROVE  phase' = "app" <=> phase = "app"
BY DEF RequestMade, EventsDelivered, ReportRuns, Request, AdapterOpen, AdapterClose,
   SetAutoDiscoverOnConnect, Enable, Scan, StopScan, Connect, Disconnect, Read, Write,
   UseConnection, Deliver, Answer, answers, DeviceDiscovered, ScanEnded, DeviceConnected,
   DeviceDisconnected, ReadAnswered, WriteAnswered, TakeReports, RunReport,
   DiscoverServicesStep, DiscoverCharacteristicsStep, ConnectedStep, DataStep, UserStep,
   NullStep, runs

\* Every other step of the program keeps them: a tick of shutdown()'s loop is
\* counted as it begins, and counted busy at most once, as it ends.
LEMMA GoesOnTypes == ASSUME TypeInv, GoesOn PROVE TypeInv'
<1>1. /\ TypeOK /\ ShutdownTypeOK /\ first > 0
      /\ phase = "crashed" => ~appTurn
      /\ stage = "no" => waitLoopCount = 0 /\ busy = 0 /\ closer = 0 /\ ~adaptCloseCalled
      /\ stage = "waiting" => busy + (IF phase = "app" THEN 0 ELSE 1) <= waitLoopCount
  BY DEF TypeInv
<1>2. [Next]_vars /\ UNCHANGED <<stage, outer, closer, adaptCloseCalled, ahead>>
  BY GoesOnIsStep
<1>3. TypeOK' /\ first' > 0 /\ (phase' = "crashed" => ~appTurn')
  <2>1. TypeOK'
    BY <1>1, <1>2, TypeStep, BLECentralAssumption
  <2>2. QED
    BY <1>1, <1>2, <2>1, QueueIsShorter, CrashIsSilent
<1>4. waitLoopCount \in 0..WaitLimit /\ busy \in 0..WaitLimit /\ WaitLimit \in Nat
  BY <1>1, ShutdownAssumption DEF ShutdownTypeOK
<1>5. /\ waitLoopCount' \in 0..WaitLimit /\ busy' \in 0..WaitLimit
      /\ stage' = "no" => waitLoopCount' = 0 /\ busy' = 0
      /\ stage' = "waiting" => busy' + (IF phase' = "app" THEN 0 ELSE 1) <= waitLoopCount'
  <2>1. CASE RequestMade \/ EventsDelivered \/ ReportRuns
    <3>1. UNCHANGED <<waitLoopCount, busy>>
      BY <2>1 DEF RequestMade, EventsDelivered, ReportRuns, shutdownOnly
    <3>2. phase' = "app" <=> phase = "app"
      BY <2>1, InsideATick
    <3>3. QED
      BY <1>1, <1>2, <1>4, <3>1, <3>2
  <2>2. CASE TickBegins
    <3>1. phase = "app" /\ phase' = "events" /\ busy' = busy
      BY <2>2 DEF TickBegins, ProcessAsync
    <3>2. stage = "waiting" => waitLoopCount < WaitLimit /\ waitLoopCount' = waitLoopCount + 1
      BY <2>2 DEF TickBegins, waitsOn
    <3>3. stage # "waiting" => waitLoopCount' = waitLoopCount
      BY <2>2 DEF TickBegins
    <3>4. QED
      BY <1>1, <1>2, <1>4, <3>1, <3>2, <3>3
  <2>3. CASE TickEnds
    <3>1. phase = "reports" /\ phase' = "app" /\ waitLoopCount' = waitLoopCount
      BY <2>3 DEF TickEnds, FrontTurn, TriggerAccepted, TriggerRefused, TriggerStopScanDone,
         PopDone, NothingToDo, returns
    <3>2. busy' = busy \/ (stage = "waiting" /\ busy' = busy + 1)
      BY <2>3 DEF TickEnds
    <3>3. QED
      BY <1>1, <1>2, <1>4, <3>1, <3>2
  <2>4. QED
    BY <2>1, <2>2, <2>3 DEF GoesOn
<1>6. ShutdownTypeOK'
  BY <1>1, <1>2, <1>5 DEF ShutdownTypeOK
<1>7. QED
  BY <1>1, <1>2, <1>3, <1>5, <1>6 DEF TypeInv

LEMMA TypeInvStep == ASSUME TypeInv, [ShutdownNext]_shutdownVars PROVE TypeInv'
<1>1. CASE UNCHANGED shutdownVars
  BY <1>1 DEF shutdownVars, shutdownOnly, vars, central, TypeInv, TypeOK, ShutdownTypeOK,
     first
<1>2. QED
  BY <1>1, ShutdownSteps, ShutdownOwnTypes, GoesOnTypes

LEMMA TypeInvInit == ShutdownInit => TypeInv
<1> SUFFICES ASSUME ShutdownInit PROVE TypeInv
  OBVIOUS
<1>1. TypeOK
  BY TypeInit, BLECentralAssumption DEF ShutdownInit
<1>2. WaitLimit \in Nat /\ MaxRequests \in Nat
  BY ShutdownAssumption, BLECentralAssumption
<1>3. ShutdownTypeOK
  <2>1. 0 \in 0..WaitLimit /\ 0 \in 0..MaxRequests /\ <<>> \in Seq(Reports)
    BY <1>2
  <2>2. /\ stage = "no" /\ closer = 0 /\ adaptCloseCalled = FALSE
        /\ waitLoopCount = 0 /\ ahead = 0 /\ busy = 0
        /\ outer = [phase |-> "app", draining |-> <<>>]
    BY DEF ShutdownInit
  <2>3. QED
    BY <2>1, <2>2 DEF ShutdownTypeOK
<1>4. QED
  BY <1>1, <1>3 DEF ShutdownInit, Init, TypeInv, first

LEMMA TypeInvariant == ShutdownSpec => []TypeInv
<1>1. TypeInv /\ [ShutdownNext]_shutdownVars => TypeInv'
  BY TypeInvStep
<1>2. QED
  BY <1>1, TypeInvInit, PTL DEF ShutdownSpec

\* The types of shutdown()'s variables, with any application and limit: its
\* counters stay within their limits, and what it interrupts is never a
\* processAsync() that has crashed.
THEOREM ShutdownTypes == ShutdownSpec => []ShutdownTypeOK
<1>1. TypeInv => ShutdownTypeOK
  BY DEF TypeInv
<1>2. QED
  BY <1>1, TypeInvariant, PTL

-----------------------------------------------------------------------------
(* How long shutdown() waits                                               *)

\* What the tick that shutdown() is called in has still to do.
LEMMA CallInterrupts ==
  ASSUME TypeInv, QueueInv, InterruptsNoReport, MayShutdown
  PROVE  /\ NoOwnReport(draining)
         /\ phase # "reports" => draining = <<>>
         /\ phase = "reports" => ~DataDue(reportQueue)
<1>1. ReportsInPhase /\ phase \in {"app", "events", "reports"}
  BY DEF TypeInv, TypeOK, MayShutdown, QueueInv, WaitingInv
<1>2. phase # "reports" => draining = <<>>
  BY <1>1 DEF ReportsInPhase
<1>3. NoOwnReport(draining)
  <2>1. CASE phase = "app"
    BY <1>2, <2>1 DEF NoOwnReport
  <2>2. CASE phase # "app"
    <3>1. \A i \in DOMAIN draining : draining[i].op \in {"user", "null"}
      BY <2>2 DEF MayShutdown, InterruptsNoReport
    <3>2. QED
      BY <3>1 DEF NoOwnReport, OwnReports, ConnectSteps
  <2>3. QED
    BY <2>1, <2>2
<1>4. QED
  BY <1>1, <1>2, <1>3 DEF ReportsInPhase

\* A local copy q without a callback of the library's own can be exchanged for
\* another.
LEMMA LocalCopyChanges ==
  ASSUME QueueInv, TypeOK', NoOwnReport(draining), NoOwnReport(draining'), ReportsInPhase',
         UNCHANGED <<asyncActions, outcome, nextId, reportQueue, gattlib>>
  PROVE  QueueInv'
<1>1. WaitingInv /\ QueueMatches(asyncActions, outcome, nextId)
  BY DEF QueueInv
<1>2. front' = front
  BY DEF front
<1>3. ~DataDue(draining)
  BY NoOwnNoData
<1>4. DoneIsReported'
  BY <1>1, <1>2, <1>3 DEF WaitingInv, DoneIsReported
<1>5. ReportsBelong'
  <2>1. AllBelong(reportQueue)' /\ AtMostOneOwnReport(reportQueue)'
    BY <1>1, <1>2 DEF WaitingInv, ReportsBelong, AllBelong, AtMostOneOwnReport, Belongs
  <2>2. AllBelong(draining)' /\ AtMostOneOwnReport(draining)'
    BY DEF NoOwnReport, AllBelong, AtMostOneOwnReport
  <2>3. QED
    BY <2>1, <2>2 DEF ReportsBelong
<1>6. CallsMatchFront'
  BY <1>1, <1>2 DEF WaitingInv, CallsMatchFront
<1>7. QED
  BY <1>1, <1>4, <1>5, <1>6 DEF QueueInv, WaitingInv

\* The call of shutdown() queues an action as a request does.
LEMMA DisconnectKeepsQueue ==
  ASSUME TypeInv, TypeOK', QueueInv, InterruptsNoReport, ShutdownDisconnects
  PROVE  QueueInv'
<1> DEFINE a == [id |-> nextId, op |-> "disconnect", dev |-> connected_to, state |-> "Pending"]
<1>1. TypeOK /\ WaitingInv /\ QueueMatches(asyncActions, outcome, nextId)
  BY DEF QueueInv
<1>2. nextId \in Ids /\ nextId' = nextId + 1 /\ asyncActions' = Append(asyncActions, a)
  BY DisconnectQueued DEF queueAsyncAction
<1>3. /\ asyncActions \in Seq(Actions) /\ outcome \in [Ids -> Seq(Results)]
      /\ UNCHANGED <<outcome, reportQueue, gattlib>>
      /\ phase' = "app" /\ draining' = <<>>
  BY <1>1 DEF TypeOK, Results, ShutdownDisconnects
<1>4. QueueMatches(asyncActions', outcome', nextId')
  BY <1>1, <1>2, <1>3, EnqueueMatches
<1>5. NoOwnReport(draining) /\ ~DataDue(draining)
  BY CallInterrupts, NoOwnNoData DEF ShutdownDisconnects
<1>6. ReportsInPhase' /\ NoOwnReport(draining')
  BY <1>3 DEF ReportsInPhase, NoOwnReport
<1>7. CASE asyncActions = <<>>
  <2>1. NoOwnReport(reportQueue') /\ \A g \in gattlib' : g.op = "startScan"
    BY <1>1, <1>3, <1>7, NothingDue DEF WaitingInv
  <2>2. isPending(front')
    BY <1>2, <1>7 DEF front, isPending
  <2>3. DoneIsReported'
    BY <2>2 DEF DoneIsReported, isPending, isDone
  <2>4. WaitingInv'
    BY <1>6, <2>1, <2>3, NothingOwed DEF ReportsInPhase
  <2>5. QED
    BY <1>4, <2>4 DEF QueueInv
<1>8. CASE asyncActions # <<>>
  <2>1. asyncActions' # <<>> /\ front' = front
    BY <1>2, <1>3, <1>8 DEF front
  <2>2. ReportsBelong'
    <3>1. AllBelong(reportQueue)' /\ AtMostOneOwnReport(reportQueue)'
      BY <1>1, <1>3, <1>8, <2>1 DEF WaitingInv, ReportsBelong, AllBelong, AtMostOneOwnReport, Belongs
    <3>2. AllBelong(draining)' /\ AtMostOneOwnReport(draining)'
      BY <1>6 DEF NoOwnReport, AllBelong, AtMostOneOwnReport
    <3>3. QED
      BY <1>6, <3>1, <3>2 DEF ReportsBelong
  <2>3. DoneIsReported' /\ CallsMatchFront'
    BY <1>1, <1>3, <1>5, <1>6, <1>8, <2>1 DEF WaitingInv, DoneIsReported, CallsMatchFront
  <2>4. QED
    BY <1>4, <1>6, <2>2, <2>3 DEF QueueInv, WaitingInv
<1>9. QED
  BY <1>7, <1>8

\* So does the tick that goes on when shutdown() has returned.
LEMMA ReturnKeepsQueue ==
  ASSUME TypeOK', QueueInv, Interrupted, ShutdownReturns
  PROVE  QueueInv'
<1>1. /\ stage = "waiting" /\ phase = "app" /\ phase' = outer.phase /\ draining' = outer.draining
      /\ UNCHANGED <<asyncActions, outcome, nextId, reportQueue, gattlib>>
  BY DEF ShutdownReturns
<1>2. draining = <<>> /\ NoOwnReport(draining)
  BY <1>1 DEF QueueInv, WaitingInv, ReportsInPhase, NoOwnReport
<1>3. NoOwnReport(draining') /\ ReportsInPhase'
  BY <1>1 DEF Interrupted, ReportsInPhase
<1>4. QED
  BY <1>1, <1>2, <1>3, LocalCopyChanges

\* The queue of actions is in order, whatever processAsync() runs in what.
LEMMA QueueKept ==
  ASSUME NoTimedCancel, InterruptsNoReport, TypeInv, TypeInv', [ShutdownNext]_shutdownVars,
         QueueInv, Interrupted
  PROVE  QueueInv'
<1>1. TypeOK' /\ BLECentralAssumption
  BY BLECentralAssumption DEF TypeInv
<1>2. CASE ShutdownAtOnce \/ ShutdownRefused \/ DoneCb
  <2>1. /\ UNCHANGED <<asyncActions, outcome, reportQueue, draining, gattlib, nextId>>
        /\ phase' \in {phase, "crashed"}
    BY <1>2 DEF ShutdownAtOnce, ShutdownRefused, DoneCb
  <2>2. front' = front
    BY <2>1 DEF front
  <2>3. WaitingInv'
    BY <2>1, <2>2 DEF QueueInv, WaitingInv, DoneIsReported, ReportsBelong, AllBelong, Belongs,
       AtMostOneOwnReport, NoOwnReport, ReportsInPhase, CallsMatchFront
  <2>4. QED
    BY <1>1, <2>1, <2>3 DEF QueueInv
<1>3. CASE ShutdownDisconnects
  BY <1>1, <1>3, DisconnectKeepsQueue
<1>4. CASE ShutdownReturns
  BY <1>1, <1>4, ReturnKeepsQueue
<1>5. CASE GoesOn
  BY <1>1, <1>5, GoesOnIsStep, QueueStep
<1>6. CASE UNCHANGED shutdownVars
  BY <1>1, <1>6, QueueStep DEF shutdownVars, shutdownOnly
<1>7. QED
  BY <1>2, <1>3, <1>4, <1>5, <1>6, ShutdownSteps

\* What has been interrupted stays as it was; the loop's own ticks run the data
\* callbacks they find.
LEMMA InterruptedStep ==
  ASSUME TypeInv, QueueInv, InterruptsNoReport, Interrupted, [ShutdownNext]_shutdownVars
  PROVE  Interrupted'
<1>1. CASE ShutdownAtOnce \/ ShutdownRefused \/ ShutdownDisconnects
  <2>1. MayShutdown /\ outer' = [phase |-> phase, draining |-> draining] /\ UNCHANGED reportQueue
    BY <1>1 DEF ShutdownAtOnce, ShutdownRefused, ShutdownDisconnects
  <2>2. /\ NoOwnReport(draining) /\ (phase # "reports" => draining = <<>>)
        /\ phase = "reports" => ~DataDue(reportQueue)
    BY <2>1, CallInterrupts
  <2>3. outer'.phase = phase /\ outer'.draining = draining
    BY <2>1
  <2>4. NoOwnReport(outer.draining)'
    BY <2>2, <2>3 DEF NoOwnReport
  <2>5. phase = "reports" => ~DataDue(reportQueue)'
    BY <2>1, <2>2 DEF DataDue
  <2>6. QED
    BY <2>2, <2>3, <2>4, <2>5 DEF Interrupted
<1>2. CASE DoneCb \/ ShutdownReturns \/ UNCHANGED shutdownVars
  <2>1. UNCHANGED <<outer, reportQueue>> /\ (stage' = "waiting" /\ phase' = "app" => stage = "waiting" /\ phase = "app")
    BY <1>2 DEF DoneCb, ShutdownReturns, shutdownVars, shutdownOnly, vars
  <2>2. QED
    BY <2>1 DEF Interrupted, NoOwnReport, DataDue
<1>3. CASE GoesOn
  <2>1. UNCHANGED <<stage, outer>>
    BY <1>3, GoesOnIsStep
  <2>2. SUFFICES ASSUME stage = "waiting", phase' = "app", outer.phase = "reports", DataDue(reportQueue)'
                 PROVE  FALSE
    BY <2>1 DEF Interrupted, NoOwnReport
  <2>3. CASE RequestMade
    <3>1. phase = "app" /\ ~DataDue(reportQueue) /\ reportQueue \in Seq(Reports)
      BY <2>2, <2>3, InsideATick DEF Interrupted, TypeInv, TypeOK
    <3>2. UNCHANGED reportQueue
          \/ \E op \in {"user", "null"} : reportQueue' = Append(reportQueue, [op |-> op, id |-> 0])
      BY <2>3 DEF RequestMade, Request, AdapterOpen, AdapterClose, SetAutoDiscoverOnConnect, Enable,
         Scan, StopScan, Connect, Disconnect, Read, Write, UseConnection, pushReport
    <3>3. \A op \in {"user", "null"} : [op |-> op, id |-> 0] \in Reports
      BY DEF Reports
    <3>4. \A op \in {"user", "null"} : ~DataDue(Append(reportQueue, [op |-> op, id |-> 0]))
      BY <3>1, <3>3, AppendReport
    <3>5. QED
      BY <2>2, <3>1, <3>2, <3>4 DEF DataDue
  <2>4. CASE TickEnds
    <3>1. phase = "reports" /\ UNCHANGED reportQueue
      BY <2>4 DEF TickEnds, FrontTurn, TriggerAccepted, TriggerRefused, TriggerStopScanDone,
         PopDone, NothingToDo, returns
    <3>2. QED
      BY <2>2, <3>1 DEF QueueInv, WaitingInv, ReportsInPhase, DataDue
  <2>5. ~TickBegins
    BY <2>2 DEF TickBegins, ProcessAsync
  <2>6. ASSUME EventsDelivered \/ ReportRuns PROVE phase # "app"
    BY <2>6 DEF EventsDelivered, Deliver, DeviceDiscovered, Answer, answers, ScanEnded,
       DeviceConnected, DeviceDisconnected, ReadAnswered, WriteAnswered, TakeReports, ReportRuns,
       RunReport, DiscoverServicesStep, DiscoverCharacteristicsStep, ConnectedStep, DataStep,
       UserStep, NullStep, runs
  <2>7. QED
    BY <1>3, <2>2, <2>3, <2>4, <2>5, <2>6, InsideATick DEF GoesOn
<1>4. QED
  BY <1>1, <1>2, <1>3, ShutdownSteps

\* shutdown()'s disconnection is not removed before its report.
LEMMA CloserStays ==
  ASSUME QueueInv, closer \in Ids, place = 1, asyncActions # <<>>, isDone(front),
         front.op = "disconnect"
  PROVE  outcome[closer] # <<>>
<1>1. /\ asyncActions \in Seq(Actions) /\ nextId \in Int /\ closer \in Int
      /\ 1 \in DOMAIN asyncActions /\ Len(asyncActions) \in Nat
  BY BLECentralAssumption DEF QueueInv, TypeOK, Ids
<1>2. front.id = nextId - Len(asyncActions) + 1 - 1
  BY <1>1 DEF QueueInv, QueueMatches, front
<1>3. front.id = closer
  BY <1>1, <1>2 DEF place, first
<1>4. ~DataDue(reportQueue) /\ ~DataDue(draining)
  BY DEF QueueInv, WaitingInv, ReportsBelong, AllBelong, Belongs, DataDue, OwnReports
<1>5. QED
  BY <1>3, <1>4 DEF QueueInv, WaitingInv, DoneIsReported

\* A step of the program while shutdown() waits brings the turn of its
\* disconnection nearer, or belongs to a tick that has not ended, or to one
\* that found the first action running.
LEMMA TurnComesNearer ==
  ASSUME TypeInv, TypeInv', QueueInv, ClosersTurnComes, GoesOn,
         stage = "waiting", ~adaptCloseCalled
  PROVE  ClosersTurnComes'
<1> DEFINE Bound == 2 * (ahead + 1) + busy
<1>1. /\ asyncActions \in Seq(Actions) /\ nextId \in Int /\ Len(asyncActions) \in Nat
      /\ asyncActions' \in Seq(Actions) /\ nextId' \in Int /\ Len(asyncActions') \in Nat
  BY BLECentralAssumption DEF TypeInv, TypeOK
<1>2. /\ waitLoopCount \in Nat /\ busy \in Nat /\ ahead \in Nat
      /\ waitLoopCount' \in Nat /\ busy' \in Nat
  BY ShutdownAssumption, BLECentralAssumption DEF TypeInv, ShutdownTypeOK
<1>3. /\ goesOn /\ [Next]_vars
      /\ UNCHANGED <<stage, outer, closer, adaptCloseCalled, ahead>>
  BY GoesOnIsStep
<1>4. /\ closer \in Ids /\ place \in DOMAIN asyncActions
      /\ asyncActions[place].op = "disconnect"
      /\ waitLoopCount + ticksNeeded <= Bound + inTick
  BY DEF ClosersTurnComes
<1>5. closer \in Int /\ closer # 0 /\ first \in Int /\ first' \in Int
      /\ asyncActions # <<>> /\ place \in 1..Len(asyncActions)
  BY <1>1, <1>4 DEF Ids, first
<1>6. outcome[closer] = <<>>
  BY <1>3, <1>5 DEF goesOn, doneCbDue
<1>7. /\ started \in 0..1 /\ started' \in 0..1 /\ inTick \in 0..1 /\ inTick' \in 0..1
  BY DEF started, inTick
<1>8. SUFFICES /\ place' \in DOMAIN asyncActions' /\ asyncActions'[place'].op = "disconnect"
               /\ waitLoopCount' + ticksNeeded' <= Bound' + inTick'
  BY <1>3, <1>4 DEF ClosersTurnComes
<1>9. CASE PopDone
  <2>1. /\ asyncActions' = Tail(asyncActions) /\ nextId' = nextId /\ isDone(front)
        /\ phase = "reports" /\ phase' = "app"
    BY <1>9 DEF PopDone, returns
  <2>2. Len(asyncActions') = Len(asyncActions) - 1
        /\ \A k \in 1..Len(asyncActions') : asyncActions'[k] = asyncActions[k + 1]
    BY <1>1, <1>5, <2>1
  <2>3. place' = place - 1
    BY <1>1, <1>3, <1>5, <2>1, <2>2 DEF place, first
  <2>4. place # 1
    BY <1>4, <1>5, <1>6, <2>1, CloserStays DEF front
  <2>5. place' \in 1..Len(asyncActions') /\ place' \in DOMAIN asyncActions'
    BY <1>1, <1>5, <2>2, <2>3, <2>4
  <2>6. asyncActions'[place'].op = "disconnect"
    BY <1>1, <1>4, <1>5, <2>2, <2>3, <2>5
  <2>7. ~(RequestMade \/ EventsDelivered \/ ReportRuns \/ TickBegins)
    BY <2>1, InsideATick DEF TickBegins, ProcessAsync
  <2>8. waitLoopCount' = waitLoopCount /\ (busy' = busy \/ busy' = busy + 1)
    BY <2>7 DEF GoesOn, TickEnds
  <2>9. started = 1 /\ inTick = 1 /\ inTick' = 0
    BY <1>5, <2>1 DEF started, isPending, isDone, inTick
  <2>10. ticksNeeded = 2 * place - 1 /\ ticksNeeded' = 2 * (place - 1) - started'
    BY <2>3, <2>9 DEF ticksNeeded
  <2>11. Bound' = 2 * (ahead + 1) + busy' /\ place \in Int /\ started' \in 0..1
    BY <1>3, <1>5, <1>7
  <2>12. waitLoopCount' + ticksNeeded' <= Bound' + inTick'
    BY <1>2, <1>4, <2>8, <2>9, <2>10, <2>11
  <2>13. QED
    BY <2>5, <2>6, <2>12
<1>10. CASE /\ first' = first /\ Len(asyncActions) <= Len(asyncActions')
            /\ \A k \in DOMAIN asyncActions : asyncActions'[k].op = asyncActions[k].op
            /\ asyncActions # <<>> /\ ~isPending(front) => ~isPending(front')
  <2>1. place' = place /\ place' \in DOMAIN asyncActions'
    BY <1>1, <1>3, <1>5, <1>10 DEF place
  <2>2. asyncActions'[place'].op = "disconnect"
    BY <1>4, <1>10, <2>1
  <2>3. started' >= started /\ asyncActions' # <<>>
    BY <1>1, <1>5, <1>10 DEF started
  <2>4. PICK p, s, s2, a, x, x2, w, w2, i, i2 \in Int :
          /\ p = place /\ s = started /\ s2 = started' /\ a = ahead /\ x = busy /\ x2 = busy'
          /\ w = waitLoopCount /\ w2 = waitLoopCount' /\ i = inTick /\ i2 = inTick'
    BY <1>2, <1>5, <1>7
  <2>5. w + (2 * p - s) <= 2 * (a + 1) + x + i
    <3>1. ticksNeeded = 2 * p - s /\ Bound = 2 * (a + 1) + x
      BY <2>4 DEF ticksNeeded
    <3>2. QED
      BY <1>4, <2>4, <3>1
  <2>6. SUFFICES w2 + (2 * p - s2) <= 2 * (a + 1) + x2 + i2
    <3>1. ticksNeeded' = 2 * p - s2 /\ Bound' = 2 * (a + 1) + x2
      BY <1>3, <2>1, <2>4 DEF ticksNeeded
    <3>2. QED
      BY <2>1, <2>2, <2>4, <3>1
  <2>7. s <= s2
    BY <2>3, <2>4
  <2>8. CASE RequestMade \/ EventsDelivered \/ ReportRuns
    <3>1. UNCHANGED <<waitLoopCount, busy>>
      BY <2>8 DEF RequestMade, EventsDelivered, ReportRuns, shutdownOnly
    <3>2. inTick' = inTick
      BY <2>8, InsideATick DEF inTick
    <3>3. w2 = w /\ x2 = x /\ i2 = i
      BY <2>4, <3>1, <3>2
    <3>4. QED
      BY <2>5, <2>7, <3>3
  <2>9. CASE TickBegins
    <3>1. /\ waitLoopCount' = waitLoopCount + 1 /\ UNCHANGED busy
          /\ phase = "app" /\ phase' = "events"
      BY <2>9 DEF TickBegins, ProcessAsync
    <3>2. inTick = 0 /\ inTick' = 1
      BY <3>1 DEF inTick
    <3>3. w2 = w + 1 /\ x2 = x /\ i = 0 /\ i2 = 1
      BY <2>4, <3>1, <3>2
    <3>4. QED
      BY <2>5, <2>7, <3>3
  <2>10. CASE TickEnds
    <3>1. /\ waitLoopCount' = waitLoopCount /\ (busy' = busy \/ busy' = busy + 1)
          /\ NothingToDo => busy' = busy + 1
      BY <1>5, <2>10 DEF TickEnds
    <3>2. phase = "reports" /\ phase' = "app" /\ FrontTurn
      BY <2>10 DEF TickEnds, FrontTurn, TriggerAccepted, TriggerRefused, TriggerStopScanDone,
         PopDone, NothingToDo, returns
    <3>3. inTick = 1 /\ inTick' = 0
      BY <3>2 DEF inTick
    <3>4. w2 = w /\ i = 1 /\ i2 = 0 /\ (x2 = x \/ x2 = x + 1) /\ (NothingToDo => x2 = x + 1)
      BY <2>4, <3>1, <3>3
    <3>5. CASE NothingToDo
      <4>1. x2 = x + 1
        BY <3>4, <3>5
      <4>2. QED
        BY <2>5, <2>7, <3>4, <4>1
    <3>6. CASE TriggerAccepted \/ TriggerRefused \/ TriggerStopScanDone
      <4>1. isPending(front) /\ \E state \in {"Triggered", "Completed"} : asyncActions' = withState(state)
        BY <3>6 DEF TriggerAccepted, TriggerRefused, TriggerStopScanDone, completedWith
      <4>2. PICK state \in {"Triggered", "Completed"} : asyncActions' = withState(state)
        BY <4>1
      <4>3. asyncActions'[1] = [front EXCEPT !.state = state] /\ front \in Actions
        BY <1>1, <1>5, <4>2, WithStateLemma, FrontLemma
      <4>4. ~isPending(front')
        BY <4>3 DEF front, isPending, Actions
      <4>5. started = 0 /\ started' = 1
        BY <2>3, <4>1, <4>4 DEF started
      <4>6. s = 0 /\ s2 = 1
        BY <2>4, <4>5
      <4>7. QED
        BY <2>5, <3>4, <4>6
    <3>7. ~PopDone
      BY <1>1, <1>5, <1>10 DEF PopDone
    <3>8. QED
      BY <3>2, <3>5, <3>6, <3>7 DEF FrontTurn
  <2>11. QED
    BY <2>8, <2>9, <2>10 DEF GoesOn
<1>11. TypeOK
  BY DEF TypeInv
<1>12. QED
  BY <1>3, <1>9, <1>10, <1>11, QueueMoves

\* The count of ticks is right as long as the turn comes.
LEMMA TurnInTime ==
  ASSUME TypeInv, ClosersTurnComes, stage = "waiting", ~adaptCloseCalled
  PROVE  WaitsForRunningOnly
<1>1. /\ closer \in Int /\ first \in Int /\ place \in Nat \ {0}
      /\ waitLoopCount + ticksNeeded <= 2 * (ahead + 1) + busy + inTick
  BY BLECentralAssumption DEF ClosersTurnComes, TypeInv, TypeOK, first, Ids
<1>2. waitLoopCount \in Nat /\ busy \in Nat /\ ahead \in Nat
  BY ShutdownAssumption, BLECentralAssumption DEF TypeInv, ShutdownTypeOK
<1>3. started \in 0..1 /\ inTick \in 0..1
  BY DEF started, inTick
<1>4. ticksNeeded \in Nat \ {0}
  BY <1>1, <1>3 DEF ticksNeeded
<1>5. QED
  BY <1>1, <1>2, <1>3, <1>4 DEF WaitsForRunningOnly

LEMMA WaitStep ==
  ASSUME NoTimedCancel, InterruptsNoReport, WaitInv, [ShutdownNext]_shutdownVars
  PROVE  WaitInv'
<1>1. /\ TypeInv /\ QueueInv /\ Interrupted /\ ClosersTurnComes /\ WaitsForRunningOnly
  BY TurnInTime DEF WaitInv
<1>2. TypeInv'
  BY <1>1, TypeInvStep
<1>3. QueueInv' /\ Interrupted'
  BY <1>1, <1>2, QueueKept, InterruptedStep
<1>4. /\ waitLoopCount \in Nat /\ busy \in Nat /\ ahead \in Nat
      /\ waitLoopCount' \in Nat /\ busy' \in Nat /\ ahead' \in Nat
  BY <1>1, <1>2, ShutdownAssumption, BLECentralAssumption DEF TypeInv, ShutdownTypeOK
<1>5. CASE ShutdownAtOnce \/ ShutdownRefused \/ DoneCb \/ ShutdownReturns \/ UNCHANGED shutdownVars
  <2>1. UNCHANGED <<waitLoopCount, ahead, busy>>
    BY <1>5 DEF ShutdownAtOnce, ShutdownRefused, DoneCb, ShutdownReturns, shutdownVars, shutdownOnly
  <2>2. WaitsForRunningOnly'
    BY <1>1, <2>1 DEF WaitsForRunningOnly
  <2>3. CASE UNCHANGED shutdownVars
    <3>1. UNCHANGED <<phase, asyncActions, nextId, stage, closer, adaptCloseCalled>>
      BY <2>3 DEF shutdownVars, shutdownOnly, vars
    <3>2. ClosersTurnComes'
      BY <1>1, <2>1, <3>1 DEF ClosersTurnComes, ticksNeeded, started, inTick, place, first, front
    <3>3. QED
      BY <1>2, <1>3, <2>2, <3>2 DEF WaitInv
  <2>4. CASE ShutdownAtOnce \/ ShutdownRefused \/ DoneCb \/ ShutdownReturns
    <3>1. ClosersTurnComes'
      BY <2>4 DEF ShutdownAtOnce, ShutdownRefused, DoneCb, ShutdownReturns, ClosersTurnComes
    <3>2. QED
      BY <1>2, <1>3, <2>2, <3>1 DEF WaitInv
  <2>5. QED
    BY <1>5, <2>3, <2>4
<1>6. CASE ShutdownDisconnects
  <2>1. /\ closer' = nextId /\ ahead' = Len(asyncActions) /\ stage' = "waiting" /\ phase' = "app"
        /\ waitLoopCount' = 0 /\ busy' = 0 /\ ~adaptCloseCalled'
    BY <1>1, <1>6 DEF ShutdownDisconnects, MayShutdown, TypeInv
  <2>2. /\ asyncActions' \in Seq(Actions) /\ Len(asyncActions') = Len(asyncActions) + 1
        /\ nextId \in Ids /\ nextId' = nextId + 1
        /\ asyncActions'[Len(asyncActions) + 1].op = "disconnect"
    BY <1>1, <1>6, DisconnectQueued
  <2>3. Len(asyncActions) \in Nat /\ nextId \in Int
    BY <1>1, <2>2 DEF TypeInv, TypeOK, Ids
  <2>4. place' = Len(asyncActions) + 1
    BY <2>1, <2>2, <2>3 DEF place, first
  <2>5. started' \in 0..1 /\ inTick' = 0
    BY <2>1 DEF started, inTick
  <2>6. ClosersTurnComes'
    BY <2>1, <2>2, <2>3, <2>4, <2>5 DEF ClosersTurnComes, ticksNeeded
  <2>7. WaitsForRunningOnly'
    BY <2>1, <2>3 DEF WaitsForRunningOnly
  <2>8. QED
    BY <1>2, <1>3, <2>6, <2>7 DEF WaitInv
<1>7. CASE GoesOn
  <2>1. goesOn /\ UNCHANGED <<stage, closer, adaptCloseCalled, ahead>>
    BY <1>7, GoesOnIsStep
  <2>2. CASE stage = "waiting" /\ ~adaptCloseCalled
    <3>1. ClosersTurnComes'
      BY <1>1, <1>2, <1>7, <2>2, TurnComesNearer
    <3>2. stage' = "waiting" /\ ~adaptCloseCalled'
      BY <2>1, <2>2
    <3>3. QED
      BY <1>2, <1>3, <3>1, <3>2 DEF WaitInv
  <2>3. CASE stage = "waiting" /\ adaptCloseCalled
    <3>1. waitLoopCount' = waitLoopCount /\ (busy' = busy \/ busy' = busy + 1)
      BY <1>7, <2>3 DEF GoesOn, RequestMade, TickBegins, waitsOn, EventsDelivered, ReportRuns,
         TickEnds, shutdownOnly
    <3>2. waitLoopCount <= 2 * (ahead + 1) + busy /\ ahead' = ahead
      BY <1>1, <2>1 DEF WaitsForRunningOnly
    <3>3. \A w, a, b \in Nat : w <= 2 * (a + 1) + b => w <= 2 * (a + 1) + (b + 1)
      OBVIOUS
    <3>4. WaitsForRunningOnly'
      BY <1>4, <3>1, <3>2, <3>3 DEF WaitsForRunningOnly
    <3>5. ClosersTurnComes'
      BY <2>1, <2>3 DEF ClosersTurnComes
    <3>6. QED
      BY <1>2, <1>3, <3>4, <3>5 DEF WaitInv
  <2>4. CASE stage # "waiting"
    <3>1. UNCHANGED <<waitLoopCount, busy, ahead, stage>>
      BY <1>7, <2>1, <2>4 DEF GoesOn, RequestMade, TickBegins, EventsDelivered, ReportRuns,
         TickEnds, shutdownOnly
    <3>2. WaitsForRunningOnly'
      BY <1>1, <3>1 DEF WaitsForRunningOnly
    <3>3. ClosersTurnComes'
      BY <2>4, <3>1 DEF ClosersTurnComes
    <3>4. QED
      BY <1>2, <1>3, <3>2, <3>3 DEF WaitInv
  <2>5. QED
    BY <2>2, <2>3, <2>4
<1>8. QED
  BY <1>5, <1>6, <1>7, ShutdownSteps

LEMMA WaitInvariant == NoTimedCancel /\ InterruptsNoReport => (ShutdownSpec => []WaitInv)
<1> SUFFICES ASSUME NoTimedCancel, InterruptsNoReport PROVE ShutdownSpec => []WaitInv
  OBVIOUS
<1>1. ShutdownInit => WaitInv
  <2> SUFFICES ASSUME ShutdownInit PROVE WaitInv
    OBVIOUS
  <2>1. TypeInv /\ QueueInv
    BY TypeInvInit, QueueInit, BLECentralAssumption DEF ShutdownInit
  <2>2. stage = "no" /\ waitLoopCount = 0 /\ ahead = 0 /\ busy = 0
    BY DEF ShutdownInit
  <2>3. Interrupted
    BY DEF ShutdownInit, Interrupted, NoOwnReport
  <2>4. QED
    BY <2>1, <2>2, <2>3 DEF WaitInv, ClosersTurnComes, WaitsForRunningOnly
<1>2. WaitInv /\ [ShutdownNext]_shutdownVars => WaitInv'
  BY WaitStep
<1>3. QED
  BY <1>1, <1>2, PTL DEF ShutdownSpec

\* shutdown() waits no longer than it takes to start and remove what was in the
\* queue when it was called, but for the ticks that found the first action
\* running: no callback that runs meanwhile gets in front of its disconnection.
THEOREM WaitsNoLonger ==
  NoTimedCancel /\ InterruptsNoReport => (ShutdownSpec => []WaitsForRunningOnly)
<1>1. WaitInv => WaitsForRunningOnly
  BY TurnInTime DEF WaitInv
<1>2. QED
  BY <1>1, WaitInvariant, PTL

-----------------------------------------------------------------------------
(* The place of shutdown()'s disconnection                                 *)

\* The first action has the first number; it is the disconnection only as one.
LEMMA FrontIsFirst ==
  ASSUME TypeInv, QueueInv, asyncActions # <<>>
  PROVE  /\ front \in Actions /\ front = asyncActions[1] /\ front.id = first
         /\ CloserQueued /\ closer # 0 /\ front.id = closer => front.op = "disconnect"
<1>1. /\ asyncActions \in Seq(Actions) /\ nextId \in Int /\ Len(asyncActions) \in Nat
      /\ 1 \in DOMAIN asyncActions /\ closer \in Int
  BY BLECentralAssumption DEF TypeInv, TypeOK, ShutdownTypeOK, Ids
<1>2. front \in Actions /\ front = asyncActions[1]
  BY <1>1 DEF front
<1>3. front.id = nextId - Len(asyncActions) + 1 - 1
  BY <1>1, <1>2 DEF QueueInv, QueueMatches
<1>4. front.id = first
  BY <1>1, <1>3 DEF first
<1>5. front.id = closer => place = 1
  BY <1>1, <1>4 DEF place, first
<1>6. QED
  BY <1>1, <1>2, <1>4, <1>5 DEF CloserQueued

\* A disconnection that was reported and is in the queue is its first action.
LEMMA ReportedIsFront ==
  ASSUME TypeInv, QueueInv, CloserQueued, closer # 0, ~(closer < first), outcome[closer] # <<>>
  PROVE  asyncActions # <<>> /\ isDone(front) /\ front.id = closer
<1>1. /\ asyncActions \in Seq(Actions) /\ nextId \in Int /\ Len(asyncActions) \in Nat
      /\ closer \in Int /\ closer \in Ids /\ closer < nextId
  BY BLECentralAssumption DEF TypeInv, TypeOK, ShutdownTypeOK, Ids, CloserQueued
<1>2. place \in 1..Len(asyncActions) /\ place \in DOMAIN asyncActions
  BY <1>1 DEF place, first
<1>3. asyncActions[place].id = nextId - Len(asyncActions) + place - 1
  BY <1>2 DEF QueueInv, QueueMatches
<1>4. asyncActions[place].id = closer
  <2>1. nextId - Len(asyncActions) + place - 1 = closer
    BY <1>1 DEF place, first
  <2>2. QED
    BY <1>3, <2>1
<1>5. isDone(asyncActions[place])
  BY <1>2, <1>4 DEF QueueInv, QueueMatches
<1>6. place = 1
  <2>1. ~(place > 1)
    BY <1>2, <1>5 DEF QueueInv, QueueMatches, isPending, isDone
  <2>2. QED
    BY <1>1, <1>2, <2>1
<1>7. QED
  BY <1>1, <1>2, <1>4, <1>5, <1>6 DEF front

LEMMA CloserQueuedStep ==
  ASSUME WaitInv, WaitInv', CloserQueued, [ShutdownNext]_shutdownVars
  PROVE  CloserQueued'
<1>1. TypeInv /\ TypeInv' /\ QueueInv
  BY DEF WaitInv
<1>2. /\ asyncActions \in Seq(Actions) /\ nextId \in Int /\ Len(asyncActions) \in Nat
      /\ asyncActions' \in Seq(Actions) /\ nextId' \in Int /\ Len(asyncActions') \in Nat
      /\ closer \in Int
  BY <1>1, BLECentralAssumption DEF TypeInv, TypeOK, ShutdownTypeOK, Ids
<1>3. CASE ShutdownDisconnects
  <2>1. stage' = "waiting" /\ ~adaptCloseCalled' /\ closer' = nextId /\ nextId' = nextId + 1
    BY <1>1, <1>3, DisconnectQueued DEF ShutdownDisconnects, MayShutdown, TypeInv
  <2>2. place' \in DOMAIN asyncActions' /\ asyncActions'[place'].op = "disconnect"
    BY <2>1 DEF WaitInv, ClosersTurnComes
  <2>3. QED
    BY <1>2, <2>1, <2>2 DEF CloserQueued
<1>4. CASE GoesOn
  <2>1. [Next]_vars /\ closer' = closer
    BY <1>4, GoesOnIsStep
  <2>2. SUFFICES ASSUME closer # 0
                 PROVE  /\ closer < nextId'
                        /\ place' \in DOMAIN asyncActions' => asyncActions'[place'].op = "disconnect"
    BY <2>1 DEF CloserQueued
  <2>3. closer < nextId /\ (place \in DOMAIN asyncActions => asyncActions[place].op = "disconnect")
    BY <2>2 DEF CloserQueued
  <2>4. CASE PopDone
    <3>1. asyncActions # <<>> /\ asyncActions' = Tail(asyncActions) /\ nextId' = nextId
      BY <2>4 DEF PopDone, returns
    <3>2. Len(asyncActions') = Len(asyncActions) - 1
          /\ \A k \in 1..Len(asyncActions') : asyncActions'[k] = asyncActions[k + 1]
      BY <1>2, <3>1
    <3>3. place' = place - 1 /\ place \in Int
      BY <1>2, <2>1, <3>1, <3>2 DEF place, first
    <3>4. ASSUME place' \in DOMAIN asyncActions' PROVE asyncActions'[place'].op = "disconnect"
      <4>1. place' \in 1..Len(asyncActions')
        BY <1>2, <3>4
      <4>2. place \in DOMAIN asyncActions /\ asyncActions'[place'] = asyncActions[place]
        BY <1>2, <3>2, <3>3, <4>1
      <4>3. QED
        BY <2>3, <4>2
    <3>5. QED
      BY <2>3, <3>1, <3>4
  <2>5. CASE /\ first' = first /\ Len(asyncActions) <= Len(asyncActions')
             /\ \A k \in DOMAIN asyncActions : asyncActions'[k].op = asyncActions[k].op
    <3>1. place' = place /\ place \in Int /\ nextId <= nextId'
      BY <1>2, <2>1, <2>5 DEF place, first
    <3>2. place' \in DOMAIN asyncActions' => place \in DOMAIN asyncActions
      BY <1>2, <2>3, <3>1 DEF place, first
    <3>3. QED
      BY <1>2, <2>3, <2>5, <3>1, <3>2
  <2>6. QED
    BY <1>1, <2>1, <2>4, <2>5, QueueMoves DEF TypeInv
<1>5. CASE \/ ShutdownAtOnce \/ ShutdownRefused \/ DoneCb \/ ShutdownReturns
           \/ UNCHANGED shutdownVars
  <2>1. UNCHANGED <<closer, asyncActions, nextId>>
    BY <1>5 DEF ShutdownAtOnce, ShutdownRefused, DoneCb, ShutdownReturns, shutdownVars,
       shutdownOnly, vars
  <2>2. QED
    BY <2>1 DEF CloserQueued, place, first
<1>6. QED
  BY <1>3, <1>4, <1>5, ShutdownSteps

-----------------------------------------------------------------------------
(* Once it has been reported                                               *)

\* No report is taken back.
LEMMA ReportsStay ==
  ASSUME TypeOK, [Next]_vars, NEW i \in Ids, outcome[i] # <<>>
  PROVE  outcome'[i] # <<>>
<1>1. outcome \in [Ids -> Seq(Results)]
  BY DEF TypeOK, Results
<1>2. ASSUME NEW id, NEW result \in Results, reportTo(id, result) PROVE outcome'[i] # <<>>
  <2>1. outcome'[i] = IF i = id THEN Append(outcome[i], result) ELSE outcome[i]
    BY <1>1, <1>2 DEF reportTo
  <2>2. outcome[i] \in Seq(Results)
    BY <1>1
  <2>3. Append(outcome[i], result) # <<>>
    BY <2>2
  <2>4. QED
    BY <2>1, <2>3
<1>3. ASSUME NEW result \in {"ok", "fail"}, completedWith(result) PROVE outcome'[i] # <<>>
  BY <1>2, <1>3 DEF completedWith, Results
<1>4. ASSUME NEW result \in {"ok", "fail"}, currentOp(result) PROVE outcome'[i] # <<>>
  BY <1>3, <1>4 DEF currentOp
<1>5. CASE Request
  <2>1. UNCHANGED outcome \/ reportTo(front.id, "cancelled")
    BY <1>5 DEF Request, AdapterOpen, AdapterClose, SetAutoDiscoverOnConnect, Enable, Scan,
       StopScan, Connect, Disconnect, Read, Write, UseConnection
  <2>2. QED
    BY <1>2, <2>1 DEF Results
<1>6. CASE Deliver
  <2>1. PICK g \in gattlib : DeviceDiscovered(g) \/ Answer(g)
    BY <1>6 DEF Deliver
  <2>2. UNCHANGED outcome \/ \E result \in {"ok", "fail"} : currentOp(result)
    BY <2>1 DEF DeviceDiscovered, Answer, ScanEnded, DeviceConnected, connectResult,
       DeviceDisconnected, ReadAnswered, readDataReceived, WriteAnswered
  <2>3. QED
    BY <1>4, <2>2
<1>7. CASE RunReport
  <2>1. UNCHANGED outcome \/ currentOp("ok") \/ \E id : reportTo(id, "ok")
    BY <1>7 DEF RunReport, DiscoverServicesStep, DiscoverCharacteristicsStep, ConnectedStep,
       DataStep, UserStep, NullStep
  <2>2. QED
    BY <1>2, <1>4, <2>1 DEF Results
<1>8. CASE FrontTurn
  <2>1. UNCHANGED outcome \/ completedWith("ok") \/ completedWith("fail")
    BY <1>8 DEF FrontTurn, TriggerAccepted, TriggerRefused, TriggerStopScanDone, PopDone, NothingToDo
  <2>2. QED
    BY <1>3, <2>1
<1>9. CASE ProcessAsync \/ TakeReports \/ UNCHANGED vars
  BY <1>9 DEF ProcessAsync, TakeReports, vars
<1>10. QED
  BY <1>5, <1>6, <1>7, <1>8, <1>9 DEF Next, Tick

\* While no action is running nothing in the queue is concluded, and no
\* connection is made or lost, until the end of the tick.
LEMMA NothingAnswered ==
  ASSUME QueueInv, asyncActions # <<>> => ~isRunning(front), Deliver \/ TakeReports \/ RunReport
  PROVE  UNCHANGED <<asyncActions, connection, gattlib>>
<1>1. CASE Deliver
  <2>1. PICK g \in gattlib : DeviceDiscovered(g) \/ Answer(g)
    BY <1>1 DEF Deliver
  <2>2. ~Answer(g)
    <3>1. SUFFICES ASSUME Answer(g) PROVE FALSE
      OBVIOUS
    <3>2. g.op # "startScan" /\ answers(g)
      BY <3>1 DEF Answer, ScanEnded, DeviceConnected, DeviceDisconnected, ReadAnswered, WriteAnswered
    <3>3. QED
      BY <3>2, AnswerFinds
  <2>3. QED
    BY <2>1, <2>2 DEF DeviceDiscovered, central
<1>2. CASE TakeReports
  BY <1>2 DEF TakeReports, central
<1>3. CASE RunReport
  <2>1. draining # <<>> /\ draining \in Seq(Reports) /\ UNCHANGED <<connection, gattlib>>
    BY <1>3 DEF RunReport, DiscoverServicesStep, DiscoverCharacteristicsStep, ConnectedStep,
       DataStep, UserStep, NullStep, runs, central, QueueInv, TypeOK
  <2>2. Head(draining) = draining[1] /\ 1 \in DOMAIN draining
    BY <2>1
  <2>3. Head(draining).op # "connected"
    BY <2>2 DEF QueueInv, WaitingInv, ReportsBelong, AllBelong, Belongs, OwnReports, ConnectSteps
  <2>4. QED
    BY <1>3, <2>1, <2>3 DEF RunReport, DiscoverServicesStep, DiscoverCharacteristicsStep,
       ConnectedStep, DataStep, UserStep, NullStep, runs
<1>4. QED
  BY <1>1, <1>2, <1>3

\* Requests start nothing: they queue an action behind the others, or cut short
\* a scan that is running.
LEMMA RequestBehind ==
  ASSUME Request
  PROVE  /\ UNCHANGED <<connection, gattlib>>
         /\ \/ asyncActions # <<>> /\ isRunning(front) /\ front.op \in ScanOps
            \/ UNCHANGED <<asyncActions, outcome>>
            \/ /\ UNCHANGED outcome
               /\ \E op, d : asyncActions' =
                    Append(asyncActions, [id |-> nextId, op |-> op, dev |-> d, state |-> "Pending"])
BY DEF Request, AdapterOpen, AdapterClose, SetAutoDiscoverOnConnect, Enable, Scan, StopScan,
   scanRuns, Connect, Disconnect, Read, Write, UseConnection, queueAsyncAction

\* The disconnection is found a success by gattlib's answer to it alone.
LEMMA SuccessIsAnswered ==
  ASSUME TypeInv, QueueInv, CloserQueued, closer \in Ids, GoesOn,
         outcome[closer] # <<"ok">>, outcome'[closer] = <<"ok">>
  PROVE  \E g \in gattlib : DeviceDisconnected(g)
<1>1. TypeOK /\ closer # 0
  BY DEF QueueInv, Ids
<1>2. asyncActions # <<>> /\ front.id = closer => front.op = "disconnect"
  BY <1>1, FrontIsFirst
<1>3. ASSUME NEW result \in {"ok", "fail", "cancelled"}, NEW id, reportTo(id, result)
      PROVE  id = closer
  BY <1>1, <1>3, ReportToLemma
<1>4. ASSUME NEW result \in {"ok", "fail"}, asyncActions # <<>>, completedWith(result)
      PROVE  front.op = "disconnect"
  BY <1>2, <1>3, <1>4 DEF completedWith
<1>5. ASSUME NEW result \in {"ok", "fail"}, currentOp(result)
      PROVE  asyncActions # <<>> /\ front.op = "disconnect"
  BY <1>4, <1>5 DEF currentOp
<1>6. CASE RequestMade
  <2>1. UNCHANGED outcome \/ (reportTo(front.id, "cancelled") /\ scanRuns)
    BY <1>6 DEF RequestMade, Request, AdapterOpen, AdapterClose, SetAutoDiscoverOnConnect, Enable,
       Scan, StopScan, Connect, Disconnect, Read, Write, UseConnection
  <2>2. QED
    BY <1>2, <1>3, <2>1 DEF scanRuns, ScanOps
<1>7. CASE Deliver
  <2>1. PICK g \in gattlib : DeviceDiscovered(g) \/ Answer(g)
    BY <1>7 DEF Deliver
  <2>2. CASE DeviceDiscovered(g)
    BY <2>2 DEF DeviceDiscovered
  <2>3. CASE Answer(g)
    <3>1. g.op # "startScan" /\ answers(g)
      BY <2>3 DEF Answer, ScanEnded, DeviceConnected, DeviceDisconnected, ReadAnswered, WriteAnswered
    <3>2. g.op = front.op
      BY <3>1, AnswerFinds
    <3>3. UNCHANGED outcome \/ \E result \in {"ok", "fail"} : currentOp(result)
      BY <2>3 DEF Answer, ScanEnded, DeviceConnected, connectResult, DeviceDisconnected,
         ReadAnswered, readDataReceived, WriteAnswered
    <3>4. g.op = "disconnect"
      BY <1>5, <3>2, <3>3
    <3>5. DeviceDisconnected(g)
      BY <2>3, <3>4 DEF Answer, ScanEnded, DeviceConnected, ReadAnswered, WriteAnswered
    <3>6. QED
      BY <3>5
  <2>4. QED
    BY <2>1, <2>2, <2>3
<1>8. CASE RunReport
  <2>1. draining # <<>> /\ draining \in Seq(Reports)
    BY <1>1, <1>8 DEF RunReport, DiscoverServicesStep, DiscoverCharacteristicsStep, ConnectedStep,
       DataStep, UserStep, NullStep, runs, TypeOK
  <2>2. Head(draining) = draining[1] /\ 1 \in DOMAIN draining
    BY <2>1
  <2>3. Head(draining).op \in OwnReports => Belongs(Head(draining))
    BY <2>2 DEF QueueInv, WaitingInv, ReportsBelong, AllBelong
  <2>4. ~ConnectedStep
    BY <1>5, <2>3 DEF ConnectedStep, runs, Belongs, OwnReports, ConnectSteps
  <2>5. ~DataStep
    BY <1>2, <1>3, <2>3 DEF DataStep, runs, Belongs, OwnReports, ConnectSteps
  <2>6. QED
    BY <1>8, <2>4, <2>5 DEF RunReport, DiscoverServicesStep, DiscoverCharacteristicsStep, UserStep, NullStep
<1>9. CASE FrontTurn
  <2>1. ~TriggerStopScanDone
    BY <1>4 DEF TriggerStopScanDone
  <2>2. ~TriggerRefused
    <3>1. SUFFICES ASSUME TriggerRefused PROVE FALSE
      OBVIOUS
    <3>2. asyncActions # <<>> /\ isPending(front) /\ completedWith("fail") /\ reportTo(front.id, "fail")
      BY <3>1 DEF TriggerRefused, completedWith
    <3>3. front.id = closer /\ front = asyncActions[1] /\ 1 \in DOMAIN asyncActions
      BY <1>1, <1>3, <3>2, FrontIsFirst DEF TypeOK
    <3>4. outcome[closer] = <<>>
      BY <3>2, <3>3 DEF QueueInv, QueueMatches, isPending, isDone
    <3>5. outcome \in [Ids -> Seq(Results)]
      BY <1>1 DEF TypeOK, Results
    <3>6. outcome'[closer] = Append(<<>>, "fail")
      BY <3>2, <3>3, <3>4, <3>5 DEF reportTo
    <3>7. Append(<<>>, "fail") = <<"fail">> /\ <<"fail">> # <<"ok">>
      OBVIOUS
    <3>8. QED
      BY <3>6, <3>7
  <2>3. QED
    BY <1>9, <2>1, <2>2 DEF FrontTurn, TriggerAccepted, PopDone, NothingToDo
<1>10. CASE ProcessAsync \/ TakeReports
  BY <1>10 DEF ProcessAsync, TakeReports
<1>11. QED
  BY <1>6, <1>7, <1>8, <1>9, <1>10
     DEF GoesOn, RequestMade, TickBegins, EventsDelivered, ReportRuns, TickEnds

-----------------------------------------------------------------------------
(* What shutdown() leaves behind                                           *)

\* Once the disconnection is reported the first action is not running, until a
\* tick that goes on has ended, and the program with it.
LEMMA NoneRunning ==
  ASSUME TypeInv, QueueInv, CloserQueued, OnceRemoved, closer # 0, outcome[closer] # <<>>, goesOn
  PROVE  asyncActions # <<>> => ~isRunning(front)
<1>1. CASE closer < first
  BY <1>1 DEF OnceRemoved, goesOn, isPending, isRunning
<1>2. CASE ~(closer < first)
  BY <1>2, ReportedIsFront DEF isDone, isRunning
<1>3. QED
  BY <1>1, <1>2

\* The steps that begin and end ticks, by the phase they need.
LEMMA PhaseOfStep ==
  ASSUME GoesOn
  PROVE  \/ RequestMade /\ (phase' = "app" <=> phase = "app")
         \/ TickBegins /\ phase = "app" /\ UNCHANGED <<central, asyncActions, gattlib, outcome>>
         \/ phase \in {"events", "reports"} /\ (Deliver \/ TakeReports \/ RunReport)
         \/ FrontTurn /\ phase = "reports" /\ phase' = "app" /\ UNCHANGED connection
<1>1. CASE RequestMade
  BY <1>1, InsideATick
<1>2. CASE TickBegins
  BY <1>2 DEF TickBegins, ProcessAsync
<1>3. CASE EventsDelivered
  BY <1>3 DEF EventsDelivered, Deliver, DeviceDiscovered, Answer, answers, ScanEnded,
     DeviceConnected, DeviceDisconnected, ReadAnswered, WriteAnswered, TakeReports
<1>4. CASE ReportRuns
  BY <1>4 DEF ReportRuns, RunReport, DiscoverServicesStep, DiscoverCharacteristicsStep,
     ConnectedStep, DataStep, UserStep, NullStep, runs
<1>5. CASE TickEnds
  BY <1>5 DEF TickEnds, FrontTurn, TriggerAccepted, TriggerRefused, TriggerStopScanDone, PopDone,
     NothingToDo, returns
<1>6. QED
  BY <1>1, <1>2, <1>3, <1>4, <1>5 DEF GoesOn

\* A step that follows the removal leaves the queue as it is, but for what
\* callbacks ask for.
LEMMA StaysRemoved ==
  ASSUME WaitInv, OnceRemoved, closer # 0, closer < first, GoesOn
  PROVE  \/ exited'
         \/ /\ asyncActions' # <<>> => isPending(front')
            /\ hasReturned' \/ (phase' = "app" /\ adaptCloseCalled')
<1>1. /\ TypeInv /\ QueueInv /\ goesOn /\ UNCHANGED <<stage, adaptCloseCalled>>
      /\ asyncActions \in Seq(Actions)
  BY GoesOnIsStep DEF WaitInv, QueueInv, TypeOK
<1>2. /\ asyncActions # <<>> => isPending(front)
      /\ hasReturned \/ (phase = "app" /\ adaptCloseCalled)
      /\ ~exited
  BY <1>1 DEF OnceRemoved, goesOn
<1>3. hasReturned' = hasReturned
  BY <1>1 DEF hasReturned
<1>4. stage # "no"
  BY <1>1 DEF TypeInv
<1>5. CASE RequestMade /\ (phase' = "app" <=> phase = "app")
  <2>1. asyncActions # <<>> => ~isRunning(front)
    BY <1>2 DEF isPending, isRunning
  <2>2. \/ UNCHANGED asyncActions
        \/ \E op, d : asyncActions' =
             Append(asyncActions, [id |-> nextId, op |-> op, dev |-> d, state |-> "Pending"])
    BY <1>5, <2>1, RequestBehind DEF RequestMade
  <2>3. asyncActions' # <<>> => isPending(front')
    <3>1. CASE UNCHANGED asyncActions
      BY <1>2, <3>1 DEF front, isPending
    <3>2. ASSUME NEW op, NEW d, asyncActions' =
             Append(asyncActions, [id |-> nextId, op |-> op, dev |-> d, state |-> "Pending"])
          PROVE  isPending(front')
      BY <1>1, <1>2, <3>2 DEF front, isPending
    <3>3. QED
      BY <2>2, <3>1, <3>2
  <2>4. QED
    BY <1>1, <1>2, <1>3, <1>5, <2>3
<1>6. CASE TickBegins /\ phase = "app"
  <2>1. ~hasReturned /\ adaptCloseCalled
    BY <1>2, <1>6 DEF exited
  <2>2. stage = "waiting"
    BY <1>1, <1>4, <2>1 DEF hasReturned, TypeInv, ShutdownTypeOK
  <2>3. QED
    BY <1>6, <2>1, <2>2 DEF TickBegins, waitsOn
<1>7. CASE phase \in {"events", "reports"} /\ (Deliver \/ TakeReports \/ RunReport)
  <2>1. hasReturned
    BY <1>2, <1>7
  <2>2. UNCHANGED asyncActions
    BY <1>1, <1>2, <1>7, NothingAnswered DEF isPending, isRunning
  <2>3. asyncActions' # <<>> => isPending(front')
    BY <1>2, <2>2 DEF front, isPending
  <2>4. QED
    BY <1>3, <2>1, <2>3
<1>8. CASE phase = "reports" /\ phase' = "app"
  BY <1>2, <1>3, <1>8 DEF exited
<1>9. QED
  BY <1>5, <1>6, <1>7, <1>8, PhaseOfStep

LEMMA OnceRemovedStep ==
  ASSUME WaitInv, WaitInv', CloserQueued, OnceRemoved,
         stage = "waiting" => closer # 0, [ShutdownNext]_shutdownVars
  PROVE  OnceRemoved'
<1>1. TypeInv /\ TypeInv' /\ QueueInv /\ QueueInv'
  BY DEF WaitInv
<1>2. /\ asyncActions \in Seq(Actions) /\ nextId \in Int /\ Len(asyncActions) \in Nat
      /\ asyncActions' \in Seq(Actions) /\ nextId' \in Int /\ Len(asyncActions') \in Nat
      /\ closer \in Ids \cup {0} /\ closer \in Int
  BY <1>1, BLECentralAssumption DEF TypeInv, TypeOK, ShutdownTypeOK, Ids
<1>3. CASE ShutdownAtOnce \/ ShutdownRefused
  BY <1>1, <1>3 DEF ShutdownAtOnce, ShutdownRefused, MayShutdown, TypeInv, OnceRemoved
<1>4. CASE ShutdownDisconnects
  <2>1. closer' = nextId /\ nextId' = nextId + 1 /\ Len(asyncActions') = Len(asyncActions) + 1
    BY <1>1, <1>4, DisconnectQueued DEF ShutdownDisconnects
  <2>2. ~(closer' < first')
    BY <1>2, <2>1 DEF first
  <2>3. QED
    BY <2>2 DEF OnceRemoved
<1>5. CASE DoneCb
  <2>1. /\ UNCHANGED <<stage, closer, asyncActions, nextId>> /\ adaptCloseCalled'
        /\ phase' \in {phase, "crashed"}
    BY <1>5 DEF DoneCb
  <2>2. first' = first /\ front' = front /\ (exited => exited')
    BY <2>1 DEF first, front, exited, hasReturned
  <2>3. QED
    BY <2>1, <2>2 DEF OnceRemoved, exited, hasReturned, isPending
<1>6. CASE ShutdownReturns
  <2>1. /\ UNCHANGED <<closer, asyncActions, nextId>> /\ stage = "waiting" /\ phase = "app"
        /\ stage' \in {"returned", "gaveUp"}
    BY <1>6 DEF ShutdownReturns
  <2>2. first' = first /\ front' = front /\ ~exited /\ hasReturned'
    BY <2>1 DEF first, front, exited, hasReturned
  <2>3. QED
    BY <2>1, <2>2 DEF OnceRemoved, isPending
<1>7. CASE GoesOn
  <2>1. [Next]_vars /\ goesOn /\ UNCHANGED <<stage, closer, adaptCloseCalled>>
    BY <1>7, GoesOnIsStep
  <2>2. SUFFICES ASSUME closer # 0, closer < first'
                 PROVE  \/ exited'
                        \/ /\ asyncActions' # <<>> => isPending(front')
                           /\ hasReturned' \/ (phase' = "app" /\ adaptCloseCalled')
    BY <2>1 DEF OnceRemoved
  <2>3. CASE closer < first
    BY <1>7, <2>2, <2>3, StaysRemoved
  <2>4. CASE ~(closer < first)
    <3>1. PopDone
      BY <1>1, <2>1, <2>2, <2>4, QueueMoves DEF TypeInv
    <3>2. /\ asyncActions # <<>> /\ asyncActions' = Tail(asyncActions) /\ phase' = "app"
          /\ UNCHANGED outcome
      BY <3>1 DEF PopDone, returns
    <3>3. asyncActions' # <<>> => isPending(front')
      <4>1. asyncActions' # <<>> => 2 \in DOMAIN asyncActions /\ asyncActions'[1] = asyncActions[2]
        BY <1>2, <3>2
      <4>2. QED
        BY <1>1, <4>1 DEF QueueInv, QueueMatches, front, isPending
    <3>4. outcome[closer] # <<>>
      <4>1. closer \in Ids /\ closer < nextId' - Len(asyncActions')
        BY <1>2, <2>2 DEF first
      <4>2. QED
        BY <1>1, <3>2, <4>1 DEF QueueInv, QueueMatches
    <3>5. adaptCloseCalled
      BY <2>1, <2>2, <3>4 DEF goesOn, doneCbDue
    <3>6. QED
      BY <2>1, <3>2, <3>3, <3>5
  <2>5. QED
    BY <2>3, <2>4
<1>8. CASE UNCHANGED shutdownVars
  BY <1>8 DEF shutdownVars, shutdownOnly, vars, OnceRemoved, first, front, exited, hasReturned, isPending
<1>9. QED
  BY <1>3, <1>4, <1>5, <1>6, <1>7, <1>8, ShutdownSteps

\* One device at a time: connection and connected_to change together.
LEMMA NamesItStep ==
  ASSUME TypeOK, OneDevice, ConnectedToNamesIt, [Next]_vars
  PROVE  ConnectedToNamesIt'
<1>1. connection \in [Devices -> Devices \cup {None}] /\ connected_to \in Devices \cup {None}
  BY DEF TypeOK
<1>2. CASE Request
  <2>1. UNCHANGED connection
    BY <1>2, RequestBehind
  <2>2. UNCHANGED connected_to \/ \A d \in Devices : connection[d] = None
    BY <1>2 DEF Request, AdapterOpen, AdapterClose, SetAutoDiscoverOnConnect, Enable, Scan,
       StopScan, Connect, isConnected, Disconnect, Read, Write, UseConnection
  <2>3. QED
    BY <2>1, <2>2 DEF ConnectedToNamesIt
<1>3. CASE Deliver
  <2>1. PICK g \in gattlib : DeviceDiscovered(g) \/ Answer(g)
    BY <1>3 DEF Deliver
  <2>2. CASE \E peer \in {g.dev, None} : DeviceConnected(g, peer)
    <3>1. PICK peer \in {g.dev, None} : DeviceConnected(g, peer)
      BY <2>2
    <3>2. /\ UNCHANGED connected_to
          /\ \/ UNCHANGED connection
             \/ connection' = [connection EXCEPT ![connected_to] = peer]
      BY <3>1 DEF DeviceConnected
    <3>3. QED
      BY <1>1, <3>2 DEF ConnectedToNamesIt
  <2>3. CASE DeviceDisconnected(g)
    <3>1. forgetConnection
      BY <2>3 DEF DeviceDisconnected
    <3>2. \A d \in Devices : connection'[d] = None
      BY <1>1, <3>1, BLECentralAssumption DEF forgetConnection, ConnectedToNamesIt
    <3>3. QED
      BY <3>2 DEF ConnectedToNamesIt
  <2>4. ASSUME DeviceDiscovered(g) \/ ScanEnded(g) \/ (\E empty \in {FALSE, EmptyReads} : ReadAnswered(g, empty))
               \/ \E result \in {"ok", "fail"} : WriteAnswered(g, result)
        PROVE  UNCHANGED <<connected_to, connection>>
    BY <2>4 DEF DeviceDiscovered, ScanEnded, ReadAnswered, WriteAnswered, central
  <2>5. QED
    BY <2>1, <2>2, <2>3, <2>4 DEF Answer, ConnectedToNamesIt
<1>4. CASE Tick \/ UNCHANGED vars
  <2>1. UNCHANGED <<connected_to, connection>>
    BY <1>4 DEF Tick, ProcessAsync, TakeReports, RunReport, DiscoverServicesStep,
       DiscoverCharacteristicsStep, ConnectedStep, DataStep, UserStep, NullStep, runs, FrontTurn,
       TriggerAccepted, TriggerRefused, TriggerStopScanDone, PopDone, NothingToDo, returns,
       central, vars
  <2>2. QED
    BY <2>1 DEF ConnectedToNamesIt
<1>5. QED
  BY <1>2, <1>3, <1>4 DEF Next

\* The disconnection reported a success has left no connection, and none is made
\* afterwards.
LEMMA NoneConnectedStep ==
  ASSUME WaitInv, CloserQueued, OnceRemoved, OneDevice, ConnectedToNamesIt, GoesOn,
         closer # 0, outcome'[closer] = <<"ok">>,
         outcome[closer] = <<"ok">> => \A d \in Devices : connection[d] = None
  PROVE  \A d \in Devices : connection'[d] = None
<1>1. TypeInv /\ TypeOK /\ QueueInv /\ goesOn /\ closer \in Ids
  BY GoesOnIsStep DEF WaitInv, TypeInv, ShutdownTypeOK
<1>2. CASE outcome[closer] = <<"ok">>
  <2>1. outcome[closer] # <<>>
    <3>1. <<"ok">> # <<>>
      OBVIOUS
    <3>2. QED
      BY <1>2, <3>1
  <2>2. asyncActions # <<>> => ~isRunning(front)
    BY <1>1, <2>1, NoneRunning
  <2>3. UNCHANGED connection
    BY <1>1, <2>2, NothingAnswered, RequestBehind, PhaseOfStep DEF RequestMade, central
  <2>4. QED
    BY <1>2, <2>3
<1>3. CASE outcome[closer] # <<"ok">>
  <2>1. PICK g \in gattlib : DeviceDisconnected(g)
    BY <1>1, <1>3, SuccessIsAnswered
  <2>2. connection \in [Devices -> Devices \cup {None}] /\ forgetConnection
    BY <1>1, <2>1 DEF TypeOK, DeviceDisconnected
  <2>3. QED
    BY <2>2, BLECentralAssumption DEF forgetConnection, ConnectedToNamesIt
<1>4. QED
  BY <1>2, <1>3

LEMMA ClosingStep ==
  ASSUME WaitInv, WaitInv', ClosingInv, [ShutdownNext]_shutdownVars
  PROVE  ClosingInv'
<1>1. /\ TypeInv /\ TypeInv' /\ QueueInv /\ TypeOK
      /\ stage = "no" => closer = 0 /\ ~adaptCloseCalled
  BY DEF WaitInv, TypeInv
<1>2. /\ CloserQueued /\ OnceRemoved
      /\ stage = "waiting" => closer # 0 /\ (adaptCloseCalled => outcome[closer] # <<>>)
      /\ hasReturned /\ outer.phase = "app" => exited
      /\ OneDevice => ConnectedToNamesIt
      /\ OneDevice => (closer # 0 /\ outcome[closer] = <<"ok">> => \A d \in Devices : connection[d] = None)
  BY DEF ClosingInv
<1>3. CloserQueued' /\ OnceRemoved'
  BY <1>2, CloserQueuedStep, OnceRemovedStep
<1>4. CASE ShutdownAtOnce \/ ShutdownRefused
  <2>1. /\ stage = "no" /\ stage' = "returned" /\ outer' = [phase |-> phase, draining |-> draining]
        /\ UNCHANGED <<phase, closer, connected_to, connection>>
    BY <1>4 DEF ShutdownAtOnce, ShutdownRefused, MayShutdown, central
  <2>2. closer' = 0 /\ (outer'.phase = "app" => exited')
    BY <1>1, <2>1 DEF exited, hasReturned
  <2>3. OneDevice => ConnectedToNamesIt'
    BY <1>2, <2>1 DEF ConnectedToNamesIt
  <2>4. QED
    BY <1>3, <2>1, <2>2, <2>3 DEF ClosingInv
<1>5. CASE ShutdownDisconnects
  <2>1. /\ stage = "no" /\ stage' = "waiting" /\ closer' = nextId /\ nextId \in Ids
        /\ UNCHANGED <<outcome, connected_to, connection, adaptCloseCalled>>
    BY <1>1, <1>5, DisconnectQueued DEF ShutdownDisconnects, MayShutdown
  <2>2. outcome[nextId] = <<>>
    BY <1>1, <2>1 DEF QueueInv, QueueMatches, Ids
  <2>3. <<"ok">> # <<>> /\ nextId # 0
    BY <2>1 DEF Ids
  <2>4. ~hasReturned' /\ ~adaptCloseCalled' /\ outcome'[closer'] # <<"ok">> /\ closer' # 0
    BY <1>1, <2>1, <2>2, <2>3 DEF hasReturned
  <2>5. OneDevice => ConnectedToNamesIt'
    BY <1>2, <2>1 DEF ConnectedToNamesIt
  <2>6. QED
    BY <1>3, <2>4, <2>5 DEF ClosingInv
<1>6. CASE DoneCb \/ ShutdownReturns \/ UNCHANGED shutdownVars
  <2>1. /\ UNCHANGED <<closer, outcome, connected_to, connection, outer>>
        /\ stage' = "waiting" => stage = "waiting" /\ (adaptCloseCalled' => outcome[closer] # <<>>)
    BY <1>2, <1>6 DEF DoneCb, doneCbDue, ShutdownReturns, central, shutdownVars, shutdownOnly, vars
  <2>2. hasReturned' /\ outer'.phase = "app" => exited'
    BY <1>2, <1>6 DEF DoneCb, ShutdownReturns, shutdownVars, shutdownOnly, vars, hasReturned, exited
  <2>3. OneDevice => ConnectedToNamesIt'
    BY <1>2, <2>1 DEF ConnectedToNamesIt
  <2>4. QED
    BY <1>2, <1>3, <2>1, <2>2, <2>3 DEF ClosingInv
<1>7. CASE GoesOn
  <2>1. /\ [Next]_vars /\ goesOn /\ UNCHANGED <<stage, outer, closer, adaptCloseCalled>>
    BY <1>7, GoesOnIsStep
  <2>2. stage = "waiting" => closer # 0 /\ (adaptCloseCalled => outcome'[closer] # <<>>)
    BY <1>1, <1>2, <2>1, ReportsStay DEF TypeInv, ShutdownTypeOK
  <2>3. ~(hasReturned' /\ outer'.phase = "app")
    BY <1>2, <2>1 DEF hasReturned, goesOn
  <2>4. OneDevice => ConnectedToNamesIt'
    BY <1>1, <1>2, <2>1, NamesItStep
  <2>5. ASSUME OneDevice, closer # 0, outcome'[closer] = <<"ok">>
        PROVE  \A d \in Devices : connection'[d] = None
    BY <1>2, <1>7, <2>5, NoneConnectedStep
  <2>6. QED
    BY <1>3, <2>1, <2>2, <2>3, <2>4, <2>5 DEF ClosingInv
<1>8. QED
  BY <1>4, <1>5, <1>6, <1>7, ShutdownSteps

LEMMA ClosingInvariant ==
  NoTimedCancel /\ InterruptsNoReport => (ShutdownSpec => []ClosingInv)
<1> SUFFICES ASSUME NoTimedCancel, InterruptsNoReport PROVE ShutdownSpec => []ClosingInv
  OBVIOUS
<1>1. ShutdownInit => ClosingInv
  BY DEF ShutdownInit, Init, ClosingInv, CloserQueued, OnceRemoved, ConnectedToNamesIt, hasReturned
<1>2. ClosingInv /\ WaitInv /\ WaitInv' /\ [ShutdownNext]_shutdownVars => ClosingInv'
  BY ClosingStep
<1>3. ShutdownSpec => []WaitInv
  BY WaitInvariant
<1>4. QED
  BY <1>1, <1>2, <1>3, PTL DEF ShutdownSpec

\* A disconnection that shutdown() has asked for and that was successful leaves
\* no device connected: with one device at a time, but whatever callbacks ask
\* for while it waits and in the tick that goes on when it has returned.
THEOREM ConnectionsClosed ==
  NoTimedCancel /\ InterruptsNoReport /\ OneDevice => (ShutdownSpec => []ConnectionLeftClosed)
<1> SUFFICES ASSUME NoTimedCancel, InterruptsNoReport, OneDevice
             PROVE  ShutdownSpec => []ConnectionLeftClosed
  OBVIOUS
<1>1. ASSUME ClosingInv PROVE ConnectionLeftClosed
  <2>1. closer # 0 /\ outcome[closer] = <<"ok">> => \A d \in Devices : connection[d] = None
    BY <1>1, Zenon DEF ClosingInv
  <2>2. QED
    BY <2>1 DEF ConnectionLeftClosed, isConnected
<1>2. QED
  BY <1>1, ClosingInvariant, PTL

\* When doneCb has run nothing is started while shutdown() waits; and no tick goes
\* on if the main program has called it.
LEMMA NothingStartedStep ==
  ASSUME WaitInv, ClosingInv, [ShutdownNext]_shutdownVars, adaptCloseCalled, outer.phase = "app"
  PROVE  gattlib' \subseteq gattlib
<1>1. TypeInv /\ QueueInv
  BY DEF WaitInv
<1>2. CASE GoesOn
  <2>1. goesOn
    BY <1>2, GoesOnIsStep
  <2>2. ~hasReturned
    BY <2>1 DEF ClosingInv, goesOn
  <2>3. stage = "waiting"
    BY <1>1, <2>2 DEF hasReturned, TypeInv, ShutdownTypeOK
  <2>4. closer # 0 /\ outcome[closer] # <<>> /\ CloserQueued /\ OnceRemoved
    BY <2>3 DEF ClosingInv
  <2>5. ~(FrontTurn /\ TriggerAccepted)
    <3>1. SUFFICES ASSUME TriggerAccepted PROVE FALSE
      OBVIOUS
    <3>2. asyncActions # <<>> /\ isPending(front) /\ phase = "reports"
      BY <3>1 DEF TriggerAccepted, returns
    <3>3. ~(closer < first)
      BY <2>1, <2>2, <2>4, <3>2 DEF OnceRemoved, goesOn
    <3>4. isDone(front)
      BY <1>1, <2>4, <3>3, ReportedIsFront
    <3>5. QED
      BY <3>2, <3>4 DEF isPending, isDone
  <2>6. asyncActions # <<>> => ~isRunning(front)
    BY <1>1, <2>1, <2>4, NoneRunning
  <2>7. FrontTurn => gattlib' \subseteq gattlib
    BY <2>5 DEF FrontTurn, TriggerRefused, TriggerStopScanDone, PopDone, NothingToDo
  <2>8. QED
    BY <1>1, <1>2, <2>6, <2>7, NothingAnswered, RequestBehind, PhaseOfStep DEF RequestMade
<1>3. CASE \/ ShutdownAtOnce \/ ShutdownRefused \/ ShutdownDisconnects \/ DoneCb
           \/ ShutdownReturns \/ UNCHANGED shutdownVars
  BY <1>3 DEF ShutdownAtOnce, ShutdownRefused, ShutdownDisconnects, DoneCb, ShutdownReturns,
     shutdownVars, shutdownOnly, vars
<1>4. QED
  BY <1>2, <1>3, ShutdownSteps

\* When doneCb has run, in a shutdown() called by the main program, gattlib is
\* called for nothing any more, whatever callbacks have put into the queue.
THEOREM NothingStarted ==
  NoTimedCancel /\ InterruptsNoReport => (ShutdownSpec => NothingStartedOnceClosed)
<1> SUFFICES ASSUME NoTimedCancel, InterruptsNoReport
             PROVE  ShutdownSpec => NothingStartedOnceClosed
  OBVIOUS
<1>1. WaitInv /\ ClosingInv /\ [ShutdownNext]_shutdownVars
        => [adaptCloseCalled /\ outer.phase = "app" => gattlib' \subseteq gattlib]_shutdownVars
  BY NothingStartedStep
<1>2. ShutdownSpec => []WaitInv /\ []ClosingInv
  BY WaitInvariant, ClosingInvariant
<1>3. QED
  BY <1>1, <1>2, PTL DEF ShutdownSpec, NothingStartedOnceClosed

=============================================================================
