------------------------------- MODULE Shutdown -------------------------------
(***************************************************************************)
(* BLECentral::shutdown() (gattlibpp/BLECentral.cpp): it disconnects, and  *)
(* calls processAsync() itself until that is done or it has waited long    *)
(* enough; then the adapter is to be closed.                               *)
(*                                                                         *)
(* Called from a callback, it runs processAsync() inside processAsync():   *)
(* outer is the interrupted one, which goes on when shutdown() has         *)
(* returned; then the program ends.  While it waits the application's code *)
(* runs in callbacks only.  doneCb is the callback of shutdown's own       *)
(* disconnection, number closer; it runs before anything else does.        *)
(***************************************************************************)
EXTENDS BLECentral

CONSTANTS
  WaitLimit,      \* the number of ticks shutdown() waits at most
  FromCallbacks,  \* may the application call it from a callback?
  CutsIn          \* ... ahead of a step of a connect(), or of the data of a read()?

ASSUME ShutdownAssumption ==
  WaitLimit \in Nat /\ {FromCallbacks, CutsIn} \subseteq BOOLEAN

VARIABLES
  stage,            \* of shutdown(): "no" (not called), "waiting", "returned", "gaveUp"
  outer,            \* the processAsync() that shutdown() was called in
  closer,           \* the disconnection shutdown() has asked for, or 0
  adaptCloseCalled, \* has doneCb run?
  waitLoopCount,
  ahead,            \* history: actions in the queue when it was called
  busy              \* history: ticks that found the first action running

shutdownOnly == <<stage, outer, closer, adaptCloseCalled, waitLoopCount, ahead, busy>>
shutdownVars == <<vars, shutdownOnly>>

ShutdownTypeOK ==
  /\ stage \in {"no", "waiting", "returned", "gaveUp"}
  /\ outer \in [phase : {"app", "events", "reports"}, draining : Seq(Reports)]
  /\ closer \in Ids \cup {0}
  /\ adaptCloseCalled \in BOOLEAN
  /\ waitLoopCount \in 0..WaitLimit
  /\ ahead \in 0..MaxRequests
  /\ busy \in 0..WaitLimit

ShutdownInit ==
  /\ Init
  /\ stage = "no"
  /\ outer = [phase |-> "app", draining |-> <<>>]
  /\ closer = 0
  /\ adaptCloseCalled = FALSE
  /\ waitLoopCount = 0
  /\ ahead = 0 /\ busy = 0

-----------------------------------------------------------------------------
(* shutdown()                                                              *)

\* The application calls it when it likes, once; but if not CutsIn, in no
\* callback that has one of the library's own steps behind it in the same tick.
MayShutdown ==
  /\ stage = "no" /\ appTurn
  /\ phase # "app" => FromCallbacks
  /\ CutsIn \/ \A i \in DOMAIN draining : draining[i].op \in {"user", "null"}

\* A device is connected: disconnect() will queue an action.
mustDisconnect == connected_to # None /\ isConnected(connected_to)

\* Without a connection the adapter is closed at once, by shutdown() itself or
\* by doneCb, which disconnect() calls when it refuses.
ShutdownAtOnce ==
  /\ MayShutdown
  /\ ~mustDisconnect
  /\ adapter_is_open' = FALSE
  /\ stage' = "returned"
  /\ outer' = [phase |-> phase, draining |-> draining]
  /\ UNCHANGED <<phase, appTurn, is_scanning, auto_discover, connected_to, connection,
                 asyncActions, reportQueue, draining, gattlib, nextId, outcome, closer,
                 adaptCloseCalled, waitLoopCount, ahead, busy>>

\* disconnect() refuses if the adapter has been closed and cannot be opened: it
\* calls doneCb, which leaves the connection open.
ShutdownRefused ==
  /\ MayShutdown
  /\ mustDisconnect
  /\ ~adapter_is_open
  /\ adaptCloseCalled' = TRUE
  /\ stage' = "returned"
  /\ outer' = [phase |-> phase, draining |-> draining]
  /\ UNCHANGED <<phase, appTurn, central, asyncActions, reportQueue, draining, gattlib, nextId,
                 outcome, closer, waitLoopCount, ahead, busy>>

ShutdownDisconnects ==
  /\ MayShutdown
  /\ mustDisconnect
  /\ openAdapterIfRequired
  /\ queueAsyncAction(asyncActions, "disconnect", connected_to)
  /\ closer' = nextId
  /\ ahead' = Len(asyncActions)
  /\ stage' = "waiting"
  /\ outer' = [phase |-> phase, draining |-> draining]
  /\ phase' = "app" /\ draining' = <<>> /\ appTurn' = FALSE
  /\ UNCHANGED <<is_scanning, auto_discover, connected_to, connection, reportQueue, gattlib,
                 outcome, adaptCloseCalled, waitLoopCount, busy>>

ShutdownCalled == ShutdownAtOnce \/ ShutdownRefused \/ ShutdownDisconnects

\* Mutated: doneCb is given as the success callback only.
doneCbDue_OnSuccess == closer # 0 /\ outcome[closer] = <<"ok">> /\ ~adaptCloseCalled
doneCbDue == closer # 0 /\ outcome[closer] # <<>> /\ ~adaptCloseCalled

\* Mutated: doneCb leaves the adapter alone.
adapterCloseInDoneCb_Not == UNCHANGED adapter_is_open
adapterCloseInDoneCb == adapter_is_open' = FALSE

\* Called when shutdown() has given up, in the tick that goes on then, doneCb
\* writes to a frame that has been left: the program may go on, or crash.
DoneCb ==
  /\ doneCbDue
  /\ adapterCloseInDoneCb
  /\ adaptCloseCalled' = TRUE
  /\ phase' \in {phase, IF stage = "gaveUp" THEN "crashed" ELSE phase}
  /\ appTurn' = FALSE
  /\ UNCHANGED <<is_scanning, auto_discover, connected_to, connection, asyncActions,
                 reportQueue, draining, gattlib, nextId, outcome, stage, outer, closer,
                 waitLoopCount, ahead, busy>>

\* Mutated: doneCb is given a copy of adaptCloseCalled.
waitsOn_ByValue == waitLoopCount < WaitLimit
\* Mutated: <= for <.
waitsOn_OnceMore == ~adaptCloseCalled /\ waitLoopCount <= WaitLimit
waitsOn == ~adaptCloseCalled /\ waitLoopCount < WaitLimit

\* The loop is left, and the processAsync() it interrupted is taken up again.
ShutdownReturns ==
  /\ stage = "waiting" /\ phase = "app" /\ ~doneCbDue
  /\ ~waitsOn
  /\ stage' = IF adaptCloseCalled THEN "returned" ELSE "gaveUp"
  /\ phase' = outer.phase /\ draining' = outer.draining /\ appTurn' = TRUE
  /\ UNCHANGED <<central, asyncActions, reportQueue, gattlib, nextId, outcome, outer, closer,
                 adaptCloseCalled, waitLoopCount, ahead, busy>>

-----------------------------------------------------------------------------
(* The rest of the program: it ends when shutdown() has returned, and with  *)
(* it the tick in which it was called                                      *)

hasReturned == stage \in {"returned", "gaveUp"}
exited == phase = "crashed" \/ (hasReturned /\ phase = "app")
goesOn == ~exited /\ ~doneCbDue

\* At the end of a tick a callback has run exactly if the first action is done.
inCallback == phase # "app" \/ (asyncActions # <<>> /\ isDone(front))

RequestMade ==
  /\ goesOn
  /\ stage = "waiting" => inCallback
  /\ Request
  /\ UNCHANGED shutdownOnly

TickBegins ==
  /\ goesOn
  /\ ProcessAsync
  /\ IF stage = "waiting"
       THEN waitsOn /\ waitLoopCount' = waitLoopCount + 1
       ELSE UNCHANGED waitLoopCount
  /\ UNCHANGED <<stage, outer, closer, adaptCloseCalled, ahead, busy>>

EventsDelivered ==
  /\ goesOn
  /\ Deliver \/ TakeReports
  /\ UNCHANGED shutdownOnly

ReportRuns ==
  /\ goesOn
  /\ RunReport
  /\ UNCHANGED shutdownOnly

TickEnds ==
  /\ goesOn
  /\ FrontTurn
  /\ busy' = IF stage = "waiting" /\ NothingToDo /\ asyncActions # <<>>
               THEN busy + 1 ELSE busy
  /\ UNCHANGED <<stage, outer, closer, adaptCloseCalled, waitLoopCount, ahead>>

Ended == exited /\ UNCHANGED shutdownVars

ShutdownNext ==
  \/ ShutdownCalled \/ DoneCb \/ ShutdownReturns
  \/ RequestMade
  \/ TickBegins \/ EventsDelivered \/ ReportRuns \/ TickEnds
  \/ Ended

ShutdownSpec == ShutdownInit /\ [][ShutdownNext]_shutdownVars

-----------------------------------------------------------------------------
(* Properties                                                              *)

\* shutdown() needs two ticks for each action in the queue, to start it and to
\* remove it; it waits longer only for an action that is running, as a rule for
\* gattlib's answer.  Its own callback, doneCb, needs no tick.  What callbacks
\* ask for while it waits does not make it wait longer.
WaitsForRunningOnly == waitLoopCount <= 2 * (ahead + 1) + busy

\* doneCb closes the adapter in the middle of a tick.  What callbacks have asked
\* for while shutdown() waited stays in the queue: unless there is a tick that
\* goes on, gattlib is called for nothing any more.
NothingStartedOnceClosed ==
  [][adaptCloseCalled /\ outer.phase = "app" => gattlib' \subseteq gattlib]_shutdownVars

\* If its disconnection was successful no connection is left, on any device,
\* whatever callbacks ask for while it waits and in the tick that goes on when
\* it has returned.
ConnectionLeftClosed ==
  hasReturned /\ closer # 0 /\ outcome[closer] = <<"ok">> =>
    \A d \in Devices : ~isConnected(d)

=============================================================================
