# Verification of gattlibpp

gattlibpp is a C++ layer over the C library gattlib. A program asks its singleton `BLECentral`
for Bluetooth Low Energy operations (scan, connect, read, write, notifications), gives each a
success and a failure callback, and calls `processAsync()` over and over to make them happen.
This directory holds TLA+ models of that layer, the configurations that check them with TLC, and
proofs, checked by TLAPS, of what matters most. Paths below are relative to the repository.

    tlc -config AnyOrder.cfg MCBLECentral       # and likewise for every other .cfg
    tlapm BLECentralProofs.tla                  # and likewise for every other module with proofs

| file | what it is |
|---|---|
| `OperationQueue.tla` | abstract: what a user may expect of the queue of operations |
| `BLECentral.tla` | the central: requests, gattlib's callbacks, `processAsync()` |
| `MCBLECentral.tla` | the sets of operations each run of it uses |
| `BLECentralProofs.tla` | type correctness, and the queue's safety properties, proved |
| `BLECentralRefinement.tla` | `BLECentral` implements `OperationQueue`, proved |
| `DocumentedProofs.tla` | what one operation after the other, on one device, guarantees, proved |
| `Subscriptions.tla` | subscriptions to notifications: counter, flags, handlers, mutex |
| `MCSubscriptions.tla` | its instances |
| `SubscriptionsProofs.tla` | its types, counter, flags, handler and the silence after a stop, proved |
| `Discovery.tla` | `BLECentral` with the maps discovery fills and reads and writes consult |
| `MCDiscovery.tla` | its instance |
| `DiscoveryProofs.tla` | it implements `BLECentral`, and three properties of it, proved |
| `DocumentedDiscoveryProofs.tla` | references, what a connection shows, and that it implements `Subscriptions`' connections, proved |
| `Shutdown.tla` | `BLECentral` and `shutdown()`, which ticks it itself |
| `MCShutdown.tla` | its instance |
| `ShutdownProofs.tla` | its types, how long it waits and what it leaves behind, proved |
| `Examples.tla` | `Shutdown` driven by the two example programs |
| `MCExamples.tla` | its instances |
| `ExamplesProofs.tla` | that the programs are applications of `Shutdown`, and what they leave behind, proved |

`Discovery` and `Shutdown` extend `BLECentral`, `Examples` extends `Shutdown`; each of their steps is a
step of the module below it together with what it does to the variables they add.

## 1. The system

Everything runs on one thread. `gattlib_async_process_all()`, called by `processAsync()`, is where
gattlib calls back; `processAsync()` then runs the callbacks of its report queue, then looks at the
first asynchronous action. Application code runs between two ticks *and inside every callback*, and
may ask for anything there. That, and the fact that gattlib's callbacks do not say which request they
answer, is what makes this code hard: nothing is ever preempted, but any two callbacks may have any
requests between them, and state checked at a request is used some ticks later.

| component | state | operations | where |
|---|---|---|---|
| operation queue and `processAsync()` | `asyncActions`, `reportQueue`, its local copy `q` | `queueAsyncAction`, `run`, `currentOpCompleted`, the tick | `gattlibpp/BLECentral.cpp`, `include/gattlibpp/BLECentral.h` |
| adapter | `adapter_is_open`, name | `adapterOpen`, `adapterClose`, `openAdapterIfRequired` | `BLECentral.cpp` |
| scanning | `is_scanning`, cache of names | `scan`, `startScan`, `stopScan`; discovered, completed, disabled | `BLECentral.cpp` |
| connections | `connected_to`, `devices[d].connection` | `connect`, `disconnect`, `isConnected`; connected, disconnected | `BLECentral.cpp` |
| discovery on connect | `discovery_done`, maps of services and characteristics | three steps chained through the report queue | `BLECentral.cpp`, `DeviceDetails.cpp` |
| reading and writing | the first action | `read`, `write` and their answers | `BLECentral.cpp` |
| enquiries | the report queue | `enable`, `isEnabled`, `isConnected` with callbacks | `BLECentral.cpp` |
| subscriptions | counter, flags, handlers, mutex per device | `startNotification`, `stopNotification`, `stopAllNotifications`, `handleNotification` | `BLECentral.cpp`, `DeviceDetails.cpp` |
| table of characteristics | maps per device | look-up before each operation | `DeviceDetails.cpp`, `BLECentral.cpp` |
| shutdown, destructor | all of the above | `shutdown`, `~BLECentral` | `BLECentral.cpp` |
| examples | state machines of their own | clients | `examples/` |
| configuration headers | none | | `include/gattlibpp/` |

How they interact: a request checks and changes the *central's* state at once (`is_scanning`,
`connected_to`) and queues an action; the tick triggers the action, which calls *gattlib*; gattlib's
answer updates the state, completes **the first action, whichever it is** and calls its callback;
the next tick pops it. Discovery and read data go by way of the report queue. Subscriptions do
not use the queue of actions at all: they call gattlib in place, under the mutex of the device.

What makes each correct:

* queue: an answer completes the action it is for; one report each, in order; every operation ends;
* adapter and connections: what was checked at the request still holds at the call; `connected_to`
  and the connections agree; the result reported is the state there is;
* scanning: `is_scanning` is set while gattlib scans, and never stays set when it does not;
  a scan that is cut short stays silent; `stopScan()` stops the scan;
* discovery: a connect is reported when its discovery is done and not before, and what the application
  is then shown is what this peer offers; a reference into the maps is good as long as it is kept;
* shutdown: it waits for running actions only, starts nothing once it has closed the adapter, and what
  it saw disconnected stays so;
* the programs: they come to their end;
* subscriptions: the handler is set while the peer has something to send; flags and counter are what
  gattlib was asked for; nothing is heard after the report of a stop.

`PROJECT.json` lists the places where each of these may go wrong (`hazards`), with the properties
that watch over them.

## 2. How the models correspond to the code

### BLECentral.tla

The variables have the names of the members; `connection[d]` is `devices[d].connection`, its value
the peer the connection leads to. Four are not members: `phase` and `appTurn` are the program
counter, `gattlib` is the set of accepted and unanswered calls, and `nextId`, `outcome` are history
(the number and the reports of each action).

A callback is the last thing each piece of library code does, so a step ends where one is called and
sets `appTurn`; while it is TRUE the application may make requests. The step after it is the return.
`processAsync()` is therefore four kinds of steps:

| action | code |
|---|---|
| `ProcessAsync` | the tick begins; `gattlib_async_process_all()` is entered |
| `DeviceDiscovered`, `Answer` | gattlib's callbacks: discovered, completed, connected, disconnected, read, written |
| `TakeReports`, `RunReport` | the report queue is swapped for an empty one, and the copy run callback by callback; those pushed meanwhile wait for the next tick |
| `FrontTurn` | the first action: triggered (accepted or refused), popped, or left waiting |

Requests are one action each (`Scan`, `StopScan`, `Connect`, ...). One that is refused only calls its
failure callback in place and has no effect but, possibly, an open adapter; `AdapterOpen` stands for it.
The disconnection that `scan()` prepares when connected is *not* in the model, because the code never
queues it. `stopScan()`'s two triggers are two operations, `stopScan` and `stopScanDone` (there was
nothing to stop).

Assumptions about what is outside the sources:

* gattlib accepts or refuses each call, and answers an accepted one once, within
  `gattlib_async_process_all()`: reads and writes with a value or a result, a connect with a connection or
  none, and a scan with a time limit when that passes. `startScan` has no answer;
* disabling a scan, when accepted, also revokes the answer its time limit would bring. This favours
  the library: without it, a `scan` that was stopped would complete an unrelated action even more often
  than `FalseConnect` shows;
* the build options are those of the headers as they are: the fake asynchronous read
  (`BLECENTRAL_FAKE_READASYNC`) and the mutex (`BLECENTRAL_THREADSAFE`) are on. Debug output,
  and `waitCount` (counted and never read) are left out;
* a callback does not call `processAsync()` itself, except through `shutdown()` (`Shutdown.tla`).

### Discovery.tla

`BLECentral` says that discovery takes three steps, and that a read finds its characteristic or not.
Here the maps decide. `services[d]` and `characteristics[d]` are the keys of the maps of that name;
`steps` are the devices captured by the steps of the discovery in the report queue, in order;
`reference[i]` and `buffers` are what the trigger of action `i` has captured. `offer[p]` is gattlib's
side: what peer `p` lists, chosen anew at each connection, because a device may have been changed in
between. `missed` is history.

`ReadCharacteristic` and `WriteCharacteristic` are `Read` and `Write` for a characteristic that passes
`getUUIDForCharOrFail()`. `PerformServiceDiscovery` and `PerformCharacteristicsDiscovery` are the two
steps with the calls they make; gattlib may fail in either, and nobody looks. `listed` clears a map and
fills it, by which every reference into it is lost. `TriggerFront` deletes the buffer of a write.
Everything else the central does is `Elsewhere`.

### Shutdown.tla

`shutdown()` queues a disconnection, and calls `processAsync()` until `doneCb` has been called or it has
waited `WaitLimit` times (1000 in the code). `stage`, `closer` (the number of its disconnection),
`adaptCloseCalled` and `waitLoopCount` are its state. Without a connection it closes the adapter at once
(`ShutdownAtOnce`); if the adapter has been closed before and cannot be opened, the disconnection is
refused and `doneCb` called in place (`ShutdownRefused`). `DoneCb` is that callback otherwise, and runs
before anything else does (`doneCbDue`).

`shutdown()` may be called from a callback, in the middle of a `processAsync()`; `outer` is where that
was, and the callbacks it had still to run. `ShutdownDisconnects` puts it aside and `ShutdownReturns`
takes it up again: the rest of its callbacks run, and the turn of the first action, with all that they
ask for. With the end of that tick the program ends (`exited`), at once if it was the main program that
called. `goesOn` says that it has not, and that no `doneCb` is to run first.

While it waits the application has control in callbacks only (`inCallback`), and may ask there for
anything. When `shutdown()` has given up (`stage = "gaveUp"`) its `doneCb` may still be called, in the
tick that goes on: it writes to a variable of a frame that has been left, which is undefined, and the
model lets the program go on or crash. `ahead` and `busy` are history: how long the queue was, and how
many ticks found its first action running, that is, as a rule, waiting for gattlib.

Two constants say what is allowed. `FromCallbacks`: `shutdown()` is called from callbacks, too.
`CutsIn`: even from one that is ahead, in the report queue, of the library's own next step of a connect,
or of the data of a read.

`shutdown()` is called once. The action whose callback calls it may be popped, and so destroyed, while its
callback is still being executed. What happens then depends on what the compiler does with the captured
variables; that is not modelled, and the interrupted tick goes on as if nothing had happened.

### Examples.tla

The programs take the place of the application. `doContinue` is theirs; `program` says which it is
(`read_write` counts as two). Each callback they pass is an action that makes the next request or ends
the loop, and `called` is the one to be run; nothing else happens before it has run. `role[i]` says what
the callbacks of action `i` are. `LoopTurns` is the main loop, and `MainShutsDown` what follows it.

`MayFail[p]` is what may be refused, or answered with a failure, while `p` runs, and `MaxSightings` the
number of times the scan of `ble_scan` comes upon its target.

### Subscriptions.tla

The variables are the members of `DeviceDetails` and `BLEServicesMap`, by device;
`registeredForNotifs[d]` is the set of characteristics with that flag. `glHandler`, `glSubscribed`
are gattlib's side: the handler of the connection, and what the peer was asked for. `audible`, and
`before` in a frame, are history.

The requests work in place, so each is one action, except when a failure callback runs: it is
called with the device's mutex held, and the code after it (taking back the count) runs when it
returns. `frames` is the stack of these; `FailureReturns` pops it. A request on a device whose mutex
is held is `LockAgain`. The counter is a `uint8_t` and wraps at 256, as `% CounterSize`.
`stopAllNotifications()` is one action for its loop of stops, which have no callbacks;
`unregister(d, count)` is `count` turns of the count at once.

A stop is modelled with its success callback, without which it reports nothing. Connections and
discovery appear in short form (three actions), `reportQueue` stands for the report queue and its local
copy end to end, and a request waits for the discovery to be done. That this is what the central does
with connections is checked, not assumed: `Discovery` implements `Subscriptions`, with no subscriptions,
under the mapping `Short`.

## 3. The runs

### Runs that pass

**AnyOrder** — an application that ignores every recommendation: two devices, any operation but the
scan with a time limit, at any moment, from any callback, empty callbacks included. `TypeOK`;
`OnlyFrontStarted` (no action is started before it is first); `AnswersMeetTheirAction` (each answer
finds its own action first and running: the code never checks that); `ReportedOnce`;
`ReportsInOrder`; and `ImplementsOperationQueue`, the refinement of `OperationQueue` with the
mapping `Promise`. The program may crash here (`NullStep`, `DeviceConnected` without a name), so
deadlock is not checked.

**Documented** — an application that follows README.md: one device, one operation after the other
(`OneDevice`, `OneOperation`). `NoCrash`; `ConnectionConsistent` (a connection belongs to the device
that holds it and to `connected_to`); `ScanFlagTruthful`; `ReportsAreTrue` (the reports of
connect and disconnect are what `isConnected()` says at that moment); `CallsAreLegal` (the adapter and the
connection are there when gattlib is called, ticks after they were checked).

**Liveness** — the same application, without empty values and without stopping scans:
`EveryOperationEnds`, each operation is reported and leaves the queue. It is the run with the time limit
of a scan, so it checks `ScanFlagTruthful` for it as well.

**Subscriptions** — stops before it disconnects, gattlib refuses nothing, discovery is on (which may
find nothing). `HandlerWhileSubscribed`, `RegisteredIsSubscribed`, `StoppedStaysSilent` (what a
stopped characteristic still has in the report queue is ahead of the report of the stop).

**RefusedSubscriptions** — the worst case for one device and one characteristic: refusals, no
discovery (then every start counts, and the counter runs through all its 256 values and round), failure
callbacks that make requests. `TypeOK`; `CountRestored` (a refused start leaves the counter as it
found it, whatever its callback did). Locking a mutex twice stops the program: deadlock is not checked.

**Discovery** — two devices, one connected at a time, one operation after the other, discovery on; a
peer that offers one thing on one connection and another on the next, and a gattlib that fails to list
it now and then. `DiscoveryOnConnection` (the steps of a discovery, which come one and two ticks after
the connection, find it still there, and there is no other discovery); `BuffersOfPendingWrites` (no
buffer outlives its trigger or is deleted before it); `ReferencesLive` (what a trigger refers to is still in the map when
it is run); `ConnectedMeansDiscovered` (on the report of a connection, `servicesFor()` and
`characteristicsFor()` show what this peer offers, not what the record of an earlier connection says).
`ImplementsShortForm` composes it with `Subscriptions`: what that module assumes of connections and
discovery is what the central does, for this application.

**Shutdown** — the program ends at any moment or in any callback, whatever has been asked for before:
every operation that is queued but the scan with a time limit, overlapping, on two devices (one of them
connected at a time), adapter opened and closed, empty values. Callbacks go on making requests while
`shutdown()` waits, and in the tick that goes on after it; gattlib answers late, or never.
`WaitsForRunningOnly` (two ticks for each action in the queue at the call, and beyond that only ticks in
which the first action is running: nothing that is asked for while it waits makes it wait longer);
`NothingStartedOnceClosed` (when `doneCb` has closed the adapter gattlib is called for nothing more, if
it was the main program that called `shutdown()`; from a callback it may be, at the end of the
interrupted tick); `ConnectionLeftClosed` (if its disconnection was successful no device is connected
when it returns, nor when the interrupted tick is over). That connection and adapter *are* closed when
it returns does not hold, as the next section says.

**Examples** — both programs, with each failure they provide for. `ProgramEnds`, and
`NothingLeftBehind` (the adapter closed, no call unanswered, unless `shutdown()` has given up). No value is
empty (`EmptyReads = FALSE`): after one `read_write` would tick for ever, as `Liveness` would (below).

### Runs that find the code at odds with its documentation

Each checks one property, and TLC shows a behaviour that violates it. `PROJECT.json` quotes the line that
states the property (`findings`).

| run | what happens |
|---|---|
| `FalseConnect` | scan with a time limit, stop refused by gattlib, connect: the time limit reports the connect as a success |
| `WrongDevice` | a device connected after another calls the handler left behind for the first |
| `NestedFailure` | a failure callback that makes a request on the same device locks its mutex twice |
| `TwoSightings` | `ble_scan` sees its target twice before the scan is stopped: two stops, then two connections |

`FalseConnect` is why the runs that pass leave the time limit and `stopScan` apart: with both, the
answer of the scan meets another action and `AnswersMeetTheirAction` does not hold. The preconditions of
the other runs that pass hide more, which TLC finds as soon as one is dropped; and `Shutdown` what it is
not asked:

* a scan with a time limit and `stopScan` in `AnyOrder`: `ReportedOnce` fails, the callback of a scan
  that was cut short is called after all, if the time limit passes before the stop is triggered;
* `enableNull` in `Documented`: `NoCrash` fails, `enable()` with its default arguments puts an empty
  function in the report queue;
* `EmptyReads = TRUE` in `Liveness`: `EveryOperationEnds` fails, `clib_read_char_callback()` drops an
  empty value (`BLECentral.cpp:76`), the read is never reported and the queue is blocked for good;
* `startScan` and `stopScan` in `Liveness`: it fails too, and not only for a scan that is never stopped.
  A `stopScan()` asked for before the tick that starts the scan (`BLECentral.cpp:418`) waits behind it
  for ever;
* `setAutoDiscover` in `Discovery`: `ReferencesLive` fails. Without discovery any identifier will do for
  `getUUIDForCharOrFail()`, but `read()` and `write()` take the element of the map all the same
  (`BLECentral.cpp:603`, `685`) and dereference `end()`;
* `Refusals = {"start"}` in `Subscriptions`: `RegisteredIsSubscribed` fails, a refused subscription
  counts as registered and asking again does nothing and returns true; so does
  `HandlerWhileSubscribed`, as stopping it later takes the handler from under another one;
* `StopsFirst = FALSE` in `Subscriptions`: `HandlerWhileSubscribed` fails. The counter survives a
  disconnection (`BLECentral.cpp:795`): the next connection never gets the handler, no notification arrives;
* `OneDevice = FALSE` in `Shutdown`: `ConnectionLeftClosed` fails, `shutdown()` disconnects the device
  `connected_to` names and no other;
* `Shutdown` as it is: `stage = "returned" /\ outer.phase = "app" => ~adapter_is_open` fails, although
  `BLECentral.h:253` says that `shutdown()` "will handle closing an open connection, and the adapter".
  `doneCb` (`BLECentral.cpp:293`) closes it in the middle of a tick; a callback still to run in that
  tick, of `enable()` for instance, asks for something, which opens it again, and `shutdown()`, whose
  flag is set, returns;
* `Shutdown` as it is: `stage # "gaveUp"` fails, with connection and adapter left open, and not only for
  a gattlib that is late. The disconnection waits for the queue (`BLECentral.cpp:299`), and the first
  action may never be done: a `startScan` that nobody has stopped; a read whose value was empty; a
  connect whose next step is in the report queue of the tick that `shutdown()` was called in, which in
  its turn waits for `shutdown()` (`CutsIn`);
* every failure in `MayFail` of `Examples`: `ProgramEnds` fails. `read_write` gives `connect()` no failure
  callback (`read_write.cpp:170`), and `ble_scan` only prints when its stop is refused
  (`ble_scan.cpp:217`, `241`): both then tick for ever.

A last one cannot be a property of this model, which has only what the code does: `scan()`, called while
connected, builds a disconnection "do that first" (`BLECentral.cpp:333`) and never queues it.

## 4. Bounds

* `Devices` has two members: `connected_to` and `connection` can only disagree with two.
* `MaxRequests` is the number of actions queued in a behaviour. Three in `AnyOrder` is the
  shortest length with something to overtake on both sides; five in `Documented` is connect, use,
  disconnect, connect again, use (or scan, stop); four in `Liveness`. The proofs of section 6 hold for any.
* `MaxReports` bounds only the callbacks pushed by enquiries, which have no other limit.
* `Subscriptions` has three characteristics, two of which support notifications, and any number of
  connections; three reports leave room for data, a stop, and data again. The counter is never
  bounded: it is finite by its type.
* `Discovery` has two characteristics, one for reads and writes and one for neither, and two offers: a
  peer that has changed is the only way for a map to be out of date. Five requests are a connection, a
  use of it, a disconnection, another connection, and a use of that one. With three requests and
  `OneOperation = FALSE`, `OneDevice = FALSE`, `DiscoveryOnConnection` and `BuffersOfPendingWrites` hold
  as well.
* `WaitLimit` is 9 in `Shutdown` instead of 1000. Four requests leave room for three actions ahead of
  its disconnection, or for as many asked for while it waits; the disconnection is removed after eight
  ticks at most, if nothing is running, and a gattlib that answers late makes `shutdown()` give up as
  well. It is 6 in `Examples`.
* `MaxSightings` is two: the second is the one that comes too late. `Examples` needs at most seven requests
  then, and has no other bound. Its two programs have one device, the one named on the command line.
* Values and names do not occur: no property tells them apart. No symmetry is used: the state spaces do
  not need it.

## 5. Fairness

Only `Liveness` and `Examples` need it. `FairSpec` assumes

* `WF_vars(Tick)`: the application keeps calling `processAsync()` and its callbacks return. README.md
  says as much ("Gotta tick"). Requests are never assumed;
* for each action `i`, `SF_vars` of gattlib's final answer to its call: it is enabled only inside
  `gattlib_async_process_all()`, so again and again rather than continuously, and gattlib ends each
  call with a value, an error or a time-out. Nothing of the kind is assumed of `startScan`, which has no
  answer, nor of `DeviceDiscovered`.

`ExamplesSpec` assumes the same of gattlib, and weak fairness of `ProgramStep`: there the program is
part of the model, its main loop ticks because its code does, and its callbacks return.

`Subscriptions`, `Discovery` and `Shutdown` state no liveness. (That `shutdown()` returns is in `Examples`.)

## 6. What is proved

For all values of the constants, within the assumptions named in the modules
(`BLECentralAssumption`, `DiscoveryAssumption`, `SubscriptionsAssumption`):

| theorem | states | condition |
|---|---|---|
| `TypeCorrect` | `Spec => []TypeOK` | none |
| `FrontStartedOnly` | `Spec => []OnlyFrontStarted` | none |
| `AnswersAttributed` | `Spec => []AnswersMeetTheirAction` | `NoTimedCancel` |
| `OneReportEach` | `Spec => []ReportedOnce` | `NoTimedCancel` |
| `OrderedReports` | `Spec => []ReportsInOrder` | `NoTimedCancel` |
| `QueueImplemented` | `Spec => ImplementsOperationQueue` | `NoTimedCancel` |
| `DiscoveryIsCentral` | `DiscoverySpec => Spec` (of `BLECentral`) | none |
| `DiscoveryTypeCorrect` | `DiscoverySpec => []DiscoveryTypeOK` | `NoTimedCancel` |
| `DiscoveryConnected` | `DiscoverySpec => []DiscoveryOnConnection` | `NoTimedCancel` |
| `BuffersAccounted` | `DiscoverySpec => []BuffersOfPendingWrites` | `NoTimedCancel` |
| `ScanFlagRight` | `Spec => []ScanFlagTruthful` | `Serial` |
| `LegalCalls` | `Spec => CallsAreLegal` | `Serial` |
| `NeverCrashes` | `Spec => []NoCrash` | `Serial`, `"enableNull" \notin Ops` |
| `ConnectionsConsistent` | `Spec => []ConnectionConsistent` | `Serial`, `OneDevice` |
| `TrueReports` | `Spec => ReportsAreTrue` | `Serial`, `OneDevice` |
| `ReferencesGood` | `DiscoverySpec => ReferencesLive` | `Serial`, `"setAutoDiscover" \notin Ops` |
| `SuccessMeansDiscovered` | `DiscoverySpec => ConnectedMeansDiscovered` | `Serial`, `OneDevice` |
| `ShortFormImplemented` | `DiscoverySpec => ImplementsShortForm` | `Serial`, `SomethingOffered` |
| `ShutdownTypes` | `ShutdownSpec => []ShutdownTypeOK` | none |
| `WaitsNoLonger` | `ShutdownSpec => []WaitsForRunningOnly` | `NoTimedCancel`, `InterruptsNoReport` |
| `ConnectionsClosed` | `ShutdownSpec => []ConnectionLeftClosed` | `NoTimedCancel`, `InterruptsNoReport`, `OneDevice` |
| `NothingStarted` | `ShutdownSpec => NothingStartedOnceClosed` | `NoTimedCancel`, `InterruptsNoReport` |
| `ExamplesAreShutdown` | `ExamplesSpec => ShutdownSpec` | none |
| `NothingIsLeftBehind` | `ExamplesSpec => []NothingLeftBehind` | none |
| `SubscriptionTypes` | `Spec => []TypeOK` (of `Subscriptions`) | none |
| `CountsRestored` | `Spec => CountRestored` | none |
| `HandlerSet` | `Spec => []HandlerWhileSubscribed` | `Disciplined` |
| `FlagsTrue` | `Spec => []RegisteredIsSubscribed` | `Disciplined` |
| `SilentWhenAttributed` | `Spec => [](HandedToItsDevice => StoppedStaysSilent)` | `Disciplined` |
| `StopSilences` | `Spec => []StoppedStaysSilent` | `Disciplined`, `OneKnownDevice` |

`NoTimedCancel` says that the application does not use both `scan` (with a time limit) and `stopScan`;
run `FalseConnect` shows that it cannot be dropped. `Serial` is `OneOperation /\ NoTimedCancel`, the
README's "**one** BLE operation after the other", and `OneDevice` its other limitation; both are the
constants run `Documented` sets, except that what the program asks for (`Ops`), the devices, and the
bounds are anything here. Two examples of what goes wrong without them are runs `FalseConnect` and
`TwoSightings`. `SomethingOffered` says that every peer offers a characteristic: `Subscriptions` knows
of a map only whether it is empty, and cannot tell a peer without characteristics from one not yet
discovered. `Disciplined` says that discovery is on, that subscriptions are stopped before a
disconnection and that gattlib refuses none; section 3 says why.

*The queue.* None of the four properties is inductive. That an answer meets its action depends on where
the pieces of that action are: in gattlib's hands, or in the report queue as a step of the discovery, or
as the data of a read that is already marked completed. The inductive invariant of `BLECentralProofs`
says where: a call and a callback of the library's own belong to the first action, which is running, or
is a read that is done and whose data they are; there is one of these at most (a call, or one callback
in `draining` or `reportQueue`), none for a pending action; and an action that is completed has been
reported or its data is due, which runs before the next action can be reported. (That a running action
has such a token is not part of it: it need not, after an empty value or when `startScan` is running.)
With it, the step that answers has the right action first; the numbers in the queue are consecutive, so
all before it are reported. `OnlyFrontStarted` needs only the way the queue changes: appended to, its
head changed, its head removed.

`QueueMatches`, a part of the invariant, says that a call belongs to an operation that
was asked for; `"disconnect"` is always among them, since `shutdown()` queues one whatever the
application does, and so the invariant serves for `Shutdown` too.

*One operation after the other.* What `LegalCalls` and the four theorems after it have in common is that
a request is checked and carried out ticks apart. `SerialInv` adds to the queue's invariant that nothing
else is unfinished meanwhile (`OneAfterTheOther`, with the exception the code makes: a scan is
unfinished while `stopScan()` is under way), and that what the request checked is still so
(`StillReady`): that a connect is for the device `connected_to` names, and has its connection exactly
while a discovery of it is due; that the connection a read, a write or a disconnection uses is there;
that the adapter is open for a scan. `ScanAccounted` is the same for `is_scanning`, which is set when a
scan is asked for and reset when gattlib confirms that it has stopped. Neither part is inductive alone:
that a connection stays is known because no disconnection is unfinished, which is known because the read
is. `ConnectionConsistent` and `NoCrash` are then kept by each step, with nothing to add but that no
empty callback is queued. One device at a time is needed only where two connections could disagree, so
`LegalCalls` does without it.

*The refinement.* `Promise` maps the queue to the numbers of its actions, `running` to "the first is not
pending", and the history to itself. The steps map to `Submit`, `CancelAndSubmit`, `Start`,
`Conclude`, `Retire` or a stutter; that a popped action has been reported is where the invariant is used.

*Discovery.* Every step of `Discovery` is one of `BLECentral`, so the invariant of the queue holds in
it. `DiscoveryInv` adds to it what ties the maps to the queue (`StepsMatch`): a device is being
discovered exactly as long as one of the two steps is in `reportQueue` or `draining`, there is only one,
and its device is connected. The queue's invariant is what makes that inductive: a step of a discovery
is the token of the running connect(), so gattlib owes no answer meanwhile that could begin another
discovery or take the connection away, and when the second step runs no other is left. The type of the
maps depends on it (a step reads what the peer of that connection offers). That the buffers are those of
the writes not yet triggered is kept because answers, cancellations and the last step of a connect only
conclude actions that are started, and only done actions are popped.

`ReferencesGood` and the next two take both invariants. For the first, `ReferenceInv` says that a device
that is connected has been discovered or is being so, and that the references of the reads and writes
that are unfinished are good: a discovery that would clear the map is under way only as long as a
connect is unfinished. For the second, `FoundInTurn` says which steps have been made when another is
due: when the characteristics are, the services are those of the peer; when the report of the connect
is, both maps are. The third, a refinement, needs only that each step, under these invariants, is one of
the three actions `Subscriptions` has for connections, or a stutter.

*Shutdown.* Nothing is assumed about when operations are asked for: before the call, by callbacks while
`shutdown()` waits, and in the tick that goes on after it, they may overlap as they like.
`InterruptsNoReport` is `~(FromCallbacks /\ CutsIn)`: the interrupted tick has none of the library's own
callbacks still to run. It is needed by the proofs only, for the queue's invariant (`QueueInv`, about
the order of reports) would not hold; run `Shutdown` has `CutsIn = TRUE`, and finds the three properties
to hold there as well. `Interrupted` is what is then known of `outer`, and why `QueueInv` holds from the
first state to the end of the interrupted tick.

`WaitsForRunningOnly` bounds a counter, and `ClosersTurnComes` is its measure: what has been waited, and the
ticks needed to start and to remove each action up to `shutdown()`'s disconnection (`ticksNeeded`), come to
no more than `2 * (ahead + 1)`, and one for each tick that found the first action running. A tick that has
begun counts once more until its turn at the first action is over (`inTick`).

`ClosingInv` says what there is afterwards. `OnceRemoved`: when the disconnection has been removed from
the queue no action of it is running, and only the turn of an interrupted tick could start one; so a
connect that was asked for during the wait has no time to get a connection before the program ends. As
long as it has not been removed it is the first action, done, and nothing can be started behind it. Both
together are `NothingStarted`, and, with `ConnectedToNamesIt` (with one device connected at a time that
is the one `connected_to` names, and `deviceDisconnected()` clears it), `ConnectionsClosed`.

*The example programs.* `ble_scan` does not do one operation after the other: each sighting of its
target stops the scan and, once stopped, connects (`TwoSightings`), so `SerialInv` cannot be used; and
`ClosingInv` does not say what is to hold of them, that nothing is left in the queue that could open the
adapter. `ClientInv` says what the queue holds at each stage of a program instead. `Line`: the scan is
first, a stop has only scan operations before it, and `read_write` has nothing unfinished but its last
request. `StoppedFirst`: no stop is unfinished once there is a connection, so none can begin a second
life of the scan. `Situation` is where the program stands: it starts, it scans, gattlib works for the
first action, gattlib has answered and the report is due, or nothing is under way; each step leads from
one of these to another, and so each callback is known to be that of the first action. `Ending` is what
is left when the main loop has been left, and `CloserInTurn` that nothing but connections is before the
disconnection of `shutdown()`, and nothing at all after it; `FromMain` adds that it is called from the
main program, so that no tick goes on when it returns. `MaxSightings`, and what fails, are anything. The
invariant is one of `ExamplesSpec`, whose steps are those of `Shutdown` by definition but for the
application's: `ExamplesAreShutdown` says that these are, too.

*Subscriptions.* The inductive invariant is `SubscriptionInv`: a subscription exists only
on a connection that has been discovered (`LifeCycle`); then the counter is the number of flags, the flags
are what the peer was asked for, and the handler is set when the counter is not zero (`Counted`);
and no failure callback under way takes a count back (`NothingToUndo`). That the number of
characteristics is below 256 is an assumption, and needed: the counter wraps.

`CountRestored` needs no such assumptions. `HeldCounts` says that the failure callbacks under way are of
different devices, and that the counter of each of these is one more, modulo 256, than it was before:
whatever a callback asks for on that device comes upon its mutex. For `StoppedStaysSilent` the invariant
is about the report queue (`SilentInv`): a value in it whose characteristic is not to be heard any more
has the report of its stop after it, or is handed to a device that did not send it; and what the peer
has been asked for is to be heard (`AudibleInv`). The second case is the defect run `WrongDevice` shows,
hence the two forms of the theorem.

Only model-checked: `EveryOperationEnds` and `ProgramEnds`, which are liveness under fairness, beyond TLAPS.

## 7. The plan

Done, in the order of importance: the queue and the tick with every queued operation (`BLECentral`), its
promise (`OperationQueue`), the proofs about both; `Subscriptions` and its first proofs; the maps of
discovery (`Discovery`), with proofs, and their composition with `Subscriptions`; `shutdown()`
(`Shutdown`); the example programs as clients (`Examples`), with proofs.

Every invariant and every action property of the runs that pass is now a theorem. Next: conditions that
could be weakened. `InterruptsNoReport` is one: TLC finds no use of it. The two liveness properties stay
with TLC.

## 8. What is not modelled

* The destructor (`BLECentral.cpp:1291`): the singleton is made with `new` and never deleted.
* `performDiscovery()` (`BLECentral.cpp:1077`), which no code calls.
* An action that is destroyed while its own callback runs, which `shutdown()` in a callback may bring
  about: the behaviour is undefined, and what the builds do with it is not known from the sources.
* The mutex of a device in `Discovery`: it matters where a callback runs under it, which is in
  `Subscriptions`.
* `stopAllNotifications()` in `Shutdown`: it is in `Subscriptions`, and touches neither the queue nor
  the connection.
* The cache of names, the formatting of identifiers, values, addresses: no property depends on them.
* Configuration, platform and debug headers: macros, no state.
* gattlib and BlueZ: external, represented by what the sources rely on (section 2).
