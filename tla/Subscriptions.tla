---------------------------- MODULE Subscriptions ----------------------------
(***************************************************************************)
(* Subscriptions to notifications: what startNotification() and its kin    *)
(* keep in each device's record (gattlibpp/DeviceDetails.cpp), and the     *)
(* calls they make of gattlib (gattlibpp/BLECentral.cpp).                  *)
(*                                                                         *)
(* These requests do all their work in place.  What takes time is taken    *)
(* from BLECentral.tla in short form: connections come and go, discovery   *)
(* follows a connection some ticks later, callbacks run from one queue (q  *)
(* and reportQueue end to end).  A failure callback of these requests is   *)
(* called while the device's mutex is held; frames are the calls whose     *)
(* failure callback is running.                                            *)
(***************************************************************************)
EXTENDS Naturals, Sequences, FiniteSets, SequencesExt

CONSTANTS
  Devices,
  Chars,         \* UUIDs, lower case, of the characteristics of the devices
  Subscribable,  \* those with the property Notify or Indicate
  AutoDiscover,  \* the values auto_discover takes
  OneDevice,     \* does the application connect to one device at a time?
  StopsFirst,    \* does it stop every subscription before it disconnects?
  NestedCalls,   \* do its failure callbacks make requests?
  Refusals,      \* the calls gattlib may refuse: "start", "stop"
  MaxReports     \* bound: callbacks pending in the report queue

CounterSize == 256   \* num_registered_for_notifs is a uint8_t

ASSUME SubscriptionsAssumption ==
  /\ Subscribable \subseteq Chars
  /\ IsFiniteSet(Devices)
  /\ IsFiniteSet(Chars) /\ Cardinality(Chars) < CounterSize
  /\ AutoDiscover \subseteq BOOLEAN /\ Refusals \subseteq {"start", "stop"}
  /\ {OneDevice, StopsFirst, NestedCalls} \subseteq BOOLEAN
  /\ MaxReports \in Nat

VARIABLES
  connected,                  \* devices[d].connection is not NULL
  discovering,                \* the steps of autoDiscover...() are pending
  discovery_done,
  characteristics,            \* the UUIDs in the map of that name
  registeredForNotifs,        \* those of them with the flag of that name set
  num_registered_for_notifs,
  notifHandlers,              \* the UUIDs in the map of that name
  frames,                     \* calls in their failure callback, innermost last
  stuck,                      \* a mutex was locked by its own holder
  reportQueue,
  glHandler,                  \* gattlib: is our handler set on the connection?
  glSubscribed,               \* gattlib: what the peer sends notifications of
  audible                     \* history: started, and no stop reported since

table == <<discovery_done, characteristics>>
gatt == <<glHandler, glSubscribed>>
vars == <<connected, discovering, table, registeredForNotifs, num_registered_for_notifs,
          notifHandlers, frames, stuck, reportQueue, gatt, audible>>

\* "data" is a value for the handler of dev, sent by src; "stopped" is the
\* success callback of stopNotification().
Reports == [what : {"data", "stopped"}, dev : Devices, char : Chars, src : Devices]
\* before is history: the device's counter when the call was made.
Frames == [dev : Devices, undo : BOOLEAN, before : 0..(CounterSize - 1)]

TypeOK ==
  /\ connected \in [Devices -> BOOLEAN]
  /\ discovering \in [Devices -> BOOLEAN]
  /\ discovery_done \in [Devices -> BOOLEAN]
  /\ characteristics \in [Devices -> SUBSET Chars]
  /\ registeredForNotifs \in [Devices -> SUBSET Chars]
  /\ num_registered_for_notifs \in [Devices -> 0..(CounterSize - 1)]
  /\ notifHandlers \in [Devices -> SUBSET Chars]
  /\ frames \in Seq(Frames)
  /\ stuck \in BOOLEAN
  /\ reportQueue \in Seq(Reports)
  /\ glHandler \in [Devices -> BOOLEAN]
  /\ glSubscribed \in [Devices -> SUBSET Chars]
  /\ audible \subseteq Devices \X Chars

Init ==
  /\ connected = [d \in Devices |-> FALSE]
  /\ discovering = [d \in Devices |-> FALSE]
  /\ discovery_done = [d \in Devices |-> FALSE]
  /\ characteristics = [d \in Devices |-> {}]
  /\ registeredForNotifs = [d \in Devices |-> {}]
  /\ num_registered_for_notifs = [d \in Devices |-> 0]
  /\ notifHandlers = [d \in Devices |-> {}]
  /\ frames = <<>>
  /\ stuck = FALSE
  /\ reportQueue = <<>>
  /\ glHandler = [d \in Devices |-> FALSE]
  /\ glSubscribed = [d \in Devices |-> {}]
  /\ audible = {}

-----------------------------------------------------------------------------
(* Connections, as far as they matter here                                 *)

\* Outside of the failure callbacks the program goes on as in BLECentral.tla.
ticking == frames = <<>> /\ ~stuck

\* deviceConnected(): the new connection knows nothing of the one before it.
DeviceConnected(d, discover) ==
  /\ ticking /\ ~connected[d]
  /\ OneDevice => \A e \in Devices : ~connected[e]
  /\ connected' = [connected EXCEPT ![d] = TRUE]
  /\ discovering' = [discovering EXCEPT ![d] = discover]
  /\ UNCHANGED <<table, registeredForNotifs, num_registered_for_notifs, notifHandlers,
                 frames, stuck, reportQueue, gatt, audible>>

\* autoDiscoverCharacteristicsStep(): when gattlib fails to list them the
\* characteristics found before are kept, flags included.
DiscoverCharacteristics(d, found) ==
  /\ ticking /\ discovering[d]
  /\ discovering' = [discovering EXCEPT ![d] = FALSE]
  /\ discovery_done' = [discovery_done EXCEPT ![d] = TRUE]
  /\ IF found
       THEN /\ characteristics' = [characteristics EXCEPT ![d] = Chars]
            /\ registeredForNotifs' = [registeredForNotifs EXCEPT ![d] = {}]
       ELSE UNCHANGED <<characteristics, registeredForNotifs>>
  /\ UNCHANGED <<connected, num_registered_for_notifs, notifHandlers, frames, stuck,
                 reportQueue, gatt, audible>>

\* deviceDisconnected(): the record of the device keeps all but the connection.
DeviceDisconnected(d) ==
  /\ ticking /\ connected[d] /\ ~discovering[d]
  /\ StopsFirst => glSubscribed[d] = {}
  /\ connected' = [connected EXCEPT ![d] = FALSE]
  /\ glHandler' = [glHandler EXCEPT ![d] = FALSE]
  /\ glSubscribed' = [glSubscribed EXCEPT ![d] = {}]
  /\ UNCHANGED <<discovering, table, registeredForNotifs, num_registered_for_notifs,
                 notifHandlers, frames, stuck, reportQueue, audible>>

-----------------------------------------------------------------------------
(* Looking up a characteristic                                             *)

\* A request on a connected device: the application waits for its connect().
MayRequest(d) ==
  /\ ~stuck /\ (NestedCalls \/ frames = <<>>)
  /\ connected[d] /\ ~discovering[d]

\* Mutated: nothing is locked.
locked_Never(d) == FALSE
locked(d) == \E i \in DOMAIN frames : frames[i].dev = d

\* Without discovery any UUID will do ("going blind").
getUUIDForChar(d, c) ==
  discovery_done[d] => c \in characteristics[d] \cap Subscribable

fails(d, undo) ==
  frames' = Append(frames, [dev |-> d, undo |-> undo, before |-> num_registered_for_notifs[d]])

\* read(), write(), startNotification() or stopNotification() of something
\* that is not there, or does not support it.  read() and write() that find
\* what they want change nothing here.
LookUpFails(d, c) ==
  /\ MayRequest(d) /\ ~locked(d)
  /\ ~getUUIDForChar(d, c)
  /\ fails(d, FALSE)
  /\ UNCHANGED <<connected, discovering, table, registeredForNotifs, num_registered_for_notifs,
                 notifHandlers, stuck, reportQueue, gatt, audible>>

\* Any of them locks the mutex of the device again.
LockAgain(d) ==
  /\ MayRequest(d) /\ locked(d)
  /\ stuck' = TRUE
  /\ UNCHANGED <<connected, discovering, table, registeredForNotifs, num_registered_for_notifs,
                 notifHandlers, frames, reportQueue, gatt, audible>>

\* The innermost failure callback returns, and the call with it.  One that was
\* refused its subscription takes back the count.
FailureReturns ==
  /\ frames # <<>> /\ ~stuck
  /\ LET f == Last(frames)
     IN num_registered_for_notifs' =
          IF f.undo
            THEN [num_registered_for_notifs EXCEPT ![f.dev] = (@ + CounterSize - 1) % CounterSize]
            ELSE num_registered_for_notifs
  /\ frames' = Front(frames)
  /\ UNCHANGED <<connected, discovering, table, registeredForNotifs, notifHandlers, stuck,
                 reportQueue, gatt, audible>>

-----------------------------------------------------------------------------
(* startNotification()                                                     *)

setNotificationHandler(d, c) == notifHandlers' = [notifHandlers EXCEPT ![d] = @ \cup {c}]

\* Mutated: the counter is wider than its type.
register_Wide(d) ==
  /\ num_registered_for_notifs' = [num_registered_for_notifs EXCEPT ![d] = @ + 1]
  /\ glHandler' = [glHandler EXCEPT ![d] = @ \/ num_registered_for_notifs[d] = 0]

\* The first subscription sets the global handler on the connection.
register(d) ==
  /\ num_registered_for_notifs' =
       [num_registered_for_notifs EXCEPT ![d] = (@ + 1) % CounterSize]
  /\ glHandler' = [glHandler EXCEPT ![d] = @ \/ num_registered_for_notifs[d] = 0]

\* Mutated: the flag is not set.
flagged_Never(d, c) == UNCHANGED registeredForNotifs

\* The flag is set, if discovery has found the characteristic.
flagged(d, c) ==
  registeredForNotifs' = [registeredForNotifs EXCEPT ![d] = @ \cup ({c} \cap characteristics[d])]

StartNotification(d, c) ==
  /\ MayRequest(d) /\ ~locked(d)
  /\ getUUIDForChar(d, c)
  /\ c \notin registeredForNotifs[d]
  /\ flagged(d, c)
  /\ setNotificationHandler(d, c)
  /\ register(d)
  /\ glSubscribed' = [glSubscribed EXCEPT ![d] = @ \cup {c}]
  /\ audible' = audible \cup {<<d, c>>}
  /\ UNCHANGED <<connected, discovering, table, frames, stuck, reportQueue>>

StartNotificationAgain(d, c) ==
  /\ MayRequest(d) /\ ~locked(d)
  /\ getUUIDForChar(d, c)
  /\ c \in registeredForNotifs[d]
  /\ setNotificationHandler(d, c)
  /\ audible' = audible \cup {<<d, c>>}
  /\ UNCHANGED <<connected, discovering, table, registeredForNotifs, num_registered_for_notifs,
                 frames, stuck, reportQueue, gatt>>

\* gattlib_notification_start() fails.
StartNotificationRefused(d, c) ==
  /\ "start" \in Refusals
  /\ MayRequest(d) /\ ~locked(d)
  /\ getUUIDForChar(d, c)
  /\ c \notin registeredForNotifs[d]
  /\ flagged(d, c)
  /\ setNotificationHandler(d, c)
  /\ register(d)
  /\ fails(d, TRUE)
  /\ UNCHANGED <<connected, discovering, table, stuck, reportQueue, glSubscribed, audible>>

-----------------------------------------------------------------------------
(* stopNotification()                                                      *)

\* Mutated: the handler goes with the first subscription to be stopped.
unregister_First(d, count) ==
  /\ num_registered_for_notifs' =
       [num_registered_for_notifs EXCEPT ![d] = IF @ > count THEN @ - count ELSE 0]
  /\ glHandler' = [glHandler EXCEPT ![d] = @ /\ count = 0]

\* The last of count subscriptions to go removes the global handler.
unregister(d, count) ==
  /\ num_registered_for_notifs' =
       [num_registered_for_notifs EXCEPT ![d] = IF @ > count THEN @ - count ELSE 0]
  /\ glHandler' =
       [glHandler EXCEPT ![d] = @ /\ num_registered_for_notifs[d] \notin 1..count]

\* Mutated: the report of the stop overtakes the notifications received.
reportStopped_First(d, c) ==
  /\ Len(reportQueue) < MaxReports
  /\ reportQueue' = <<[what |-> "stopped", dev |-> d, char |-> c, src |-> d]>> \o reportQueue

reportStopped(d, c) ==
  /\ Len(reportQueue) < MaxReports
  /\ reportQueue' = Append(reportQueue, [what |-> "stopped", dev |-> d, char |-> c, src |-> d])

\* Without discovery there is no flag, and always something to stop.
shouldUnRegister(d, c) == c \in characteristics[d] => c \in registeredForNotifs[d]

StopNotification(d, c) ==
  /\ MayRequest(d) /\ ~locked(d)
  /\ getUUIDForChar(d, c)
  /\ shouldUnRegister(d, c)
  /\ registeredForNotifs' = [registeredForNotifs EXCEPT ![d] = @ \ {c}]
  /\ unregister(d, 1)
  /\ glSubscribed' = [glSubscribed EXCEPT ![d] = @ \ {c}]
  /\ reportStopped(d, c)
  /\ audible' = audible \ {<<d, c>>}
  /\ UNCHANGED <<connected, discovering, table, notifHandlers, frames, stuck>>

StopNotificationAgain(d, c) ==
  /\ MayRequest(d) /\ ~locked(d)
  /\ getUUIDForChar(d, c)
  /\ ~shouldUnRegister(d, c)
  /\ reportStopped(d, c)
  /\ audible' = audible \ {<<d, c>>}
  /\ UNCHANGED <<connected, discovering, table, registeredForNotifs, num_registered_for_notifs,
                 notifHandlers, frames, stuck, gatt>>

\* gattlib_notification_stop() fails.
StopNotificationRefused(d, c) ==
  /\ "stop" \in Refusals
  /\ MayRequest(d) /\ ~locked(d)
  /\ getUUIDForChar(d, c)
  /\ shouldUnRegister(d, c)
  /\ registeredForNotifs' = [registeredForNotifs EXCEPT ![d] = @ \ {c}]
  /\ unregister(d, 1)
  /\ fails(d, FALSE)
  /\ UNCHANGED <<connected, discovering, table, notifHandlers, stuck, reportQueue,
                 glSubscribed, audible>>

\* stopNotification(), without callbacks, of every characteristic registered.
StopAllNotifications(d) ==
  /\ MayRequest(d) /\ ~locked(d)
  /\ unregister(d, Cardinality(registeredForNotifs[d]))
  /\ \E refused \in SUBSET registeredForNotifs[d] :
       /\ refused # {} => "stop" \in Refusals
       /\ glSubscribed' = [glSubscribed EXCEPT ![d] = @ \ (registeredForNotifs[d] \ refused)]
  /\ registeredForNotifs' = [registeredForNotifs EXCEPT ![d] = {}]
  /\ UNCHANGED <<connected, discovering, table, notifHandlers, frames, stuck, reportQueue,
                 audible>>

-----------------------------------------------------------------------------
(* Notifications received                                                  *)

\* The devices that have a handler for a notification of c, sent by src.
listeners(src, c) == {e \in Devices : c \in notifHandlers[e]}

\* The peer sends a notification, handleNotification() passes it on.
HandleNotification(d, c) ==
  /\ ticking /\ glHandler[d] /\ c \in glSubscribed[d]
  /\ Len(reportQueue) < MaxReports
  /\ reportQueue' = reportQueue \o
       SetToSeq({[what |-> "data", dev |-> e, char |-> c, src |-> d] : e \in listeners(d, c)})
  /\ UNCHANGED <<connected, discovering, table, registeredForNotifs, num_registered_for_notifs,
                 notifHandlers, frames, stuck, gatt, audible>>

RunReport ==
  /\ ticking /\ reportQueue # <<>>
  /\ reportQueue' = Tail(reportQueue)
  /\ UNCHANGED <<connected, discovering, table, registeredForNotifs, num_registered_for_notifs,
                 notifHandlers, frames, stuck, gatt, audible>>

-----------------------------------------------------------------------------
Next ==
  \/ \E d \in Devices :
       \/ \E discover \in AutoDiscover : DeviceConnected(d, discover)
       \/ \E found \in BOOLEAN : DiscoverCharacteristics(d, found)
       \/ DeviceDisconnected(d)
       \/ LockAgain(d)
       \/ StopAllNotifications(d)
       \/ \E c \in Chars :
            \/ LookUpFails(d, c)
            \/ StartNotification(d, c)
            \/ StartNotificationAgain(d, c)
            \/ StartNotificationRefused(d, c)
            \/ StopNotification(d, c)
            \/ StopNotificationAgain(d, c)
            \/ StopNotificationRefused(d, c)
            \/ HandleNotification(d, c)
  \/ FailureReturns
  \/ RunReport

Spec == Init /\ [][Next]_vars

-----------------------------------------------------------------------------
(* Properties                                                              *)

\* clib_notification_handler_callback() is set on the connection as long as
\* the peer has notifications to send on it: counting the subscriptions, in a
\* record that outlives the connection, comes to that (startNotification(),
\* BLECentral.cpp:795-808, stopNotification(), 866-875).
HandlerWhileSubscribed ==
  \A d \in Devices : glSubscribed[d] # {} => glHandler[d]

\* The flags registeredForNotifs, on which startNotification() and
\* stopNotification() decide to do nothing, say what gattlib and the peer do.
RegisteredIsSubscribed ==
  \A d \in Devices : connected[d] /\ ~discovering[d] /\ discovery_done[d] =>
    registeredForNotifs[d] = glSubscribed[d]

\* Once stopNotification() has reported its success, the handler of that
\* characteristic is not called, until it is subscribed to again: what the
\* report queue still holds for it is ahead of the report.
StoppedStaysSilent ==
  \A i \in DOMAIN reportQueue :
    LET r == reportQueue[i]
    IN r.what = "data" /\ <<r.dev, r.char>> \notin audible =>
         \E j \in DOMAIN reportQueue :
           j > i /\ reportQueue[j] = [what |-> "stopped", dev |-> r.dev, char |-> r.char,
                                      src |-> r.dev]

\* A refused startNotification() leaves the counter as it found it, whatever
\* its failure callback has asked for: the mutex is held for that.
CountRestored ==
  [][\A i \in DOMAIN frames :
       LET f == frames[i]
       IN f.undo /\ Len(frames') = i - 1 => num_registered_for_notifs'[f.dev] = f.before]_vars

\* BLECentral.h:362: startNotification(device, ...) is about one device; its
\* callback is called with what that device sends.
HandedToItsDevice ==
  \A i \in DOMAIN reportQueue : reportQueue[i].dev = reportQueue[i].src

\* README.md:129: operations are made in "a string of nested callbacks", the
\* failure callbacks among them.
NoSelfDeadlock == ~stuck

=============================================================================
