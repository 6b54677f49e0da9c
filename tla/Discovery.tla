------------------------------ MODULE Discovery ------------------------------
(***************************************************************************)
(* What discovery finds: the maps of services and characteristics each     *)
(* device's record keeps (gattlibpp/DeviceDetails.cpp), filled by the      *)
(* steps that follow a connection and consulted by read() and write()      *)
(* (gattlibpp/BLECentral.cpp).  Every step is a step of BLECentral.tla     *)
(* together with what it does to these maps.                               *)
(*                                                                         *)
(* The maps outlive the connection.  The trigger of a read or a write      *)
(* holds a reference to an element of the map, some ticks old when it is   *)
(* used; that of a write holds the buffer with the value as well.          *)
(***************************************************************************)
EXTENDS BLECentral

CONSTANTS
  Properties,  \* Properties[c]: the property bits of characteristic c
  Offers       \* what a peer may offer: its services and characteristics

Chars == DOMAIN Properties

ASSUME DiscoveryAssumption ==
  \A o \in Offers : o.characteristics \subseteq Chars

VARIABLES
  discovery_done,
  services,         \* the UUIDs in the map of that name
  characteristics,  \* the UUIDs in the map of that name
  steps,            \* the devices of the discovery steps pending, in order
  reference,        \* reference[i]: what the trigger of action i refers to
  buffers,          \* the actions whose buffer is allocated
  offer,            \* gattlib: what the peers offer since they were connected
  missed            \* history: has gattlib failed to list it since then?

table == <<discovery_done, services, characteristics>>
held == <<reference, buffers>>
discoveryVars == <<vars, table, steps, held, offer, missed>>

DiscoveryTypeOK ==
  /\ discovery_done \in [Devices -> BOOLEAN]
  /\ services \in [Devices -> SUBSET UNION {o.services : o \in Offers}]
  /\ characteristics \in [Devices -> SUBSET Chars]
  /\ steps \in Seq(Devices)
  /\ reference \in [Ids -> {"none", "live", "dangling"}]
  /\ buffers \subseteq Ids
  /\ offer \in [Devices -> Offers]
  /\ missed \in [Devices -> BOOLEAN]

DiscoveryInit ==
  /\ Init
  /\ discovery_done = [d \in Devices |-> FALSE]
  /\ services = [d \in Devices |-> {}]
  /\ characteristics = [d \in Devices |-> {}]
  /\ steps = <<>>
  /\ reference = [i \in Ids |-> "none"]
  /\ buffers = {}
  /\ offer \in {[d \in Devices |-> o] : o \in Offers}
  /\ missed = [d \in Devices |-> FALSE]

-----------------------------------------------------------------------------
(* Looking up a characteristic                                             *)

supports(c, p) == p \in Properties[c]
supportsReads(c) == supports(c, "Read")
supportsWrites(c) == supports(c, "Write") \/ supports(c, "WriteWithoutResp")

\* Mutated: hasCharacteristic() is not consulted.
getUUIDForChar_Unknown(d, c, opSupp) == discovery_done[d] => opSupp

\* Without discovery any UUID will do ("going blind").
getUUIDForChar(d, c, opSupp) ==
  discovery_done[d] => c \in characteristics[d] /\ opSupp

\* characteristic(uuid) of the next action: end() is dereferenced unless the
\* map has it.
refersTo(d, c) ==
  reference' = [reference EXCEPT
                  ![nextId] = IF c \in characteristics[d] THEN "live" ELSE "dangling"]

ReadCharacteristic(d, c) ==
  /\ Read(d)
  /\ getUUIDForChar(d, c, supportsReads(c))
  /\ refersTo(d, c)
  /\ UNCHANGED <<table, steps, buffers, offer, missed>>

WriteCharacteristic(d, c) ==
  /\ Write(d)
  /\ getUUIDForChar(d, c, supportsWrites(c))
  /\ refersTo(d, c)
  /\ buffers' = buffers \cup {nextId}
  /\ UNCHANGED <<table, steps, offer, missed>>

\* What the application is shown of a device.
servicesFor(d) == IF discovery_done[d] THEN services[d] ELSE {}
characteristicsFor(d) == IF discovery_done[d] THEN characteristics[d] ELSE {}

-----------------------------------------------------------------------------
(* Filling the maps                                                        *)

\* The steps of the discovery are pushed for the device connected_to names.
Connected(g, peer) ==
  /\ DeviceConnected(g, peer)
  /\ IF peer = None
       THEN UNCHANGED <<offer, missed>>
       ELSE /\ offer' \in {[offer EXCEPT ![peer] = o] : o \in Offers}
            /\ missed' = [missed EXCEPT ![peer] = FALSE]
  /\ steps' = IF discovers(peer) /\ phase' # "crashed"
                THEN Append(steps, connected_to) ELSE steps
  /\ UNCHANGED <<table, held>>

\* performServiceDiscovery(): the maps keep what they hold when gattlib fails.
PerformServiceDiscovery(found) ==
  /\ DiscoverServicesStep
  /\ LET d == Head(steps)
     IN /\ services' = IF found THEN [services EXCEPT ![d] = offer[connection[d]].services]
                                ELSE services
        /\ missed' = [missed EXCEPT ![connection[d]] = @ \/ ~found]
        /\ steps' = Append(Tail(steps), d)
  /\ UNCHANGED <<discovery_done, characteristics, held, offer>>

\* Mutated: the services are listed again.
listed_Services(d) ==
  /\ characteristics' = [characteristics EXCEPT ![d] = offer[connection[d]].services]
  /\ UNCHANGED reference

\* Mutated: the characteristics found before are not cleared.
listed_Added(d) ==
  /\ characteristics' =
       [characteristics EXCEPT ![d] = @ \cup offer[connection[d]].characteristics]
  /\ UNCHANGED reference

\* The map is cleared and filled anew: references into it are lost.
listed(d) ==
  /\ characteristics' =
       [characteristics EXCEPT ![d] = offer[connection[d]].characteristics]
  /\ reference' = [i \in Ids |->
       IF \E k \in DOMAIN asyncActions : asyncActions[k].id = i /\ asyncActions[k].dev = d
          /\ reference[i] = "live" THEN "dangling" ELSE reference[i]]

\* performCharacteristicsDiscovery(), and discovery_done whatever its result.
PerformCharacteristicsDiscovery(found) ==
  /\ DiscoverCharacteristicsStep
  /\ LET d == Head(steps)
     IN /\ IF found THEN listed(d) ELSE UNCHANGED <<characteristics, reference>>
        /\ missed' = [missed EXCEPT ![connection[d]] = @ \/ ~found]
        /\ discovery_done' = [discovery_done EXCEPT ![d] = TRUE]
  /\ steps' = Tail(steps)
  /\ UNCHANGED <<services, buffers, offer>>

-----------------------------------------------------------------------------
(* The rest of the central                                                 *)

\* Mutated: the buffer is deleted when gattlib has accepted the write only.
released_IfAccepted == IF gattlib' # gattlib THEN buffers \ {front.id} ELSE buffers

\* The trigger of a write deletes its buffer, whatever gattlib says.
released == buffers \ {front.id}

TriggerFront ==
  /\ TriggerAccepted \/ TriggerRefused \/ TriggerStopScanDone
  /\ buffers' = released
  /\ UNCHANGED <<table, steps, reference, offer, missed>>

OtherRequest ==
  \/ AdapterOpen
  \/ AdapterClose
  \/ SetAutoDiscoverOnConnect
  \/ \E op \in {"enable", "enableNull"} : Enable(op)
  \/ \E op \in ScanOps : Scan(op)
  \/ StopScan
  \/ \E d \in Devices : Connect(d) \/ Disconnect(d)

OtherAnswer(g) ==
  \/ ScanEnded(g)
  \/ DeviceDisconnected(g)
  \/ \E empty \in {FALSE, EmptyReads} : ReadAnswered(g, empty)
  \/ \E result \in {"ok", "fail"} : WriteAnswered(g, result)

OtherTick ==
  \/ ProcessAsync
  \/ TakeReports
  \/ ConnectedStep \/ DataStep \/ UserStep \/ NullStep
  \/ PopDone \/ NothingToDo

Elsewhere ==
  /\ OtherRequest \/ (\E g \in gattlib : DeviceDiscovered(g) \/ OtherAnswer(g)) \/ OtherTick
  /\ UNCHANGED <<table, steps, held, offer, missed>>

DiscoveryNext ==
  \/ \E d \in Devices, c \in Chars : ReadCharacteristic(d, c) \/ WriteCharacteristic(d, c)
  \/ \E g \in gattlib : \E peer \in {g.dev, None} : Connected(g, peer)
  \/ \E found \in BOOLEAN :
       PerformServiceDiscovery(found) \/ PerformCharacteristicsDiscovery(found)
  \/ TriggerFront
  \/ Elsewhere

DiscoverySpec == DiscoveryInit /\ [][DiscoveryNext]_discoveryVars

-----------------------------------------------------------------------------
(* Properties that hold in whatever order operations are asked for         *)

\* The steps of a discovery come ticks after the connection: it is still there
\* when they call gattlib on it, and nothing else is being discovered.
DiscoveryOnConnection ==
  /\ Len(steps) <= 1
  /\ \A k \in DOMAIN steps : connection[steps[k]] # None

\* A write's buffer is allocated at the request and deleted in the trigger, if
\* that is ever run: the buffers are those of the writes yet to be triggered.
BuffersOfPendingWrites ==
  buffers = {asyncActions[k].id : k \in
               {j \in DOMAIN asyncActions :
                  asyncActions[j].op = "write" /\ isPending(asyncActions[j])}}

-----------------------------------------------------------------------------
(* Properties for an application that keeps to the README's limitations    *)

\* The characteristic a read or a write was asked for is still in the map when
\* its trigger passes gattlib the reference kept since the request.
ReferencesLive ==
  [][\A g \in gattlib' \ gattlib :
       g.op \in {"read", "write"} => reference[g.id] = "live"]_discoveryVars

\* When connect() reports success, the application is shown what the peer of
\* this connection offers, not what an earlier one did, unless gattlib failed
\* to list it (which the code does not report).
ConnectedMeansDiscovered ==
  [][\A k \in DOMAIN asyncActions :
       LET a == asyncActions[k]
       IN a.op = "connect" /\ outcome'[a.id] = Append(outcome[a.id], "ok")
          /\ auto_discover /\ ~missed[a.dev] =>
            /\ servicesFor(a.dev) = offer[a.dev].services
            /\ characteristicsFor(a.dev) = offer[a.dev].characteristics]_discoveryVars

\* Seen through this mapping connections and discovery are those Subscriptions.tla
\* describes in short form, for an application without subscriptions: a peer is
\* connected once at a time, is discovered to the end before anything is asked
\* of it, and is not disconnected while it is.  What is found stands for all.
Short == INSTANCE Subscriptions WITH
  Subscribable <- {}, AutoDiscover <- BOOLEAN, StopsFirst <- TRUE, NestedCalls <- FALSE,
  Refusals <- {}, reportQueue <- <<>>,
  connected <- [d \in Devices |-> isConnected(d)],
  discovering <- [d \in Devices |-> \E k \in DOMAIN steps : steps[k] = d],
  characteristics <- [d \in Devices |-> IF characteristics[d] = {} THEN {} ELSE Chars],
  registeredForNotifs <- [d \in Devices |-> {}],
  num_registered_for_notifs <- [d \in Devices |-> 0],
  notifHandlers <- [d \in Devices |-> {}],
  frames <- <<>>, stuck <- FALSE, audible <- {},
  glHandler <- [d \in Devices |-> FALSE], glSubscribed <- [d \in Devices |-> {}]

ImplementsShortForm == Short!Spec

=============================================================================
