------------------------- MODULE SubscriptionsProofs -------------------------
(***************************************************************************)
(* What the counter, the flags, the global handler and the report queue of *)
(* Subscriptions come to, for any number of devices and up to 255          *)
(* characteristics.                                                        *)
(*                                                                         *)
(* The types, and that a refused start leaves its counter as it was, hold  *)
(* whatever the application and gattlib do.  The rest holds as long as     *)
(* every connection is followed by discovery, the application stops its    *)
(* subscriptions before it disconnects, and gattlib refuses no start and   *)
(* no stop.                                                                *)
(***************************************************************************)
EXTENDS Subscriptions, FiniteSetTheorems, SequenceTheorems, TLAPS

Disciplined == AutoDiscover = {TRUE} /\ StopsFirst /\ Refusals = {}

\* The part of the type invariant the argument needs.
Typed ==
  /\ connected \in [Devices -> BOOLEAN]
  /\ discovering \in [Devices -> BOOLEAN]
  /\ discovery_done \in [Devices -> BOOLEAN]
  /\ characteristics \in [Devices -> SUBSET Chars]
  /\ registeredForNotifs \in [Devices -> SUBSET Chars]
  /\ num_registered_for_notifs \in [Devices -> Nat]
  /\ glHandler \in [Devices -> BOOLEAN]
  /\ glSubscribed \in [Devices -> SUBSET Chars]
  /\ frames \in Seq([dev : Devices, undo : BOOLEAN, before : Nat])

\* A connection past its discovery is the only one with subscriptions.
LifeCycle(d) ==
  /\ glSubscribed[d] # {} => connected[d] /\ ~discovering[d]
  /\ discovering[d] => connected[d]
  /\ connected[d] /\ ~discovering[d] => discovery_done[d]

\* The counter is the number of flags, which are those of gattlib, and the
\* handler is set unless it is zero.
Counted(d) ==
  /\ registeredForNotifs[d] = glSubscribed[d]
  /\ num_registered_for_notifs[d] = Cardinality(registeredForNotifs[d])
  /\ num_registered_for_notifs[d] # 0 => glHandler[d]

NothingToUndo == \A i \in DOMAIN frames : ~frames[i].undo

SubscriptionInv ==
  /\ Typed
  /\ \A d \in Devices : LifeCycle(d) /\ Counted(d)
  /\ NothingToUndo

-----------------------------------------------------------------------------
\* A device has few enough characteristics for its counter, and a set of them
\* has a size that grows and shrinks with it.
LEMMA Sizes ==
  ASSUME NEW S \in SUBSET Chars, NEW c \in Chars
  PROVE  /\ Cardinality(S) \in Nat /\ Cardinality(S) < CounterSize
         /\ c \notin S => Cardinality(S \cup {c}) = Cardinality(S) + 1
         /\ c \in S => Cardinality(S \ {c}) = Cardinality(S) - 1
         /\ Cardinality(S \cup {c}) < CounterSize
<1>1. IsFiniteSet(S) /\ S \cup {c} \subseteq Chars
  BY SubscriptionsAssumption, FS_Subset
<1>2. Cardinality(Chars) \in Nat /\ Cardinality(Chars) < CounterSize
  BY SubscriptionsAssumption, FS_CardinalityType
<1>3. /\ Cardinality(S) \in Nat /\ Cardinality(S) <= Cardinality(Chars)
      /\ Cardinality(S \cup {c}) \in Nat /\ Cardinality(S \cup {c}) <= Cardinality(Chars)
  BY <1>1, SubscriptionsAssumption, FS_Subset, FS_CardinalityType
<1>4. c \notin S => Cardinality(S \cup {c}) = Cardinality(S) + 1
  BY <1>1, FS_AddElement
<1>5. c \in S => Cardinality(S \ {c}) = Cardinality(S) - 1
  BY <1>1, FS_RemoveElement
<1>. QED
  BY <1>2, <1>3, <1>4, <1>5 DEF CounterSize

\* Nothing is connected, registered or counted at the start.
LEMMA SubscriptionInit == Init => SubscriptionInv
<1>. SUFFICES ASSUME Init PROVE SubscriptionInv
  OBVIOUS
<1>1. Typed
  BY DEF Init, Typed
<1>2. \A d \in Devices : LifeCycle(d) /\ Counted(d)
  BY FS_EmptySet DEF Init, LifeCycle, Counted
<1>3. NothingToUndo
  BY DEF Init, NothingToUndo
<1>. QED
  BY <1>1, <1>2, <1>3 DEF SubscriptionInv

\* Steps that touch only the history, the report queue and stuck.
LEMMA Elsewhere ==
  ASSUME SubscriptionInv,
         UNCHANGED <<connected, discovering, discovery_done, characteristics, registeredForNotifs,
                     num_registered_for_notifs, frames, glHandler, glSubscribed>>
  PROVE  SubscriptionInv'
BY DEF SubscriptionInv, Typed, LifeCycle, Counted, NothingToUndo

\* A failure callback begins, with nothing to undo after it.
LEMMA Failing ==
  ASSUME SubscriptionInv, NEW d \in Devices, fails(d, FALSE),
         UNCHANGED <<connected, discovering, discovery_done, characteristics, registeredForNotifs,
                     num_registered_for_notifs, glHandler, glSubscribed>>
  PROVE  SubscriptionInv'
<1>. DEFINE f == [dev |-> d, undo |-> FALSE, before |-> num_registered_for_notifs[d]]
            F == [dev : Devices, undo : BOOLEAN, before : Nat]
<1>1. f \in F /\ frames \in Seq(F)
  BY DEF SubscriptionInv, Typed
<1>2. frames' = Append(frames, f)
  BY DEF fails
<1>3. frames' \in Seq(F)
  BY <1>1, <1>2
<1>4. NothingToUndo'
  <2>. SUFFICES ASSUME NEW i \in DOMAIN frames' PROVE ~frames'[i].undo
    BY DEF NothingToUndo
  <2>1. frames'[i] = IF i = Len(frames) + 1 THEN f ELSE frames[i]
    BY <1>1, <1>2
  <2>2. i = Len(frames) + 1 \/ i \in DOMAIN frames
    BY <1>1, <1>2
  <2>. QED
    BY <2>1, <2>2 DEF SubscriptionInv, NothingToUndo
<1>5. Typed' /\ \A e \in Devices : (LifeCycle(e) /\ Counted(e))'
  BY <1>3 DEF SubscriptionInv, Typed, LifeCycle, Counted
<1>. QED
  BY <1>4, <1>5 DEF SubscriptionInv

\* A sequence without its last element is a sequence of the same elements.
LEMMA FrontOfSeq ==
  ASSUME NEW F, NEW s \in Seq(F), s # <<>>
  PROVE  /\ SubSeq(s, 1, Len(s) - 1) \in Seq(F)
         /\ Len(SubSeq(s, 1, Len(s) - 1)) = Len(s) - 1
         /\ \A i \in DOMAIN SubSeq(s, 1, Len(s) - 1) :
              i \in DOMAIN s /\ SubSeq(s, 1, Len(s) - 1)[i] = s[i]
<1>. DEFINE n == Len(s) - 1
<1>1. Len(s) \in Nat \ {0} /\ \A i \in 1..n : s[i] \in F
  BY EmptySeq
<1>2. 1 \in Int /\ n \in Int
  BY <1>1
<1>3. /\ SubSeq(s, 1, n) \in Seq(F)
      /\ Len(SubSeq(s, 1, n)) = IF 1 <= n THEN n - 1 + 1 ELSE 0
      /\ \A i \in 1..(n - 1 + 1) : SubSeq(s, 1, n)[i] = s[1 + i - 1]
  <2>. HIDE DEF n
  <2>. QED
    BY <1>1, <1>2, SubSeqProperties
<1>4. n \in Nat /\ n + 1 = Len(s)
  BY <1>1
<1>5. Len(SubSeq(s, 1, n)) = n
  <2>. HIDE DEF n
  <2>. QED
    BY <1>3, <1>4
<1>. QED
  BY <1>1, <1>3, <1>5

\* A failure callback returns: the count stays.
LEMMA Returning == ASSUME SubscriptionInv, FailureReturns PROVE SubscriptionInv'
<1>. DEFINE F == [dev : Devices, undo : BOOLEAN, before : Nat]
<1>1. frames \in Seq(F) /\ frames # <<>>
  BY DEF SubscriptionInv, Typed, FailureReturns
<1>2. Last(frames) = frames[Len(frames)] /\ Len(frames) \in DOMAIN frames
  BY <1>1 DEF Last
<1>3. UNCHANGED num_registered_for_notifs
  BY <1>2 DEF FailureReturns, SubscriptionInv, NothingToUndo
<1>4. frames' = SubSeq(frames, 1, Len(frames) - 1)
  BY DEF FailureReturns, Front
<1>5. /\ frames' \in Seq(F)
      /\ \A i \in DOMAIN frames' : i \in DOMAIN frames /\ frames'[i] = frames[i]
  <2>. HIDE DEF F
  <2>. QED
    BY <1>1, <1>4, FrontOfSeq
<1>6. NothingToUndo'
  BY <1>5 DEF SubscriptionInv, NothingToUndo
<1>7. Typed' /\ \A e \in Devices : (LifeCycle(e) /\ Counted(e))'
  BY <1>3, <1>5 DEF SubscriptionInv, Typed, LifeCycle, Counted, FailureReturns, table, gatt
<1>. QED
  BY <1>6, <1>7 DEF SubscriptionInv

\* A step that changes the subscriptions of one device, a connected one past
\* its discovery, keeps the invariant if it keeps the count of that device.
LEMMA OneDeviceChanges ==
  ASSUME SubscriptionInv, NEW d \in Devices, NEW S \in SUBSET Chars, NEW h \in BOOLEAN,
         connected[d], ~discovering[d],
         Cardinality(S) # 0 => h,
         registeredForNotifs' = [registeredForNotifs EXCEPT ![d] = S],
         glSubscribed' = [glSubscribed EXCEPT ![d] = S],
         num_registered_for_notifs' = [num_registered_for_notifs EXCEPT ![d] = Cardinality(S)],
         glHandler' = [glHandler EXCEPT ![d] = h],
         UNCHANGED <<connected, discovering, discovery_done, characteristics, frames>>
  PROVE  SubscriptionInv'
<1>1. Cardinality(S) \in Nat
  BY SubscriptionsAssumption, FS_Subset, FS_CardinalityType
<1>2. Typed'
  BY <1>1 DEF SubscriptionInv, Typed
<1>3. ASSUME NEW e \in Devices PROVE LifeCycle(e)' /\ Counted(e)'
  <2>1. CASE e = d
    BY <2>1, <1>1 DEF SubscriptionInv, Typed, LifeCycle, Counted
  <2>2. CASE e # d
    BY <2>2 DEF SubscriptionInv, Typed, LifeCycle, Counted
  <2>. QED
    BY <2>1, <2>2
<1>4. NothingToUndo'
  BY DEF SubscriptionInv, NothingToUndo
<1>. QED
  BY <1>2, <1>3, <1>4 DEF SubscriptionInv

\* A characteristic looked up on a connected device has been discovered.
LEMMA LookedUp ==
  ASSUME SubscriptionInv, NEW d \in Devices, NEW c \in Chars, MayRequest(d), getUUIDForChar(d, c)
  PROVE  connected[d] /\ ~discovering[d] /\ c \in characteristics[d]
BY DEF SubscriptionInv, LifeCycle, MayRequest, getUUIDForChar

\* startNotification() of something new adds it, and one to the count.
LEMMA Starting ==
  ASSUME SubscriptionInv, NEW d \in Devices, NEW c \in Chars, StartNotification(d, c)
  PROVE  SubscriptionInv'
<1>. DEFINE S == registeredForNotifs[d] \cup {c}
            h == glHandler[d] \/ num_registered_for_notifs[d] = 0
<1>1. connected[d] /\ ~discovering[d] /\ c \in characteristics[d]
  BY LookedUp DEF StartNotification
<1>2. /\ registeredForNotifs[d] \in SUBSET Chars /\ registeredForNotifs[d] = glSubscribed[d]
      /\ num_registered_for_notifs[d] = Cardinality(registeredForNotifs[d])
      /\ num_registered_for_notifs[d] # 0 => glHandler[d]
  BY DEF SubscriptionInv, Typed, Counted
<1>3. c \notin registeredForNotifs[d]
  BY DEF StartNotification
<1>4. /\ Cardinality(S) = num_registered_for_notifs[d] + 1
      /\ num_registered_for_notifs[d] \in Nat
      /\ num_registered_for_notifs[d] + 1 < CounterSize
  <2>1. /\ Cardinality(S) = Cardinality(registeredForNotifs[d]) + 1
        /\ Cardinality(registeredForNotifs[d]) \in Nat
        /\ Cardinality(S) < CounterSize
    BY <1>2, <1>3, Sizes
  <2>. HIDE DEF S
  <2>. QED
    BY <1>2, <2>1
<1>5. (num_registered_for_notifs[d] + 1) % CounterSize = Cardinality(S)
  BY <1>4 DEF CounterSize
<1>6. registeredForNotifs' = [registeredForNotifs EXCEPT ![d] = S]
  BY <1>1, Zenon DEF StartNotification, flagged, SubscriptionInv, Typed
<1>7. glSubscribed' = [glSubscribed EXCEPT ![d] = S]
  BY <1>2 DEF StartNotification
<1>8. num_registered_for_notifs' = [num_registered_for_notifs EXCEPT ![d] = Cardinality(S)]
  BY <1>5 DEF StartNotification, register
<1>9. glHandler' = [glHandler EXCEPT ![d] = h]
  BY Zenon DEF StartNotification, register
<1>10. S \in SUBSET Chars /\ h \in BOOLEAN /\ h
  BY <1>2 DEF SubscriptionInv, Typed
<1>11. UNCHANGED <<connected, discovering, discovery_done, characteristics, frames>>
  BY DEF StartNotification, table
<1>. HIDE DEF S, h
<1>. QED
  BY <1>1, <1>6, <1>7, <1>8, <1>9, <1>10, <1>11, OneDeviceChanges

\* stopNotification() of something registered takes it and one of the count.
LEMMA Stopping ==
  ASSUME SubscriptionInv, NEW d \in Devices, NEW c \in Chars, StopNotification(d, c)
  PROVE  SubscriptionInv'
<1>. DEFINE S == registeredForNotifs[d] \ {c}
            n == num_registered_for_notifs[d]
            h == glHandler[d] /\ n \notin 1..1
<1>1. connected[d] /\ ~discovering[d] /\ c \in registeredForNotifs[d]
  BY LookedUp DEF StopNotification, shouldUnRegister
<1>2. /\ registeredForNotifs[d] \in SUBSET Chars /\ registeredForNotifs[d] = glSubscribed[d]
      /\ n = Cardinality(registeredForNotifs[d])
      /\ n # 0 => glHandler[d]
  BY DEF SubscriptionInv, Typed, Counted
<1>3. Cardinality(S) = n - 1 /\ n \in Nat /\ Cardinality(S) \in Nat
  <2>1. S \in SUBSET Chars
    BY <1>2
  <2>. HIDE DEF S
  <2>2. Cardinality(S) \in Nat
    BY <2>1, Sizes
  <2>. QED
    BY <1>1, <1>2, <2>2, Sizes DEF S
<1>4. (IF n > 1 THEN n - 1 ELSE 0) = Cardinality(S) /\ n # 0
  BY <1>3
<1>5. /\ registeredForNotifs' = [registeredForNotifs EXCEPT ![d] = S]
      /\ glSubscribed' = [glSubscribed EXCEPT ![d] = S]
  BY <1>2 DEF StopNotification
<1>6. num_registered_for_notifs' = [num_registered_for_notifs EXCEPT ![d] = Cardinality(S)]
  BY <1>4 DEF StopNotification, unregister
<1>7. glHandler' = [glHandler EXCEPT ![d] = h]
  BY Zenon DEF StopNotification, unregister
<1>8. S \in SUBSET Chars /\ h \in BOOLEAN
  BY <1>2 DEF SubscriptionInv, Typed
<1>9. Cardinality(S) # 0 => h
  BY <1>2, <1>3, <1>4
<1>10. UNCHANGED <<connected, discovering, discovery_done, characteristics, frames>>
  BY DEF StopNotification, table
<1>. HIDE DEF S, h, n
<1>. QED
  BY <1>1, <1>5, <1>6, <1>7, <1>8, <1>9, <1>10, OneDeviceChanges

\* stopAllNotifications() leaves nothing.
LEMMA StoppingAll ==
  ASSUME Disciplined, SubscriptionInv, NEW d \in Devices, StopAllNotifications(d)
  PROVE  SubscriptionInv'
<1>. DEFINE n == num_registered_for_notifs[d]
            h == glHandler[d] /\ n \notin 1..n
<1>1. connected[d] /\ ~discovering[d]
  BY DEF StopAllNotifications, MayRequest
<1>2. /\ registeredForNotifs[d] = glSubscribed[d]
      /\ n = Cardinality(registeredForNotifs[d]) /\ n \in Nat
  BY DEF SubscriptionInv, Typed, Counted
<1>3. Cardinality({}) = 0 /\ {} \in SUBSET Chars
  BY FS_EmptySet
<1>4. glSubscribed' = [glSubscribed EXCEPT ![d] = {}]
  <2>1. PICK refused \in SUBSET registeredForNotifs[d] :
          /\ refused # {} => "stop" \in Refusals
          /\ glSubscribed' = [glSubscribed EXCEPT ![d] = @ \ (registeredForNotifs[d] \ refused)]
    BY DEF StopAllNotifications
  <2>2. refused = {}
    BY <2>1 DEF Disciplined
  <2>3. glSubscribed[d] \ (registeredForNotifs[d] \ refused) = {}
    BY <1>2, <2>2
  <2>. QED
    BY <2>1, <2>3
<1>5. registeredForNotifs' = [registeredForNotifs EXCEPT ![d] = {}]
  BY DEF StopAllNotifications
<1>6. num_registered_for_notifs' = [num_registered_for_notifs EXCEPT ![d] = Cardinality({})]
  <2>1. (IF n > n THEN n - n ELSE 0) = Cardinality({})
    BY <1>2, <1>3
  <2>. QED
    BY <1>2, <2>1 DEF StopAllNotifications, unregister
<1>7. glHandler' = [glHandler EXCEPT ![d] = h]
  BY <1>2, Zenon DEF StopAllNotifications, unregister
<1>8. h \in BOOLEAN
  BY DEF SubscriptionInv, Typed
<1>9. UNCHANGED <<connected, discovering, discovery_done, characteristics, frames>>
  BY DEF StopAllNotifications, table
<1>. HIDE DEF h
<1>. QED
  BY <1>1, <1>3, <1>4, <1>5, <1>6, <1>7, <1>8, <1>9, OneDeviceChanges

\* A new connection starts with nothing, for discovery to be done first.
LEMMA Connecting ==
  ASSUME Disciplined, SubscriptionInv, NEW d \in Devices, NEW discover \in AutoDiscover,
         DeviceConnected(d, discover)
  PROVE  SubscriptionInv'
<1>1. discover = TRUE
  BY DEF Disciplined
<1>2. /\ connected' = [connected EXCEPT ![d] = TRUE]
      /\ discovering' = [discovering EXCEPT ![d] = TRUE]
      /\ ~connected[d]
      /\ UNCHANGED <<discovery_done, characteristics, registeredForNotifs,
                     num_registered_for_notifs, frames, glHandler, glSubscribed>>
  BY <1>1 DEF DeviceConnected, table, gatt
<1>3. Typed' /\ NothingToUndo'
  BY <1>2 DEF SubscriptionInv, Typed, NothingToUndo
<1>4. ASSUME NEW e \in Devices PROVE LifeCycle(e)' /\ Counted(e)'
  BY <1>2 DEF SubscriptionInv, Typed, LifeCycle, Counted
<1>. QED
  BY <1>3, <1>4 DEF SubscriptionInv

\* Discovery clears flags that are clear.
LEMMA Discovering ==
  ASSUME SubscriptionInv, NEW d \in Devices, NEW found \in BOOLEAN,
         DiscoverCharacteristics(d, found)
  PROVE  SubscriptionInv'
<1>1. /\ discovering[d]
      /\ discovering' = [discovering EXCEPT ![d] = FALSE]
      /\ discovery_done' = [discovery_done EXCEPT ![d] = TRUE]
      /\ UNCHANGED <<connected, num_registered_for_notifs, frames, glHandler, glSubscribed>>
  BY DEF DiscoverCharacteristics, gatt
<1>2. registeredForNotifs[d] = {}
  BY <1>1 DEF SubscriptionInv, LifeCycle, Counted
<1>3. characteristics' \in [Devices -> SUBSET Chars] /\ UNCHANGED registeredForNotifs
  <2>1. /\ characteristics \in [Devices -> SUBSET Chars]
        /\ registeredForNotifs \in [Devices -> SUBSET Chars]
    BY DEF SubscriptionInv, Typed
  <2>2. CASE found
    <3>1. /\ characteristics' = [characteristics EXCEPT ![d] = Chars]
          /\ registeredForNotifs' = [registeredForNotifs EXCEPT ![d] = {}]
      BY <2>2 DEF DiscoverCharacteristics
    <3>2. [registeredForNotifs EXCEPT ![d] = {}] = registeredForNotifs
      BY <1>2, <2>1
    <3>3. Chars \in SUBSET Chars
      OBVIOUS
    <3>. QED
      BY <2>1, <3>1, <3>2, <3>3
  <2>3. CASE ~found
    BY <2>1, <2>3 DEF DiscoverCharacteristics
  <2>. QED
    BY <2>2, <2>3
<1>4. Typed' /\ NothingToUndo'
  BY <1>1, <1>3 DEF SubscriptionInv, Typed, NothingToUndo
<1>5. ASSUME NEW e \in Devices PROVE LifeCycle(e)' /\ Counted(e)'
  BY <1>1, <1>3 DEF SubscriptionInv, Typed, LifeCycle, Counted
<1>. QED
  BY <1>4, <1>5 DEF SubscriptionInv

\* A disconnection finds nothing subscribed, so that the counter, which is
\* kept, is zero.
LEMMA Disconnecting ==
  ASSUME Disciplined, SubscriptionInv, NEW d \in Devices, DeviceDisconnected(d)
  PROVE  SubscriptionInv'
<1>1. glSubscribed[d] = {} /\ ~discovering[d]
  BY DEF Disciplined, DeviceDisconnected
<1>2. num_registered_for_notifs[d] = 0
  BY <1>1, FS_EmptySet DEF SubscriptionInv, Counted
<1>3. /\ connected' = [connected EXCEPT ![d] = FALSE]
      /\ glHandler' = [glHandler EXCEPT ![d] = FALSE]
      /\ glSubscribed' = [glSubscribed EXCEPT ![d] = {}]
      /\ UNCHANGED <<discovering, discovery_done, characteristics, registeredForNotifs,
                     num_registered_for_notifs, frames>>
  BY DEF DeviceDisconnected, table
<1>4. Typed' /\ NothingToUndo'
  BY <1>3 DEF SubscriptionInv, Typed, NothingToUndo
<1>5. ASSUME NEW e \in Devices PROVE LifeCycle(e)' /\ Counted(e)'
  BY <1>1, <1>2, <1>3 DEF SubscriptionInv, Typed, LifeCycle, Counted
<1>. QED
  BY <1>4, <1>5 DEF SubscriptionInv

\* Every step keeps the invariant.
LEMMA SubscriptionStep == Disciplined /\ SubscriptionInv /\ [Next]_vars => SubscriptionInv'
<1>. SUFFICES ASSUME Disciplined, SubscriptionInv, [Next]_vars PROVE SubscriptionInv'
  OBVIOUS
<1>1. CASE UNCHANGED vars
  BY <1>1, Elsewhere DEF vars, table, gatt
<1>2. CASE FailureReturns
  BY <1>2, Returning
<1>3. CASE RunReport
  BY <1>3, Elsewhere DEF RunReport, table, gatt
<1>4. ASSUME NEW d \in Devices,
             \/ \E discover \in AutoDiscover : DeviceConnected(d, discover)
             \/ \E found \in BOOLEAN : DiscoverCharacteristics(d, found)
             \/ DeviceDisconnected(d)
      PROVE  SubscriptionInv'
  BY <1>4, Connecting, Discovering, Disconnecting
<1>5. ASSUME NEW d \in Devices, LockAgain(d) PROVE SubscriptionInv'
  BY <1>5, Elsewhere DEF LockAgain, table, gatt
<1>6. ASSUME NEW d \in Devices, StopAllNotifications(d) PROVE SubscriptionInv'
  BY <1>6, StoppingAll
<1>7. ASSUME NEW d \in Devices, NEW c \in Chars, LookUpFails(d, c) PROVE SubscriptionInv'
  BY <1>7, Failing DEF LookUpFails, table, gatt
<1>8. ASSUME NEW d \in Devices, NEW c \in Chars, StartNotification(d, c) \/ StopNotification(d, c)
      PROVE  SubscriptionInv'
  BY <1>8, Starting, Stopping
<1>9. ASSUME NEW d \in Devices, NEW c \in Chars,
             \/ StartNotificationAgain(d, c)
             \/ StopNotificationAgain(d, c)
             \/ HandleNotification(d, c)
      PROVE  SubscriptionInv'
  BY <1>9, Elsewhere DEF StartNotificationAgain, StopNotificationAgain, HandleNotification,
                         table, gatt
<1>10. ASSUME NEW d \in Devices, NEW c \in Chars,
              StartNotificationRefused(d, c) \/ StopNotificationRefused(d, c)
       PROVE  FALSE
  BY <1>10 DEF Disciplined, StartNotificationRefused, StopNotificationRefused
<1>. QED
  BY <1>1, <1>2, <1>3, <1>4, <1>5, <1>6, <1>7, <1>8, <1>9, <1>10, Zenon DEF Next

\* The invariant holds throughout.
LEMMA SubscriptionInvariant == Disciplined => (Spec => []SubscriptionInv)
<1>. SUFFICES ASSUME Disciplined PROVE Spec => []SubscriptionInv
  OBVIOUS
<1>1. SubscriptionInv /\ [Next]_vars => SubscriptionInv'
  BY SubscriptionStep
<1>. QED
  BY <1>1, SubscriptionInit, PTL DEF Spec

-----------------------------------------------------------------------------
\* startNotification() and stopNotification() set and remove the handler of
\* notifications so that it is there whenever some are to be expected.
THEOREM HandlerSet == Disciplined => (Spec => []HandlerWhileSubscribed)
<1>. SUFFICES ASSUME Disciplined PROVE Spec => []HandlerWhileSubscribed
  OBVIOUS
<1>1. SubscriptionInv => HandlerWhileSubscribed
  <2>. SUFFICES ASSUME SubscriptionInv, NEW d \in Devices, glSubscribed[d] # {} PROVE glHandler[d]
    BY DEF HandlerWhileSubscribed
  <2>1. PICK c \in Chars : c \in glSubscribed[d]
    BY DEF SubscriptionInv, Typed
  <2>2. glSubscribed[d] \in SUBSET Chars
    BY DEF SubscriptionInv, Typed
  <2>3. Cardinality(glSubscribed[d]) # 0
    BY <2>1, <2>2, SubscriptionsAssumption, FS_Subset, FS_EmptySet
  <2>. QED
    BY <2>3 DEF SubscriptionInv, Counted
<1>. QED
  BY <1>1, SubscriptionInvariant, PTL

\* The flag of a characteristic is set exactly as long as the peer has been
\* asked for its notifications.
THEOREM FlagsTrue == Disciplined => (Spec => []RegisteredIsSubscribed)
<1>. SUFFICES ASSUME Disciplined PROVE Spec => []RegisteredIsSubscribed
  OBVIOUS
<1>1. SubscriptionInv => RegisteredIsSubscribed
  BY DEF SubscriptionInv, Counted, RegisteredIsSubscribed
<1>. QED
  BY <1>1, SubscriptionInvariant, PTL

-----------------------------------------------------------------------------
(* Types, whatever the application does and gattlib refuses                *)

\* A set put into a sequence is a sequence of its elements.
LEMMA SeqOfSet ==
  ASSUME NEW S, IsFiniteSet(S)
  PROVE  SetToSeq(S) \in Seq(S)
<1>1. Cardinality(S) \in Nat /\ ExistsBijection(1..Cardinality(S), S)
  BY FS_CardinalityType
<1>2. \E f \in [1..Cardinality(S) -> S] : IsInjective(f)
  BY <1>1 DEF ExistsBijection, Bijection, Injection
<1>3. SetToSeq(S) \in [1..Cardinality(S) -> S]
  BY <1>2 DEF SetToSeq
<1>. QED
  BY <1>1, <1>3

\* What a notification adds to the report queue.
passedOn(d, c) == {[what |-> "data", dev |-> e, char |-> c, src |-> d] : e \in listeners(d, c)}

\* It is a sequence of reports, all of them data of that device.
LEMMA PassedOn ==
  ASSUME NEW d \in Devices, NEW c \in Chars
  PROVE  /\ SetToSeq(passedOn(d, c)) \in Seq(passedOn(d, c))
         /\ SetToSeq(passedOn(d, c)) \in Seq(Reports)
<1>1. listeners(d, c) \subseteq Devices /\ IsFiniteSet(listeners(d, c))
  BY SubscriptionsAssumption, FS_Subset DEF listeners
<1>2. IsFiniteSet(passedOn(d, c))
  <2>. DEFINE M == [e \in listeners(d, c) |-> [what |-> "data", dev |-> e, char |-> c, src |-> d]]
  <2>1. M \in Surjection(listeners(d, c), passedOn(d, c))
    BY DEF Surjection, passedOn
  <2>. HIDE DEF M
  <2>. QED
    BY <1>1, <2>1, FS_Surjection
<1>3. passedOn(d, c) \subseteq Reports
  BY <1>1 DEF passedOn, Reports
<1>. HIDE DEF passedOn
<1>. QED
  BY <1>2, <1>3, SeqOfSet, SeqMonotonic

\* A call is in its failure callback.
LEMMA FailsType ==
  ASSUME TypeOK, NEW d \in Devices, NEW undo \in BOOLEAN, fails(d, undo)
  PROVE  frames' \in Seq(Frames)
<1>1. [dev |-> d, undo |-> undo, before |-> num_registered_for_notifs[d]] \in Frames
  BY DEF TypeOK, Frames
<1>. QED
  BY <1>1 DEF TypeOK, fails

\* The counter is a byte, the handler set or not.
LEMMA RegisterType ==
  ASSUME TypeOK, NEW d \in Devices,
         register(d) \/ \E count \in Nat : unregister(d, count)
  PROVE  /\ num_registered_for_notifs' \in [Devices -> 0..(CounterSize - 1)]
         /\ glHandler' \in [Devices -> BOOLEAN]
<1>1. /\ num_registered_for_notifs \in [Devices -> 0..(CounterSize - 1)]
      /\ glHandler \in [Devices -> BOOLEAN]
  BY DEF TypeOK
<1>2. num_registered_for_notifs[d] \in 0..(CounterSize - 1)
  BY <1>1
<1>3. CASE register(d)
  <2>1. (num_registered_for_notifs[d] + 1) % CounterSize \in 0..(CounterSize - 1)
    BY <1>2 DEF CounterSize
  <2>. QED
    BY <1>1, <1>3, <2>1 DEF register
<1>4. ASSUME NEW count \in Nat, unregister(d, count)
      PROVE  /\ num_registered_for_notifs' \in [Devices -> 0..(CounterSize - 1)]
             /\ glHandler' \in [Devices -> BOOLEAN]
  <2>. DEFINE n == num_registered_for_notifs[d]
  <2>1. (IF n > count THEN n - count ELSE 0) \in 0..(CounterSize - 1)
    <3>1. n \in 0..(CounterSize - 1)
      BY <1>2
    <3>. HIDE DEF n
    <3>. QED
      BY <3>1 DEF CounterSize
  <2>. QED
    BY <1>1, <1>4, <2>1 DEF unregister
<1>. QED
  BY <1>3, <1>4

\* The success of a stop is reported.
LEMMA ReportStoppedType ==
  ASSUME TypeOK, NEW d \in Devices, NEW c \in Chars, reportStopped(d, c)
  PROVE  reportQueue' \in Seq(Reports)
<1>1. [what |-> "stopped", dev |-> d, char |-> c, src |-> d] \in Reports
  BY DEF Reports
<1>. QED
  BY <1>1 DEF TypeOK, reportStopped

\* A failure callback returns, and one counted takes the count back.
LEMMA ReturnType == ASSUME TypeOK, FailureReturns PROVE TypeOK'
<1>1. frames \in Seq(Frames) /\ frames # <<>> /\ frames' = SubSeq(frames, 1, Len(frames) - 1)
  BY DEF TypeOK, FailureReturns, Front
<1>2. frames' \in Seq(Frames)
  BY <1>1, FrontOfSeq
<1>3. Last(frames) \in Frames
  BY <1>1 DEF Last
<1>4. num_registered_for_notifs' \in [Devices -> 0..(CounterSize - 1)]
  <2>. DEFINE d == Last(frames).dev
              n == num_registered_for_notifs[d]
  <2>1. d \in Devices
    BY <1>3 DEF Frames
  <2>2. n \in 0..(CounterSize - 1)
    BY <2>1 DEF TypeOK
  <2>3. (n + CounterSize - 1) % CounterSize \in 0..(CounterSize - 1)
    BY <2>2 DEF CounterSize
  <2>. QED
    BY <2>3 DEF TypeOK, FailureReturns
<1>. QED
  BY <1>2, <1>4 DEF TypeOK, FailureReturns, table, gatt

\* Connections and discovery.
LEMMA LifeCycleType ==
  ASSUME TypeOK, NEW d \in Devices,
         \/ \E discover \in AutoDiscover : DeviceConnected(d, discover)
         \/ \E found \in BOOLEAN : DiscoverCharacteristics(d, found)
         \/ DeviceDisconnected(d)
  PROVE  TypeOK'
<1>1. ASSUME NEW discover \in AutoDiscover, DeviceConnected(d, discover) PROVE TypeOK'
  <2>1. discover \in BOOLEAN
    BY SubscriptionsAssumption
  <2>. QED
    BY <1>1, <2>1 DEF TypeOK, DeviceConnected, table, gatt
<1>2. ASSUME NEW found \in BOOLEAN, DiscoverCharacteristics(d, found) PROVE TypeOK'
  <2>1. /\ discovering' \in [Devices -> BOOLEAN] /\ discovery_done' \in [Devices -> BOOLEAN]
        /\ UNCHANGED <<connected, num_registered_for_notifs, notifHandlers, frames, stuck,
                       reportQueue, gatt, audible>>
    BY <1>2 DEF TypeOK, DiscoverCharacteristics
  <2>2. /\ characteristics' \in [Devices -> SUBSET Chars]
        /\ registeredForNotifs' \in [Devices -> SUBSET Chars]
    <3>1. CASE found
      BY <1>2, <3>1 DEF TypeOK, DiscoverCharacteristics
    <3>2. CASE ~found
      BY <1>2, <3>2 DEF TypeOK, DiscoverCharacteristics
    <3>. QED
      BY <3>1, <3>2
  <2>. QED
    BY <2>1, <2>2 DEF TypeOK, gatt
<1>3. CASE DeviceDisconnected(d)
  BY <1>3 DEF TypeOK, DeviceDisconnected, table
<1>. QED
  BY <1>1, <1>2, <1>3

\* Starting notifications.
LEMMA StartType ==
  ASSUME TypeOK, NEW d \in Devices, NEW c \in Chars,
         \/ StartNotification(d, c)
         \/ StartNotificationAgain(d, c)
         \/ StartNotificationRefused(d, c)
  PROVE  TypeOK'
<1>1. ASSUME flagged(d, c), setNotificationHandler(d, c), register(d)
      PROVE  /\ registeredForNotifs' \in [Devices -> SUBSET Chars]
             /\ notifHandlers' \in [Devices -> SUBSET Chars]
             /\ num_registered_for_notifs' \in [Devices -> 0..(CounterSize - 1)]
             /\ glHandler' \in [Devices -> BOOLEAN]
  BY <1>1, RegisterType DEF TypeOK, flagged, setNotificationHandler
<1>2. CASE StartNotification(d, c)
  <2>1. /\ glSubscribed' \in [Devices -> SUBSET Chars] /\ audible' \subseteq Devices \X Chars
        /\ UNCHANGED <<connected, discovering, table, frames, stuck, reportQueue>>
    BY <1>2 DEF TypeOK, StartNotification
  <2>2. flagged(d, c) /\ setNotificationHandler(d, c) /\ register(d)
    BY <1>2 DEF StartNotification
  <2>. QED
    BY <1>1, <2>1, <2>2 DEF TypeOK, table
<1>3. CASE StartNotificationAgain(d, c)
  BY <1>3 DEF TypeOK, StartNotificationAgain, setNotificationHandler, table, gatt
<1>4. CASE StartNotificationRefused(d, c)
  <2>1. frames' \in Seq(Frames)
    BY <1>4, FailsType DEF StartNotificationRefused
  <2>2. UNCHANGED <<connected, discovering, table, stuck, reportQueue, glSubscribed, audible>>
    BY <1>4 DEF StartNotificationRefused
  <2>3. flagged(d, c) /\ setNotificationHandler(d, c) /\ register(d)
    BY <1>4 DEF StartNotificationRefused
  <2>. QED
    BY <1>1, <2>1, <2>2, <2>3 DEF TypeOK, table
<1>. QED
  BY <1>2, <1>3, <1>4

\* Stopping them.
LEMMA StopType ==
  ASSUME TypeOK, NEW d \in Devices, NEW c \in Chars,
         \/ StopNotification(d, c)
         \/ StopNotificationAgain(d, c)
         \/ StopNotificationRefused(d, c)
  PROVE  TypeOK'
<1>1. CASE StopNotification(d, c)
  <2>1. unregister(d, 1) /\ 1 \in Nat /\ reportStopped(d, c)
    BY <1>1 DEF StopNotification
  <2>2. /\ num_registered_for_notifs' \in [Devices -> 0..(CounterSize - 1)]
        /\ glHandler' \in [Devices -> BOOLEAN] /\ reportQueue' \in Seq(Reports)
    BY <2>1, RegisterType, ReportStoppedType
  <2>. QED
    BY <1>1, <2>2 DEF TypeOK, StopNotification, table
<1>2. CASE StopNotificationAgain(d, c)
  <2>1. reportQueue' \in Seq(Reports)
    BY <1>2, ReportStoppedType DEF StopNotificationAgain
  <2>. QED
    BY <1>2, <2>1 DEF TypeOK, StopNotificationAgain, table, gatt
<1>3. CASE StopNotificationRefused(d, c)
  <2>1. unregister(d, 1) /\ 1 \in Nat /\ fails(d, FALSE)
    BY <1>3 DEF StopNotificationRefused
  <2>2. /\ num_registered_for_notifs' \in [Devices -> 0..(CounterSize - 1)]
        /\ glHandler' \in [Devices -> BOOLEAN] /\ frames' \in Seq(Frames)
    BY <2>1, RegisterType, FailsType
  <2>. QED
    BY <1>3, <2>2 DEF TypeOK, StopNotificationRefused, table
<1>. QED
  BY <1>1, <1>2, <1>3

\* Stopping them all.
LEMMA StopAllType == ASSUME TypeOK, NEW d \in Devices, StopAllNotifications(d) PROVE TypeOK'
<1>1. registeredForNotifs[d] \in SUBSET Chars
  BY DEF TypeOK
<1>2. Cardinality(registeredForNotifs[d]) \in Nat
  BY <1>1, SubscriptionsAssumption, FS_Subset, FS_CardinalityType
<1>3. /\ num_registered_for_notifs' \in [Devices -> 0..(CounterSize - 1)]
      /\ glHandler' \in [Devices -> BOOLEAN]
  BY <1>2, RegisterType DEF StopAllNotifications
<1>4. glSubscribed' \in [Devices -> SUBSET Chars]
  BY DEF TypeOK, StopAllNotifications
<1>. QED
  BY <1>3, <1>4 DEF TypeOK, StopAllNotifications, table

\* Every step keeps the types.
LEMMA TypeStep == TypeOK /\ [Next]_vars => TypeOK'
<1>. SUFFICES ASSUME TypeOK, [Next]_vars PROVE TypeOK'
  OBVIOUS
<1>1. CASE UNCHANGED vars
  BY <1>1 DEF TypeOK, vars, table, gatt
<1>2. CASE FailureReturns
  BY <1>2, ReturnType
<1>3. CASE RunReport
  <2>1. reportQueue' \in Seq(Reports)
    BY <1>3 DEF TypeOK, RunReport
  <2>. QED
    BY <1>3, <2>1 DEF TypeOK, RunReport, table, gatt
<1>4. ASSUME NEW d \in Devices, LockAgain(d) PROVE TypeOK'
  BY <1>4 DEF TypeOK, LockAgain, table, gatt
<1>5. ASSUME NEW d \in Devices, NEW c \in Chars, LookUpFails(d, c) PROVE TypeOK'
  BY <1>5, FailsType DEF TypeOK, LookUpFails, table, gatt
<1>6. ASSUME NEW d \in Devices, NEW c \in Chars, HandleNotification(d, c) PROVE TypeOK'
  <2>1. reportQueue' = reportQueue \o SetToSeq(passedOn(d, c))
    BY <1>6 DEF HandleNotification, passedOn
  <2>2. SetToSeq(passedOn(d, c)) \in Seq(Reports) /\ reportQueue \in Seq(Reports)
    BY PassedOn DEF TypeOK
  <2>3. reportQueue' \in Seq(Reports)
    BY <2>1, <2>2, ConcatProperties
  <2>. QED
    BY <1>6, <2>3 DEF TypeOK, HandleNotification, table, gatt
<1>. QED
  BY <1>1, <1>2, <1>3, <1>4, <1>5, <1>6, LifeCycleType, StartType, StopType, StopAllType, Zenon
     DEF Next

\* The variables keep their types, the counter the range of its uint8_t.
THEOREM SubscriptionTypes == Spec => []TypeOK
<1>1. Init => TypeOK
  <2>. SUFFICES ASSUME Init PROVE TypeOK
    OBVIOUS
  <2>1. frames \in Seq(Frames) /\ reportQueue \in Seq(Reports)
    BY DEF Init
  <2>2. num_registered_for_notifs \in [Devices -> 0..(CounterSize - 1)]
    BY DEF Init, CounterSize
  <2>. QED
    BY <2>1, <2>2 DEF Init, TypeOK
<1>2. TypeOK /\ [Next]_vars => TypeOK'
  BY TypeStep
<1>. QED
  BY <1>1, <1>2, PTL DEF Spec

-----------------------------------------------------------------------------
(* The counter while failure callbacks run                                 *)

\* No two of the calls in their failure callback hold the same mutex, and the
\* counter of one that is to be taken back is one more than it was before.
HeldCounts ==
  /\ \A i, j \in DOMAIN frames : frames[i].dev = frames[j].dev => i = j
  /\ \A i \in DOMAIN frames : frames[i].undo =>
       num_registered_for_notifs[frames[i].dev] = (frames[i].before + 1) % CounterSize

\* A step leaves the frames and the counters of the devices they hold alone,
\* begins the failure callback of a device not held, or returns from the last.
LEMMA FramesChange ==
  ASSUME TypeOK, [Next]_vars
  PROVE  \/ /\ UNCHANGED frames
            /\ \A e \in Devices : locked(e) =>
                 num_registered_for_notifs'[e] = num_registered_for_notifs[e]
         \/ \E d \in Devices, undo \in BOOLEAN :
              /\ ~locked(d) /\ fails(d, undo)
              /\ \A e \in Devices \ {d} :
                   num_registered_for_notifs'[e] = num_registered_for_notifs[e]
              /\ undo => num_registered_for_notifs'[d] =
                           (num_registered_for_notifs[d] + 1) % CounterSize
         \/ FailureReturns
<1>. DEFINE Apart == /\ UNCHANGED frames
                     /\ \A e \in Devices : locked(e) =>
                          num_registered_for_notifs'[e] = num_registered_for_notifs[e]
            Begins(d, undo) ==
              /\ ~locked(d) /\ fails(d, undo)
              /\ \A e \in Devices \ {d} :
                   num_registered_for_notifs'[e] = num_registered_for_notifs[e]
              /\ undo => num_registered_for_notifs'[d] =
                           (num_registered_for_notifs[d] + 1) % CounterSize
<1>1. num_registered_for_notifs \in [Devices -> 0..(CounterSize - 1)]
  BY DEF TypeOK
<1>2. CASE UNCHANGED <<frames, num_registered_for_notifs>>
  BY <1>2
<1>3. ASSUME NEW d \in Devices, UNCHANGED frames, ~locked(d),
             register(d) \/ \E count : unregister(d, count)
      PROVE  Apart
  BY <1>1, <1>3 DEF register, unregister
<1>4. ASSUME NEW d \in Devices, NEW c \in Chars, LookUpFails(d, c)
      PROVE  Begins(d, FALSE)
  BY <1>4 DEF LookUpFails
<1>5. ASSUME NEW d \in Devices, NEW c \in Chars, StartNotificationRefused(d, c)
      PROVE  Begins(d, TRUE)
  BY <1>1, <1>5 DEF StartNotificationRefused, register
<1>6. ASSUME NEW d \in Devices, NEW c \in Chars, StopNotificationRefused(d, c)
      PROVE  Begins(d, FALSE)
  BY <1>1, <1>6 DEF StopNotificationRefused, unregister
<1>7. ASSUME NEW d \in Devices,
             \/ \E discover \in AutoDiscover : DeviceConnected(d, discover)
             \/ \E found \in BOOLEAN : DiscoverCharacteristics(d, found)
             \/ DeviceDisconnected(d)
             \/ LockAgain(d)
      PROVE  Apart
  BY <1>7 DEF DeviceConnected, DiscoverCharacteristics, DeviceDisconnected, LockAgain
<1>8. ASSUME NEW d \in Devices, StopAllNotifications(d) PROVE Apart
  BY <1>3, <1>8 DEF StopAllNotifications
<1>9. ASSUME NEW d \in Devices, NEW c \in Chars, StartNotification(d, c) \/ StopNotification(d, c)
      PROVE  Apart
  BY <1>3, <1>9 DEF StartNotification, StopNotification
<1>10. ASSUME NEW d \in Devices, NEW c \in Chars,
              \/ StartNotificationAgain(d, c)
              \/ StopNotificationAgain(d, c)
              \/ HandleNotification(d, c)
       PROVE  Apart
  BY <1>10 DEF StartNotificationAgain, StopNotificationAgain, HandleNotification
<1>11. CASE RunReport \/ UNCHANGED vars
  BY <1>11 DEF RunReport, vars
<1>. QED
  BY <1>4, <1>5, <1>6, <1>7, <1>8, <1>9, <1>10, <1>11 DEF Next

\* Begins and ends of failure callbacks keep the counts.
LEMMA HeldStep ==
  ASSUME TypeOK, HeldCounts, [Next]_vars
  PROVE  HeldCounts'
<1>1. frames \in Seq(Frames) /\ \A i \in DOMAIN frames : frames[i] \in Frames
  BY DEF TypeOK
<1>2. \A i \in DOMAIN frames : frames[i].dev \in Devices /\ locked(frames[i].dev)
  BY <1>1 DEF Frames, locked
<1>3. ASSUME UNCHANGED frames,
             \A e \in Devices : locked(e) =>
               num_registered_for_notifs'[e] = num_registered_for_notifs[e]
      PROVE  HeldCounts'
  BY <1>2, <1>3 DEF HeldCounts
<1>4. ASSUME NEW d \in Devices, NEW undo \in BOOLEAN, ~locked(d), fails(d, undo),
             \A e \in Devices \ {d} :
               num_registered_for_notifs'[e] = num_registered_for_notifs[e],
             undo => num_registered_for_notifs'[d] =
                       (num_registered_for_notifs[d] + 1) % CounterSize
      PROVE  HeldCounts'
  <2>1. PICK f : f = [dev |-> d, undo |-> undo, before |-> num_registered_for_notifs[d]]
    OBVIOUS
  <2>2. frames' = Append(frames, f)
    BY <1>4, <2>1 DEF fails
  <2>3. /\ DOMAIN frames' = DOMAIN frames \cup {Len(frames) + 1}
        /\ frames'[Len(frames) + 1] = f
        /\ \A i \in DOMAIN frames : frames'[i] = frames[i] /\ frames[i].dev # d
    BY <1>1, <1>4, <2>2 DEF locked
  <2>4. f.dev = d /\ f.undo = undo /\ f.before = num_registered_for_notifs[d]
    BY <2>1
  <2>. QED
    BY <1>2, <1>4, <2>3, <2>4 DEF HeldCounts
<1>5. CASE FailureReturns
  <2>1. frames # <<>> /\ frames' = SubSeq(frames, 1, Len(frames) - 1)
    BY <1>5 DEF FailureReturns, Front
  <2>2. \A i \in DOMAIN frames' : i \in DOMAIN frames /\ frames'[i] = frames[i]
    BY <1>1, <2>1, FrontOfSeq
  <2>3. \A i \in DOMAIN frames' : i # Len(frames) /\ Len(frames) \in DOMAIN frames
    BY <1>1, <2>1
  <2>4. \A i \in DOMAIN frames' :
          num_registered_for_notifs'[frames'[i].dev] = num_registered_for_notifs[frames[i].dev]
    <3>1. SUFFICES ASSUME NEW i \in DOMAIN frames'
                   PROVE  num_registered_for_notifs'[frames[i].dev] =
                            num_registered_for_notifs[frames[i].dev]
      BY <2>2
    <3>2. frames[i].dev # frames[Len(frames)].dev /\ frames[i].dev \in Devices
      BY <1>2, <2>2, <2>3 DEF HeldCounts
    <3>. QED
      BY <1>5, <3>2 DEF FailureReturns, Last, TypeOK
  <2>. QED
    BY <2>2, <2>4 DEF HeldCounts
<1>. QED
  BY <1>3, <1>4, <1>5, FramesChange

\* Taking back what was counted modulo the size of the counter.
LEMMA TakenBack ==
  \A n \in 0..(CounterSize - 1) : (((n + 1) % CounterSize) + CounterSize - 1) % CounterSize = n
<1>1. SUFFICES ASSUME NEW n \in 0..255 PROVE (((n + 1) % 256) + 256 - 1) % 256 = n
  BY DEF CounterSize
<1>2. CASE n = 255
  BY <1>2
<1>3. CASE n < 255
  <2>1. (n + 1) % 256 = n + 1
    BY <1>3
  <2>2. (n + 256) % 256 = n
    OBVIOUS
  <2>. QED
    BY <2>1, <2>2
<1>. QED
  BY <1>2, <1>3

\* A startNotification() that gattlib refuses leaves the counter of its device
\* as it was, even when its failure callback has asked for other things: the
\* mutex held meanwhile keeps those that count off (BLECentral.cpp:795-817).
THEOREM CountsRestored == Spec => CountRestored
<1>1. Init => HeldCounts
  BY DEF Init, HeldCounts
<1>2. TypeOK /\ HeldCounts /\ [Next]_vars => HeldCounts'
  BY HeldStep
<1>3. ASSUME TypeOK, HeldCounts, [Next]_vars, NEW i \in DOMAIN frames,
             frames[i].undo, Len(frames') = i - 1
      PROVE  num_registered_for_notifs'[frames[i].dev] = frames[i].before
  <2>1. /\ frames \in Seq(Frames) /\ frames[i] \in Frames
        /\ i \in 1..Len(frames) /\ Len(frames) \in Nat
        /\ num_registered_for_notifs \in [Devices -> 0..(CounterSize - 1)]
    BY <1>3 DEF TypeOK
  <2>2. frames' # frames
    BY <1>3, <2>1
  <2>3. \A f : frames' # Append(frames, f)
    BY <1>3, <2>1
  <2>4. FailureReturns
    BY <1>3, <2>2, <2>3, FramesChange DEF fails
  <2>5. i = Len(frames) /\ Last(frames) = frames[i]
    <3>1. frames' = SubSeq(frames, 1, Len(frames) - 1) /\ frames # <<>>
      BY <2>4 DEF FailureReturns, Front
    <3>2. Len(frames') = Len(frames) - 1
      BY <2>1, <3>1, FrontOfSeq
    <3>3. i = Len(frames)
      BY <1>3, <2>1, <3>2
    <3>. QED
      BY <3>3 DEF Last
  <2>6. num_registered_for_notifs[frames[i].dev] = (frames[i].before + 1) % CounterSize
    BY <1>3 DEF HeldCounts
  <2>7. frames[i].dev \in Devices /\ frames[i].before \in 0..(CounterSize - 1)
    BY <2>1 DEF Frames
  <2>8. num_registered_for_notifs'[frames[i].dev] =
          (num_registered_for_notifs[frames[i].dev] + CounterSize - 1) % CounterSize
    BY <1>3, <2>1, <2>4, <2>5, <2>7 DEF FailureReturns
  <2>. QED
    BY <2>6, <2>7, <2>8, TakenBack
<1>4. TypeOK /\ HeldCounts /\ [Next]_vars =>
        [\A i \in DOMAIN frames :
           LET f == frames[i]
           IN f.undo /\ Len(frames') = i - 1 => num_registered_for_notifs'[f.dev] = f.before]_vars
  BY <1>3
<1>. QED
  BY <1>1, <1>2, <1>4, SubscriptionTypes, PTL DEF Spec, CountRestored

-----------------------------------------------------------------------------
(* What the report queue holds after a stop                                *)

\* What the peer sends has been started, and no stop of it reported.
AudibleInv == \A d \in Devices : \A c \in glSubscribed[d] : <<d, c>> \in audible

stopOf(d, c) == [what |-> "stopped", dev |-> d, char |-> c, src |-> d]

\* Entry i of q is no value, or one handed to another device than sent it, or
\* still expected, or its stop is reported after it.
Timely(q, i, heard) ==
  q[i].what = "data" /\ q[i].dev = q[i].src /\ <<q[i].dev, q[i].char>> \notin heard =>
    \E j \in DOMAIN q : j > i /\ q[j] = stopOf(q[i].dev, q[i].char)
SilentInv == \A i \in DOMAIN reportQueue : Timely(reportQueue, i, audible)

\* A stop reported last leaves the queue in order.
LEMMA StopTimely ==
  ASSUME TypeOK, SilentInv, NEW d, NEW c, reportStopped(d, c), audible' = audible \ {<<d, c>>}
  PROVE  SilentInv'
<1>1. PICK q : q = reportQueue'
  OBVIOUS
<1>2. reportQueue \in Seq(Reports) /\ q = Append(reportQueue, stopOf(d, c))
  BY <1>1 DEF TypeOK, reportStopped, stopOf
<1>3. /\ DOMAIN q = DOMAIN reportQueue \cup {Len(reportQueue) + 1}
      /\ q[Len(reportQueue) + 1] = stopOf(d, c)
      /\ \A i \in DOMAIN reportQueue : q[i] = reportQueue[i] /\ Len(reportQueue) + 1 > i
  BY <1>2
<1>4. ASSUME NEW i \in DOMAIN reportQueue PROVE Timely(q, i, audible')
  <2>1. SUFFICES ASSUME q[i].what = "data", q[i].dev = q[i].src,
                        <<q[i].dev, q[i].char>> \notin audible'
                 PROVE  \E j \in DOMAIN q : j > i /\ q[j] = stopOf(q[i].dev, q[i].char)
    BY DEF Timely
  <2>2. CASE <<q[i].dev, q[i].char>> \in audible
    <3>1. q[i].dev = d /\ q[i].char = c
      BY <2>1, <2>2
    <3>. QED
      BY <1>3, <3>1
  <2>3. CASE <<q[i].dev, q[i].char>> \notin audible
    BY <1>3, <2>1, <2>3 DEF SilentInv, Timely
  <2>. QED
    BY <2>2, <2>3
<1>5. Timely(q, Len(reportQueue) + 1, audible')
  BY <1>3 DEF Timely, stopOf
<1>. QED
  BY <1>1, <1>3, <1>4, <1>5 DEF SilentInv

\* Whatever is subscribed to, its values are expected.
LEMMA HandledTimely ==
  ASSUME TypeOK, AudibleInv, SilentInv, NEW d \in Devices, NEW c \in Chars,
         HandleNotification(d, c)
  PROVE  SilentInv'
<1>1. PICK q, s : q = reportQueue' /\ s = SetToSeq(passedOn(d, c))
  OBVIOUS
<1>2. /\ reportQueue \in Seq(Reports) /\ s \in Seq(Reports) /\ s \in Seq(passedOn(d, c))
      /\ q = reportQueue \o s /\ UNCHANGED audible
      /\ <<d, c>> \in audible
  BY <1>1, PassedOn DEF TypeOK, HandleNotification, AudibleInv, passedOn
<1>3. /\ DOMAIN q = 1..(Len(reportQueue) + Len(s)) /\ DOMAIN reportQueue = 1..Len(reportQueue)
      /\ Len(reportQueue) \in Nat /\ Len(s) \in Nat
      /\ \A i \in DOMAIN q : q[i] = IF i <= Len(reportQueue) THEN reportQueue[i]
                                                             ELSE s[i - Len(reportQueue)]
  BY <1>2
<1>4. ASSUME NEW i \in DOMAIN reportQueue PROVE Timely(q, i, audible)
  <2>1. \A j \in DOMAIN reportQueue : j \in DOMAIN q /\ q[j] = reportQueue[j]
    BY <1>3
  <2>. QED
    BY <2>1 DEF SilentInv, Timely
<1>5. ASSUME NEW i \in DOMAIN q, i > Len(reportQueue) PROVE Timely(q, i, audible)
  <2>1. i - Len(reportQueue) \in DOMAIN s /\ q[i] = s[i - Len(reportQueue)]
    BY <1>2, <1>3, <1>5
  <2>2. q[i] \in passedOn(d, c)
    BY <1>2, <2>1
  <2>3. q[i].src = d /\ q[i].char = c
    BY <2>2 DEF passedOn
  <2>. QED
    BY <1>2, <2>3 DEF Timely
<1>6. \A i \in DOMAIN q : i \in DOMAIN reportQueue \/ i > Len(reportQueue)
  BY <1>3
<1>. QED
  BY <1>1, <1>2, <1>4, <1>5, <1>6 DEF SilentInv

\* Callbacks run in the order of the queue.
LEMMA RunTimely == ASSUME TypeOK, SilentInv, RunReport PROVE SilentInv'
<1>1. PICK q : q = reportQueue'
  OBVIOUS
<1>2. /\ reportQueue \in Seq(Reports) /\ reportQueue # <<>> /\ q = Tail(reportQueue)
      /\ UNCHANGED audible
  BY <1>1 DEF TypeOK, RunReport
<1>3. /\ Len(reportQueue) \in Nat /\ Len(q) = Len(reportQueue) - 1 /\ q \in Seq(Reports)
      /\ \A i \in 1..Len(q) : q[i] = reportQueue[i + 1]
  BY <1>2, HeadTailProperties
<1>4. DOMAIN q = 1..Len(q) /\ DOMAIN reportQueue = 1..Len(reportQueue)
  BY <1>2, <1>3
<1>5. ASSUME NEW i \in DOMAIN q PROVE Timely(q, i, audible)
  <2>1. SUFFICES ASSUME q[i].what = "data", q[i].dev = q[i].src,
                        <<q[i].dev, q[i].char>> \notin audible
                 PROVE  \E j \in DOMAIN q : j > i /\ q[j] = stopOf(q[i].dev, q[i].char)
    BY DEF Timely
  <2>2. i + 1 \in DOMAIN reportQueue /\ q[i] = reportQueue[i + 1]
    BY <1>3, <1>4
  <2>3. PICK j \in DOMAIN reportQueue :
          j > i + 1 /\ reportQueue[j] = stopOf(q[i].dev, q[i].char)
    BY <2>1, <2>2 DEF SilentInv, Timely
  <2>4. j - 1 \in DOMAIN q /\ j - 1 > i /\ (j - 1) + 1 = j
    BY <1>3, <1>4, <2>3
  <2>. QED
    BY <1>3, <1>4, <2>3, <2>4
<1>. QED
  BY <1>1, <1>2, <1>5 DEF SilentInv

\* The steps that leave the report queue and silence nothing.
LEMMA StillTimely ==
  ASSUME SilentInv, UNCHANGED reportQueue, audible \subseteq audible' PROVE SilentInv'
BY DEF SilentInv, Timely

\* Every step keeps both.
LEMMA SilentStep ==
  ASSUME Disciplined, TypeOK, SubscriptionInv, AudibleInv, SilentInv, [Next]_vars
  PROVE  AudibleInv' /\ SilentInv'
<1>0. glSubscribed \in [Devices -> SUBSET Chars]
  BY DEF TypeOK
<1>1. ASSUME UNCHANGED <<reportQueue, glSubscribed, audible>> PROVE AudibleInv' /\ SilentInv'
  BY <1>1, StillTimely DEF AudibleInv
<1>2. ASSUME NEW d \in Devices,
             \/ \E discover \in AutoDiscover : DeviceConnected(d, discover)
             \/ \E found \in BOOLEAN : DiscoverCharacteristics(d, found)
             \/ LockAgain(d)
             \/ \E c \in Chars : LookUpFails(d, c)
      PROVE  AudibleInv' /\ SilentInv'
  BY <1>1, <1>2 DEF DeviceConnected, DiscoverCharacteristics, LockAgain, LookUpFails, gatt
<1>3. ASSUME NEW d \in Devices, DeviceDisconnected(d) \/ StopAllNotifications(d)
      PROVE  AudibleInv' /\ SilentInv'
  <2>1. /\ UNCHANGED <<reportQueue, audible>>
        /\ \A e \in Devices : glSubscribed'[e] \subseteq glSubscribed[e]
    BY <1>0, <1>3 DEF DeviceDisconnected, StopAllNotifications
  <2>. QED
    BY <2>1, StillTimely DEF AudibleInv
<1>4. ASSUME NEW d \in Devices, NEW c \in Chars, StartNotification(d, c)
      PROVE  AudibleInv' /\ SilentInv'
  BY <1>0, <1>4, StillTimely DEF StartNotification, AudibleInv
<1>5. ASSUME NEW d \in Devices, NEW c \in Chars, StartNotificationAgain(d, c)
      PROVE  AudibleInv' /\ SilentInv'
  BY <1>5, StillTimely DEF StartNotificationAgain, AudibleInv, gatt
<1>6. ASSUME NEW d \in Devices, NEW c \in Chars,
             StopNotification(d, c) \/ StopNotificationAgain(d, c)
      PROVE  AudibleInv' /\ SilentInv'
  <2>1. reportStopped(d, c) /\ audible' = audible \ {<<d, c>>}
    BY <1>6 DEF StopNotification, StopNotificationAgain
  <2>2. /\ \A e \in Devices : glSubscribed'[e] \subseteq glSubscribed[e]
        /\ c \notin glSubscribed'[d]
    <3>1. CASE StopNotification(d, c)
      BY <1>0, <3>1 DEF StopNotification
    <3>2. CASE StopNotificationAgain(d, c)
      BY <3>2 DEF StopNotificationAgain, shouldUnRegister, SubscriptionInv, Counted, gatt
    <3>. QED
      BY <1>6, <3>1, <3>2
  <2>3. AudibleInv'
    BY <2>1, <2>2 DEF AudibleInv
  <2>. QED
    BY <2>1, <2>3, StopTimely
<1>7. ASSUME NEW d \in Devices, NEW c \in Chars, HandleNotification(d, c)
      PROVE  AudibleInv' /\ SilentInv'
  BY <1>7, HandledTimely DEF HandleNotification, AudibleInv, gatt
<1>8. CASE FailureReturns \/ UNCHANGED vars
  BY <1>1, <1>8 DEF FailureReturns, vars, gatt
<1>9. CASE RunReport
  BY <1>9, RunTimely DEF RunReport, AudibleInv, gatt
<1>10. ASSUME NEW d \in Devices, NEW c \in Chars,
              StartNotificationRefused(d, c) \/ StopNotificationRefused(d, c)
       PROVE  FALSE
  BY <1>10 DEF Disciplined, StartNotificationRefused, StopNotificationRefused
<1>. QED
  BY <1>2, <1>3, <1>4, <1>5, <1>6, <1>7, <1>8, <1>9, <1>10, Zenon DEF Next

\* They hold throughout.
LEMMA SilentInvariant == Disciplined => (Spec => []SilentInv)
<1>. SUFFICES ASSUME Disciplined PROVE Spec => []SilentInv
  OBVIOUS
<1>1. Init => AudibleInv /\ SilentInv
  BY DEF Init, AudibleInv, SilentInv
<1>2. TypeOK /\ SubscriptionInv /\ AudibleInv /\ SilentInv /\ [Next]_vars
        => AudibleInv' /\ SilentInv'
  BY SilentStep
<1>. QED
  BY <1>1, <1>2, SubscriptionTypes, SubscriptionInvariant, PTL DEF Spec

\* Once a stop has been reported the handler is not called, for as long as
\* handleNotification() gives every value to the device that sent it: the
\* report of the stop queues behind the values received before it.
THEOREM SilentWhenAttributed ==
  Disciplined => (Spec => [](HandedToItsDevice => StoppedStaysSilent))
<1>. SUFFICES ASSUME Disciplined PROVE Spec => [](HandedToItsDevice => StoppedStaysSilent)
  OBVIOUS
<1>1. SilentInv => (HandedToItsDevice => StoppedStaysSilent)
  BY DEF SilentInv, Timely, stopOf, HandedToItsDevice, StoppedStaysSilent
<1>. QED
  BY <1>1, SilentInvariant, PTL

OneKnownDevice == \A d, e \in Devices : d = e

\* So it is for an application that knows one device.
THEOREM StopSilences == Disciplined /\ OneKnownDevice => (Spec => []StoppedStaysSilent)
<1>. SUFFICES ASSUME Disciplined, OneKnownDevice PROVE Spec => []StoppedStaysSilent
  OBVIOUS
<1>1. TypeOK => HandedToItsDevice
  <2>. SUFFICES ASSUME TypeOK, NEW i \in DOMAIN reportQueue
                PROVE  reportQueue[i].dev = reportQueue[i].src
    BY DEF HandedToItsDevice
  <2>1. reportQueue[i] \in Reports
    BY DEF TypeOK
  <2>2. reportQueue[i].dev \in Devices /\ reportQueue[i].src \in Devices
    BY <2>1 DEF Reports
  <2>. QED
    BY <2>2 DEF OneKnownDevice
<1>. QED
  BY <1>1, SilentWhenAttributed, SubscriptionTypes, PTL

=============================================================================
