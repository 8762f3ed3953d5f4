--------------------------- MODULE DiscoveryProofs ---------------------------
(***************************************************************************)
(* Discovery on top of the GATT manager: what holds of the manager alone   *)
(* holds when the tracker drives it and forgets devices in its own time,   *)
(* and no probe of a device that was given up is left in its table; for    *)
(* every set of addresses, of tasks and of polls and all caps.             *)
(***************************************************************************)
EXTENDS DiscoveryProps, GattTaskProofs, GattLineProofs

(* The manager's invariants, together.                                     *)
ManagerInv == BInv /\ LineInv

-----------------------------------------------------------------------------
(* The manager's invariants under the tracker.                             *)

(* The manager keeps its invariants by itself.                             *)
LEMMA ManagerKeeps == ManagerInv /\ [Next]_vars => ManagerInv'
  BY BInvStep, LineStep DEF ManagerInv, BInv, InvL

(* And when any number of devices are forgotten at once.                   *)
LEMMA ForgetKeeps ==
  ASSUME ManagerInv, NEW S \in SUBSET Addrs, ForgetDevices(S)
  PROVE  ManagerInv'
<1>1. IInv /\ InvL /\ PoolOK /\ TargetsOK /\ CachesOK
  BY RestParts DEF ManagerInv, BInv, InvL, IInv
<1>2. PoolOK'
  BY <1>1, PoolUnchanged DEF ForgetDevices
<1>3. TargetsOK'
  BY <1>1, TargetsUnchanged DEF ForgetDevices
<1>4. CachesOK'
  <2>1. cancelReq' \subseteq Probes
    BY <1>1, TasksOfType DEF ForgetDevices, CachesOK
  <2>2. /\ result' \in [Addrs -> Results]
        /\ failures' \in [Addrs -> 0..MaxRetries]
    BY <1>1, RetriesAssumption DEF ForgetDevices, CachesOK, Results
  <2>3. probeTasks' \in [Addrs -> Probes \cup {NoTask}]
    BY <1>1 DEF ForgetDevices, CachesOK
  <2> QED
    BY <1>1, <2>1, <2>2, <2>3 DEF ForgetDevices, CachesOK, stopVars
<1>5. IInv'
  BY <1>2, <1>3, <1>4 DEF IInv, RestOK, TargetsOK, CachesOK
<1>6. Books'
  <2>1. BInv /\ pending' \subseteq pending /\ UNCHANGED <<target, outcome, pc>>
        /\ pending \ S \subseteq pending'
        /\ \A a \in pending' \cap S : probeTasks[a] = NoTask
    BY DEF ForgetDevices, ManagerInv
  <2> QED BY <2>1, TasksToldToStop DEF ForgetDevices
<1>7. LineInv'
  BY <1>1, LineUntouched DEF ForgetDevices
<1> QED
  BY <1>5, <1>6, <1>7 DEF ManagerInv, BInv

(* Every step of discovery is one of the manager, or forgets devices, or   *)
(* leaves the manager alone.                                               *)
LEMMA DiscoveryDrives ==
  ASSUME seen \subseteq Addrs, [DiscoveryNext]_discoveryVars
  PROVE  [Next]_vars \/ \E S \in SUBSET Addrs : ForgetDevices(S)
<1>1. ASSUME NEW a \in Addrs, NEW kind \in Kinds, Sighting(a, kind)
      PROVE  \E S \in SUBSET Addrs : ForgetDevices(S)
  <2>1. Oldest(HeardLast(a)) \in SUBSET Addrs /\ {} \in SUBSET Addrs
    BY DEF Oldest
  <2> QED BY <1>1, <2>1 DEF Sighting, RecordSighting
<1>2. ASSUME NEW a \in Addrs, NEW kind \in Kinds, Route(a, kind)
      PROVE  [Next]_vars
  <2>1. CASE UNCHANGED vars
    BY <2>1
  <2>2. ASSUME NEW t \in Probes, ScheduleProbe(t, a) \/ ScheduleProbeFailsAtOnce(t, a)
        PROVE  Next
    BY <2>2 DEF Next, NextButRemoval, Environment
  <2> QED BY <1>2, <2>1, <2>2
             DEF Route, RouteNowhere, RouteToFlow, RouteToRejection, RouteToProbe
<1>3. ASSUME NEW S \in SUBSET Addrs, StaleCleanup(S)
      PROVE  \E R \in SUBSET Addrs : ForgetDevices(R)
  BY <1>3 DEF StaleCleanup
<1>4. ASSUME NEW t \in Probes, ProbeReports(t) \/ ProbeProceeds(t) PROVE Next
  BY <1>4 DEF ProbeReports, ProbeProceeds, SilentStep, Next, NextButRemoval,
              ProbeStep, ProbeTimeout
<1>5. ASSUME NEW p \in Polls, DevicePoll(p) PROVE Next
  BY <1>5 DEF DevicePoll, Next, NextButRemoval
<1>6. ASSUME NEW a \in Addrs, ConfirmDevice(a) \/ RemoveDeviceEntry(a) PROVE Next
  BY <1>6 DEF ConfirmDevice, RemoveDeviceEntry, Next, NextButRemoval, Environment
<1>7. ASSUME NEW a \in Addrs, SetupDeviceEntry(a) PROVE UNCHANGED vars
  BY <1>7 DEF SetupDeviceEntry
<1>8. ASSUME NEW a \in Addrs, UnloadDeviceEntry(a)
      PROVE  \E S \in SUBSET Addrs : ForgetDevices(S)
  BY <1>8 DEF UnloadDeviceEntry
<1>9. CoordinatorStops \/ CoordinatorStopped => Next
  BY DEF CoordinatorStops, CoordinatorStopped, Next, NextButRemoval
<1>10. UNCHANGED discoveryVars => UNCHANGED vars
  BY DEF discoveryVars
<1> QED
  BY <1>1, <1>2, <1>3, <1>4, <1>5, <1>6, <1>7, <1>8, <1>9, <1>10
     DEF DiscoveryNext

-----------------------------------------------------------------------------
(* What is rejected.                                                       *)

(* What was rejected is not in pending_probes: since a probe at work that  *)
(* is in the table is, this is why the table lists none for it.            *)
RejectedNotPending == rejected \cap pending = {}

(* Only an address that is neither confirmed nor pending afterwards is     *)
(* rejected, and only while there is room.                                 *)
MayBeRejected(a) ==
  \/ rejected' \subseteq rejected
  \/ /\ rejected' = rejected \cup {a} /\ a \notin confirmed /\ a \notin pending'
     /\ Cardinality(rejected) < MaxRejected

LEMMA FailureRejects ==
  ASSUME NEW a, HandleProbeFailure(a), a \notin pending'
  PROVE  MayBeRejected(a)
  BY DEF HandleProbeFailure, MarkRejected, MayBeRejected, trackerVars

(* A probe that reports has left pending_probes.                           *)
LEMMA ReportRejects ==
  ASSUME NEW t \in Probes, ProbeReports(t)
  PROVE  MayBeRejected(target[t]) /\ pending' \subseteq pending
<1>1. pending' = pending \ {target[t]}
  BY DEF ProbeReports, ProbeSupported, ProbeErrored, ProbeTimedOut, Settle,
         Untrack
<1>2. CASE HandleProbeSuccess(target[t])
  BY <1>1, <1>2 DEF HandleProbeSuccess, MarkTriggered, MayBeRejected, trackerVars
<1>3. CASE HandleProbeFailure(target[t])
  BY <1>1, <1>3, FailureRejects
<1> QED
  BY <1>1, <1>2, <1>3 DEF ProbeReports

(* An advertisement rejects its address or adds it to pending_probes, and  *)
(* what was rejected is neither looked at nor probed.                      *)
LEMMA RouteRejects ==
  ASSUME NEW a \in Addrs, NEW kind \in Kinds, Route(a, kind)
  PROVE  /\ MayBeRejected(a)
         /\ \/ pending' \subseteq pending
            \/ pending' = pending \cup {a} /\ a \notin rejected'
<1>1. CASE RouteNowhere(a, kind) \/ RouteToFlow(a, kind)
  BY <1>1 DEF RouteNowhere, RouteToFlow, MarkTriggered, MayBeRejected, vars,
              trackVars, trackerVars
<1>2. CASE RouteToRejection(a, kind)
  BY <1>2 DEF RouteToRejection, Unprobed, Settled, MarkRejected, MayBeRejected,
              vars, trackVars
<1>3. ASSUME NEW t \in Probes, ScheduleProbe(t, a), UNCHANGED trackerVars,
             Unprobed(a, kind)
      PROVE  /\ MayBeRejected(a)
             /\ pending' = pending \cup {a} /\ a \notin rejected'
  BY <1>3 DEF ScheduleProbe, Unprobed, Settled, MayBeRejected, trackerVars
<1>4. ASSUME NEW t \in Probes, ScheduleProbeFailsAtOnce(t, a),
             HandleProbeFailure(a)
      PROVE  MayBeRejected(a) /\ pending' = pending
  BY <1>4, FailureRejects DEF ScheduleProbeFailsAtOnce, MaySchedule
<1> QED
  BY <1>1, <1>2, <1>3, <1>4 DEF Route, RouteToProbe

(* The tracker's own steps reject nobody, and no step of discovery but the *)
(* routing of an advertisement makes an address pending.                   *)
LEMMA OthersRejectNobody ==
  ASSUME [DiscoveryNext]_discoveryVars,
         ~\E a \in Addrs, kind \in Kinds : Route(a, kind),
         ~\E t \in Probes : ProbeReports(t)
  PROVE  rejected' \subseteq rejected /\ pending' \subseteq pending
<1>1. ASSUME NEW a \in Addrs, NEW kind \in Kinds, Sighting(a, kind)
      PROVE  rejected' \subseteq rejected /\ pending' \subseteq pending
  BY <1>1 DEF Sighting, RecordSighting, ForgetDevices
<1>2. ASSUME NEW S \in SUBSET Addrs, StaleCleanup(S)
      PROVE  rejected' \subseteq rejected /\ pending' \subseteq pending
  BY <1>2 DEF StaleCleanup, ForgetDevices
<1>3. ASSUME NEW t \in Probes, ProbeProceeds(t)
      PROVE  rejected' \subseteq rejected /\ pending' \subseteq pending
  <2>1. rejected' = rejected
    BY <1>3 DEF ProbeProceeds, trackerVars
  <2>2. pending' \subseteq pending
    BY <1>3 DEF ProbeProceeds, SilentStep, ProbeStarts, ConnectSucceeds,
         ConnectFails, ReadDone, ProbeUnsupported, CooldownDone, TimeoutFires,
         CancelledInLine, CancelledConnected, CancelledUnwinds,
         CancelledInCooldown, Settle, Untrack, trackVars
  <2> QED BY <2>1, <2>2
<1>4. ASSUME NEW p \in Polls, DevicePoll(p)
      PROVE  rejected' \subseteq rejected /\ pending' \subseteq pending
  BY <1>4 DEF DevicePoll, PollStep, PollResumes, ConnectSucceeds, ConnectFails,
       ReadDone, PollProbeDone, PollReadDone, PollBegins, PollFromCache,
       PollStarts, Preempt, trackVars, trackerVars
<1>5. ASSUME NEW a \in Addrs,
             ConfirmDevice(a) \/ SetupDeviceEntry(a) \/ RemoveDeviceEntry(a)
      PROVE  rejected' \subseteq rejected /\ pending' \subseteq pending
  BY <1>5 DEF ConfirmDevice, EntryAdded, SetupDeviceEntry, RemoveDeviceEntry,
              EntryRemoved, vars, trackVars, trackerVars
<1>6. ASSUME NEW a \in Addrs, UnloadDeviceEntry(a)
      PROVE  rejected' \subseteq rejected /\ pending' \subseteq pending
  BY <1>6 DEF UnloadDeviceEntry, ForgetDevices
<1>7. CASE CoordinatorStops \/ CoordinatorStopped
  BY <1>7 DEF CoordinatorStops, CoordinatorStopped, StopBegins, StopReturns,
              ClearTracker, trackVars, trackerVars
<1>8. CASE UNCHANGED discoveryVars
  BY <1>8 DEF discoveryVars, vars, trackVars, trackerVars
<1> QED
  BY <1>1, <1>2, <1>3, <1>4, <1>5, <1>6, <1>7, <1>8 DEF DiscoveryNext

LEMMA RejectedStep ==
  ASSUME RejectedNotPending, [DiscoveryNext]_discoveryVars
  PROVE  RejectedNotPending' /\ (rejected' \ rejected) \cap confirmed = {}
<1>1. ASSUME NEW a \in Addrs, NEW kind \in Kinds, Route(a, kind)
      PROVE  RejectedNotPending' /\ (rejected' \ rejected) \cap confirmed = {}
  BY <1>1, RouteRejects DEF RejectedNotPending, MayBeRejected
<1>2. ASSUME NEW t \in Probes, ProbeReports(t)
      PROVE  RejectedNotPending' /\ (rejected' \ rejected) \cap confirmed = {}
  BY <1>2, ReportRejects DEF RejectedNotPending, MayBeRejected
<1>3. CASE rejected' \subseteq rejected /\ pending' \subseteq pending
  BY <1>3 DEF RejectedNotPending
<1> QED
  BY <1>1, <1>2, <1>3, OthersRejectNobody

-----------------------------------------------------------------------------
(* The times.                                                              *)

LEMMA DropOrdered ==
  ASSUME NEW order, TimesOrdered(order), NEW S
  PROVE  /\ TimesOrdered(Drop(S, order))
         /\ KeysOf(Drop(S, order)) = KeysOf(order) \ S
<1>1. \A a, b : <<a, b>> \in Drop(S, order)
                  <=> <<a, b>> \in order /\ a \notin S /\ b \notin S
  BY DEF Drop
<1>2. KeysOf(Drop(S, order)) = KeysOf(order) \ S
  BY <1>1 DEF KeysOf
<1>3. Drop(S, order) \subseteq (KeysOf(order) \ S) \X (KeysOf(order) \ S)
  BY DEF Drop, TimesOrdered
<1> QED
  BY <1>1, <1>2, <1>3 DEF TimesOrdered

(* Whoever is heard becomes the last, the others keep their order.         *)
LEMMA LastOrdered ==
  ASSUME TimesOrdered(recency), NEW a \in Addrs
  PROVE  /\ TimesOrdered(HeardLast(a))
         /\ KeysOf(HeardLast(a)) = Heard \cup {a}
         /\ \A b, c : b # a /\ c # a
              => (<<b, c>> \in HeardLast(a) <=> <<b, c>> \in recency)
<1> DEFINE rest == Drop({a}, recency)
           last == HeardLast(a)
<1>1. Heard = KeysOf(recency)
  BY DEF Heard
<1>2. TimesOrdered(rest) /\ KeysOf(rest) = Heard \ {a}
  BY <1>1, DropOrdered
<1>3. \A b, c : <<b, c>> \in last <=>
        <<b, c>> \in rest \/ (b \in Heard \cup {a} /\ c = a)
  BY DEF HeardLast
<1>4. \A b, c : <<b, c>> \in rest => b \in Heard \ {a} /\ c \in Heard \ {a}
  BY <1>2 DEF TimesOrdered
<1>5. Heard \subseteq Addrs
  BY DEF Heard, KeysOf
<1>6. KeysOf(last) = Heard \cup {a}
  <2> HIDE DEF last
  <2>1. \A b \in Addrs : <<b, b>> \in last <=> <<b, b>> \in rest \/ b = a
    BY <1>3
  <2>2. \A b \in Addrs : <<b, b>> \in rest <=> b \in Heard \ {a}
    BY <1>2 DEF KeysOf
  <2> QED BY <1>5, <2>1, <2>2 DEF KeysOf
<1>7. last \subseteq KeysOf(last) \X KeysOf(last)
  <2>1. rest \subseteq (Heard \ {a}) \X (Heard \ {a})
    BY <1>2 DEF TimesOrdered
  <2>2. last \subseteq (Heard \cup {a}) \X (Heard \cup {a})
    BY <2>1 DEF HeardLast
  <2> QED BY <1>6, <2>2
<1>8. \A b, c, d : <<b, c>> \in last /\ <<c, d>> \in last => <<b, d>> \in last
  <2> HIDE DEF last, rest
  <2> QED BY <1>2, <1>3, <1>4 DEF TimesOrdered
<1>9. \A b, c : <<b, c>> \in last /\ <<c, b>> \in last => b = c
  <2> HIDE DEF last, rest
  <2> QED BY <1>2, <1>3, <1>4 DEF TimesOrdered
<1>10. \A b, c \in KeysOf(last) : <<b, c>> \in last \/ <<c, b>> \in last
  <2> HIDE DEF last, rest
  <2> QED BY <1>2, <1>3, <1>6 DEF TimesOrdered
<1>11. \A b, c : b # a /\ c # a => (<<b, c>> \in last <=> <<b, c>> \in recency)
  <2>1. \A b, c : b # a /\ c # a => (<<b, c>> \in rest <=> <<b, c>> \in recency)
    BY DEF Drop
  <2> HIDE DEF last, rest
  <2> QED BY <1>3, <2>1
<1> QED
  BY <1>6, <1>7, <1>8, <1>9, <1>10, <1>11 DEF TimesOrdered

-----------------------------------------------------------------------------
(* Eviction.                                                               *)

(* Those in seen_devices that were heard before a.                         *)
HeardBefore(a, order) == {b \in seen \ {a} : <<b, a>> \in order}

(* There is one that nobody was heard before.                              *)
LEMMA FirstHeard ==
  ASSUME IsFiniteSet(seen), seen # {}, NEW order, TimesOrdered(order)
  PROVE  \E a \in seen : HeardBefore(a, order) = {}
<1> DEFINE T == {HeardBefore(a, order) : a \in seen}
<1>1. T # {}
  OBVIOUS
<1>2. T \subseteq FiniteSubsetsOf(seen)
  <2>1. \A a \in seen : HeardBefore(a, order) \in SUBSET seen
    BY DEF HeardBefore
  <2>2. \A a \in seen : IsFiniteSet(HeardBefore(a, order))
    BY <2>1, FS_Subset
  <2> QED BY <2>1, <2>2 DEF FiniteSubsetsOf
<1>3. PICK x \in T : \A y \in T : <<y, x>> \notin StrictSubsetOrdering(seen)
  <2> HIDE DEF T
  <2> QED BY <1>1, <1>2, FS_StrictSubsetOrderingWellFounded, WFMin
<1>4. PICK a \in seen : x = HeardBefore(a, order)
  OBVIOUS
<1>5. ASSUME NEW b \in HeardBefore(a, order)
      PROVE  /\ HeardBefore(b, order) \subseteq HeardBefore(a, order)
             /\ b \notin HeardBefore(b, order) /\ b \in seen
  BY <1>5 DEF HeardBefore, TimesOrdered
<1>6. \A b \in seen : HeardBefore(b, order) \in SUBSET seen
  BY DEF HeardBefore
<1>7. ASSUME NEW b \in HeardBefore(a, order) PROVE FALSE
  <2> DEFINE y == HeardBefore(b, order)
  <2>1. y \in T /\ y \subseteq x /\ y # x /\ x \subseteq seen
    BY <1>4, <1>5, <1>6, <1>7
  <2>2. <<y, x>> \in StrictSubsetOrdering(seen)
    <3> HIDE DEF y
    <3> QED BY <2>1 DEF StrictSubsetOrdering
  <2> QED BY <1>3, <2>1, <2>2
<1> QED
  BY <1>7

LEMMA OldestFirst ==
  ASSUME IsFiniteSet(seen), NEW order, TimesOrdered(order)
  PROVE  /\ Oldest(order) \subseteq seen
         /\ seen # {} => Oldest(order) # {}
         /\ \A a \in seen \ Oldest(order), b \in Oldest(order) :
              <<a, b>> \notin order
<1>1. /\ Oldest(order) = {a \in seen : Cardinality(HeardBefore(a, order))
                                       < EvictCount}
      /\ EvictCount \in Nat \ {0}
  <2>1. Cardinality(seen) \in Nat
    BY FS_CardinalityType
  <2> QED BY <2>1 DEF Oldest, HeardBefore, EvictCount
<1>2. ASSUME seen # {} PROVE Oldest(order) # {}
  <2>1. PICK a \in seen : HeardBefore(a, order) = {}
    BY <1>2, FirstHeard
  <2>2. Cardinality(HeardBefore(a, order)) = 0
    BY <2>1, FS_EmptySet
  <2> QED BY <1>1, <2>2
<1>3. ASSUME NEW a \in seen \ Oldest(order), NEW b \in Oldest(order),
             <<a, b>> \in order
      PROVE  FALSE
  <2>1. HeardBefore(a, order) \subseteq HeardBefore(b, order)
    BY <1>1, <1>3 DEF HeardBefore, TimesOrdered
  <2>2. IsFiniteSet(HeardBefore(b, order)) /\ IsFiniteSet(HeardBefore(a, order))
    <3>1. \A c : HeardBefore(c, order) \in SUBSET seen
      BY DEF HeardBefore
    <3> QED BY <3>1, FS_Subset
  <2>3. Cardinality(HeardBefore(a, order)) <= Cardinality(HeardBefore(b, order))
    BY <2>1, <2>2, FS_Subset
  <2>4. /\ Cardinality(HeardBefore(a, order)) \in Nat
        /\ Cardinality(HeardBefore(b, order)) \in Nat
    BY <2>2, FS_CardinalityType
  <2> QED BY <1>1, <2>3, <2>4
<1> QED
  BY <1>1, <1>2, <1>3

-----------------------------------------------------------------------------
(* The tracker's own invariants.                                           *)

(* What is seen, and when.                                                 *)
SeenOK ==
  /\ seen \subseteq Heard /\ IsFiniteSet(seen) /\ Cardinality(seen) <= MaxSeen
  /\ TimesOrdered(recency)

(* What is rejected.                                                       *)
RejectedOK ==
  /\ rejected \subseteq Addrs /\ IsFiniteSet(rejected)
  /\ Cardinality(rejected) <= MaxRejected

(* What is offered, what is set up, and what is being routed.              *)
OfferedOK ==
  /\ triggered \subseteq Addrs /\ processors \subseteq Addrs
  /\ flows \subseteq Addrs \ confirmed
  /\ routing \in {<<>>} \cup (Addrs \X Kinds)

LEMMA SightingSeen ==
  ASSUME SeenOK, NEW a \in Addrs, RecordSighting(a)
  PROVE  /\ SeenOK'
         /\ \A b \in seen \cap seen', c \in seen \ seen' :
              <<b, c>> \notin recency
<1> DEFINE order == HeardLast(a)
           evict == IF a \notin seen /\ Cardinality(seen) >= MaxSeen
                    THEN Oldest(order) ELSE {}
<1>1. /\ TimesOrdered(order) /\ KeysOf(order) = Heard \cup {a}
      /\ \A b, c : b # a /\ c # a
           => (<<b, c>> \in order <=> <<b, c>> \in recency)
  BY LastOrdered DEF SeenOK
<1>2. /\ Oldest(order) \subseteq seen
      /\ seen # {} => Oldest(order) # {}
      /\ \A b \in seen \ Oldest(order), c \in Oldest(order) :
           <<b, c>> \notin order
  <2> HIDE DEF order
  <2> QED BY <1>1, OldestFirst DEF SeenOK
<1>3. seen' = (seen \ evict) \cup {a} /\ recency' = Drop(evict, order)
  BY DEF RecordSighting
<1> HIDE DEF order
<1>4. evict \subseteq seen /\ a \notin evict
  BY <1>2
<1>5. TimesOrdered(recency') /\ KeysOf(recency') = (Heard \cup {a}) \ evict
  <2> HIDE DEF evict
  <2> QED BY <1>1, <1>3, DropOrdered
<1>6. seen' \subseteq Heard'
  BY <1>3, <1>4, <1>5 DEF SeenOK, Heard, KeysOf
<1>7. IsFiniteSet(seen') /\ Cardinality(seen') <= MaxSeen
  <2>1. Cardinality(seen) \in Nat /\ IsFiniteSet(seen) /\ Cardinality(seen) <= MaxSeen
        /\ MaxSeen \in Nat \ {0}
    BY CapsAssumption, FS_CardinalityType DEF SeenOK
  <2>2. CASE a \in seen
    BY <1>3, <2>1, <2>2
  <2>3. CASE a \notin seen /\ ~(Cardinality(seen) >= MaxSeen)
    <3>1. seen' = seen \cup {a} /\ Cardinality(seen) + 1 <= MaxSeen
      BY <1>3, <2>1, <2>3
    <3> QED BY <2>1, <2>3, <3>1, FS_AddElement
  <2>4. CASE a \notin seen /\ Cardinality(seen) >= MaxSeen
    <3> DEFINE kept == seen \ evict
    <3>1. evict = Oldest(order) /\ seen # {}
      BY <2>1, <2>4, FS_EmptySet
    <3>2. kept \in SUBSET seen /\ kept # seen
      BY <1>2, <3>1
    <3>3. IsFiniteSet(kept) /\ Cardinality(kept) \in Nat
          /\ Cardinality(kept) < Cardinality(seen)
      <4> HIDE DEF kept
      <4> QED BY <2>1, <3>2, FS_Subset, FS_CardinalityType
    <3>4. seen' = kept \cup {a}
      BY <1>3
    <3>5. IsFiniteSet(kept \cup {a})
          /\ Cardinality(kept \cup {a}) <= Cardinality(kept) + 1
      <4> HIDE DEF kept
      <4>1. /\ IsFiniteSet(kept \cup {a})
            /\ Cardinality(kept \cup {a})
                 = IF a \in kept THEN Cardinality(kept) ELSE Cardinality(kept) + 1
        BY <3>3, FS_AddElement
      <4> QED BY <3>3, <4>1
    <3> HIDE DEF kept
    <3>6. Cardinality(kept \cup {a}) \in Nat
      BY <3>5, FS_CardinalityType
    <3> QED BY <2>1, <3>3, <3>4, <3>5, <3>6
  <2> QED BY <2>2, <2>3, <2>4
<1>8. ASSUME NEW b \in seen \cap seen', NEW c \in seen \ seen'
      PROVE  <<b, c>> \notin recency
  <2>1. c \in evict /\ a \notin seen /\ evict = Oldest(order)
    BY <1>3, <1>8
  <2>2. b \in seen \ evict /\ b # a /\ c # a
    BY <1>3, <1>8, <2>1
  <2> QED BY <1>1, <1>2, <2>1, <2>2
<1> QED
  BY <1>5, <1>6, <1>7, <1>8 DEF SeenOK

(* The steps that concern what is seen.                                    *)
LEMMA SeenBy ==
  ASSUME [DiscoveryNext]_discoveryVars
  PROVE  \/ \E a \in Addrs, kind \in Kinds : Sighting(a, kind)
         \/ \E S \in SUBSET Addrs : StaleCleanup(S)
         \/ seen' = {} /\ recency' = {}
         \/ UNCHANGED <<seen, recency>>
  BY DEF DiscoveryNext, discoveryVars, trackerVars, Route, RouteNowhere,
         RouteToFlow, RouteToRejection, RouteToProbe, MarkTriggered,
         MarkRejected, HandleProbeFailure, HandleProbeSuccess,
         ProbeReports, ProbeProceeds, DevicePoll, ConfirmDevice,
         SetupDeviceEntry, UnloadDeviceEntry, RemoveDeviceEntry,
         CoordinatorStops, CoordinatorStopped, ClearTracker

LEMMA SeenOKStep ==
  ASSUME SeenOK, [DiscoveryNext]_discoveryVars
  PROVE  SeenOK'
<1>1. ASSUME NEW a \in Addrs, NEW kind \in Kinds, Sighting(a, kind)
      PROVE  SeenOK'
  BY <1>1, SightingSeen DEF Sighting
<1>2. ASSUME NEW S \in SUBSET Addrs, StaleCleanup(S)
      PROVE  SeenOK'
  <2>1. seen' = seen \ S /\ recency' = Drop(S, recency)
    BY <1>2 DEF StaleCleanup
  <2>2. TimesOrdered(recency') /\ KeysOf(recency') = KeysOf(recency) \ S
    BY <2>1, DropOrdered DEF SeenOK
  <2>3. IsFiniteSet(seen') /\ Cardinality(seen') <= Cardinality(seen)
    <3>1. seen' \in SUBSET seen
      BY <2>1
    <3> QED BY <3>1, FS_Subset DEF SeenOK
  <2>4. Cardinality(seen') <= MaxSeen
    BY <2>3, CapsAssumption, FS_CardinalityType DEF SeenOK
  <2> QED BY <2>1, <2>2, <2>3, <2>4 DEF SeenOK, Heard, KeysOf
<1>3. CASE seen' = {} /\ recency' = {}
  <2>1. TimesOrdered(recency')
    BY <1>3 DEF TimesOrdered, KeysOf
  <2> QED BY <1>3, <2>1, FS_EmptySet, CapsAssumption DEF SeenOK
<1>4. CASE UNCHANGED <<seen, recency>>
  BY <1>4 DEF SeenOK, Heard, TimesOrdered, KeysOf
<1> QED
  BY <1>1, <1>2, <1>3, <1>4, SeenBy

(* A probe that reports is one of an address.                              *)
LEMMA ReportedAddress ==
  ASSUME TargetsOK, NEW t \in Probes, ProbeReports(t)
  PROVE  target[t] \in Addrs
<1>1. pc[t] # "idle"
  BY DEF ProbeReports, ProbeSupported, ProbeErrored, ProbeTimedOut, Returned,
         CloseAndCool
<1> QED
  BY <1>1 DEF TargetsOK

LEMMA RejectedOKStep ==
  ASSUME RejectedOK, TargetsOK, [DiscoveryNext]_discoveryVars
  PROVE  RejectedOK'
<1>0. Cardinality(rejected) \in Nat /\ MaxRejected \in Nat
  BY FS_CardinalityType, CapsAssumption DEF RejectedOK
<1>1. CASE rejected' \subseteq rejected
  <2>1. IsFiniteSet(rejected') /\ Cardinality(rejected') <= Cardinality(rejected)
    BY <1>1, FS_Subset DEF RejectedOK
  <2>2. Cardinality(rejected') \in Nat
    BY <2>1, FS_CardinalityType
  <2> QED BY <1>0, <1>1, <2>1, <2>2 DEF RejectedOK
<1>2. ASSUME NEW a \in Addrs, MayBeRejected(a)
      PROVE  RejectedOK'
  <2>1. CASE rejected' = rejected \cup {a} /\ Cardinality(rejected) < MaxRejected
    <3>1. /\ IsFiniteSet(rejected \cup {a})
          /\ Cardinality(rejected \cup {a})
               = IF a \in rejected THEN Cardinality(rejected)
                                   ELSE Cardinality(rejected) + 1
      BY FS_AddElement DEF RejectedOK
    <3> QED BY <1>0, <2>1, <3>1 DEF RejectedOK
  <2> QED BY <1>1, <1>2, <2>1 DEF MayBeRejected
<1> QED
  BY <1>1, <1>2, RouteRejects, ReportRejects, ReportedAddress, OthersRejectNobody

(* The steps that offer a device: one address is, which is not confirmed.  *)
MayBeOffered(a) ==
  /\ flows' \subseteq flows \cup {a} /\ triggered' \subseteq triggered \cup {a}
  /\ a \notin confirmed /\ confirmed' = confirmed

LEMMA RouteOffers ==
  ASSUME NEW a \in Addrs, NEW kind \in Kinds, Route(a, kind)
  PROVE  /\ MayBeOffered(a) \/ UNCHANGED <<flows, triggered, confirmed>>
         /\ UNCHANGED processors /\ routing' = <<>>
<1> USE DEF entryVars
<1>1. CASE RouteNowhere(a, kind)
  BY <1>1 DEF Route, RouteNowhere, vars, trackerVars
<1>2. CASE RouteToFlow(a, kind)
  BY <1>2 DEF Route, RouteToFlow, Settled, MarkTriggered, MayBeOffered, vars
<1>3. CASE RouteToRejection(a, kind)
  BY <1>3 DEF Route, RouteToRejection, MarkRejected, vars
<1>4. CASE RouteToProbe(a, kind)
  BY <1>4 DEF Route, RouteToProbe, ScheduleProbe, ScheduleProbeFailsAtOnce,
              HandleProbeFailure, MarkRejected, trackerVars
<1> QED
  BY <1>1, <1>2, <1>3, <1>4 DEF Route

LEMMA ReportOffers ==
  ASSUME NEW t \in Probes, ProbeReports(t)
  PROVE  /\ MayBeOffered(target[t]) \/ UNCHANGED <<flows, triggered, confirmed>>
         /\ UNCHANGED <<processors, routing>>
<1> USE DEF entryVars
<1>1. confirmed' = confirmed
  BY DEF ProbeReports, ProbeSupported, ProbeErrored, ProbeTimedOut, Settle
<1>2. CASE HandleProbeSuccess(target[t])
  BY <1>1, <1>2 DEF ProbeReports, HandleProbeSuccess, MarkTriggered,
                    MayBeOffered, trackerVars
<1>3. CASE HandleProbeFailure(target[t])
  BY <1>1, <1>3 DEF ProbeReports, HandleProbeFailure, MarkRejected, trackerVars
<1> QED
  BY <1>2, <1>3 DEF ProbeReports

LEMMA OfferedOKStep ==
  ASSUME OfferedOK, TargetsOK, [DiscoveryNext]_discoveryVars
  PROVE  OfferedOK'
<1> USE DEF entryVars
<1>1. ASSUME NEW a \in Addrs, NEW kind \in Kinds, Sighting(a, kind)
      PROVE  OfferedOK'
  BY <1>1 DEF Sighting, RecordSighting, ForgetDevices, OfferedOK
<1>2. ASSUME NEW a \in Addrs, NEW kind \in Kinds, Route(a, kind)
      PROVE  OfferedOK'
  BY <1>2, RouteOffers DEF MayBeOffered, OfferedOK
<1>3. ASSUME NEW S \in SUBSET Addrs, StaleCleanup(S)
      PROVE  OfferedOK'
  BY <1>3 DEF StaleCleanup, ForgetDevices, OfferedOK
<1>4. ASSUME NEW t \in Probes, ProbeReports(t)
      PROVE  OfferedOK'
  BY <1>4, ReportOffers, ReportedAddress DEF MayBeOffered, OfferedOK
<1>5. ASSUME NEW t \in Probes, ProbeProceeds(t)
      PROVE  OfferedOK'
  <2>1. confirmed' = confirmed
    BY <1>5 DEF ProbeProceeds, SilentStep, ProbeStarts, ConnectSucceeds,
         ConnectFails, ReadDone, ProbeUnsupported, CooldownDone, TimeoutFires,
         CancelledInLine, CancelledConnected, CancelledUnwinds,
         CancelledInCooldown, Settle
  <2> QED BY <1>5, <2>1 DEF ProbeProceeds, trackerVars, OfferedOK
<1>6. ASSUME NEW p \in Polls, DevicePoll(p)
      PROVE  OfferedOK'
  <2>1. confirmed' = confirmed
    BY <1>6 DEF DevicePoll, PollStep, PollResumes, ConnectSucceeds,
         ConnectFails, ReadDone, PollProbeDone, PollReadDone, PollBegins,
         PollFromCache, PollStarts
  <2> QED BY <1>6, <2>1 DEF DevicePoll, trackerVars, OfferedOK
<1>7. ASSUME NEW a \in Addrs,
             \/ ConfirmDevice(a) \/ SetupDeviceEntry(a)
             \/ UnloadDeviceEntry(a) \/ RemoveDeviceEntry(a)
      PROVE  OfferedOK'
  BY <1>7 DEF ConfirmDevice, EntryAdded, SetupDeviceEntry, UnloadDeviceEntry,
       ForgetDevices, RemoveDeviceEntry, EntryRemoved, vars, trackerVars,
       OfferedOK
<1>8. CASE CoordinatorStops \/ CoordinatorStopped
  BY <1>8 DEF CoordinatorStops, CoordinatorStopped, StopBegins, StopReturns,
              ClearTracker, trackerVars, OfferedOK
<1>9. CASE UNCHANGED discoveryVars
  BY <1>9 DEF discoveryVars, vars, trackerVars, OfferedOK
<1> QED
  BY <1>1, <1>2, <1>3, <1>4, <1>5, <1>6, <1>7, <1>8, <1>9 DEF DiscoveryNext

-----------------------------------------------------------------------------
(* The polls that a stopped poll coordinator left behind.                  *)

(* They are under way.                                                     *)
StraysOK == strays \subseteq Polls /\ \A p \in strays : pc[p] # "idle"

(* A step of a probe ends no poll.                                         *)
LEMMA ProbesLeavePolls ==
  ASSUME BInv, NEW t \in Probes, ProbeStep(t) \/ ProbeTimeout(t)
  PROVE  OthersWait(t)
<1> USE TaskTypes, JobTypes, Moves DEF BInv
<1>1. ASSUME NEW o, Returned(t, o) PROVE OthersWait(t)
  BY <1>1 DEF Returned, CloseAndCool
<1>2. CASE ProbeSupported(t) \/ ProbeErrored(t) \/ ProbeUnsupported(t)
  BY <1>1, <1>2 DEF ProbeSupported, ProbeErrored, ProbeUnsupported
<1>3. CASE ProbeTimedOut(t)
  BY <1>3 DEF ProbeTimedOut, CloseAndCool
<1>4. CASE ProbeStarts(t) \/ TimeoutFires(t) \/ CooldownDone(t)
  BY <1>4 DEF ProbeStarts, TimeoutFires, CooldownDone
<1>5. CASE ConnectSucceeds(t) \/ ConnectFails(t) \/ ReadDone(t)
  BY <1>5 DEF ConnectSucceeds, ConnectFails, ReadDone
<1>6. CASE \/ CancelledInLine(t) \/ CancelledConnected(t) \/ CancelledUnwinds(t)
           \/ CancelledInCooldown(t)
  BY <1>6 DEF CancelledInLine, CancelledConnected, CancelledUnwinds,
              CancelledInCooldown
<1> QED
  BY <1>2, <1>3, <1>4, <1>5, <1>6 DEF ProbeStep, ProbeTimeout

LEMMA StraysOKStep ==
  ASSUME StraysOK, BInv, [DiscoveryNext]_discoveryVars
  PROVE  StraysOK'
<1> USE TaskTypes, JobTypes DEF BInv, StraysOK, entryVars
<1>1. ASSUME NEW t \in Probes, OthersWait(t), UNCHANGED strays
      PROVE  StraysOK'
  BY <1>1 DEF OthersWait
<1>2. CASE UNCHANGED <<pc, strays>>
  BY <1>2
<1>3. ASSUME NEW a \in Addrs, NEW kind \in Kinds, Sighting(a, kind)
      PROVE  StraysOK'
  BY <1>2, <1>3 DEF Sighting, RecordSighting, ForgetDevices
<1>4. ASSUME NEW a \in Addrs, NEW kind \in Kinds, Route(a, kind)
      PROVE  StraysOK'
  <2>1. ASSUME NEW t \in Probes,
               ScheduleProbe(t, a) \/ ScheduleProbeFailsAtOnce(t, a)
        PROVE  OthersWait(t)
    BY <2>1 DEF ScheduleProbe, ScheduleProbeFailsAtOnce, TakeSlot, JoinLine,
                OthersWait
  <2>2. CASE UNCHANGED vars
    BY <1>2, <1>4, <2>2 DEF Route, vars
  <2> QED
    BY <1>1, <1>4, <2>1, <2>2
       DEF Route, RouteNowhere, RouteToFlow, RouteToRejection, RouteToProbe
<1>5. ASSUME NEW S \in SUBSET Addrs, StaleCleanup(S)
      PROVE  StraysOK'
  BY <1>2, <1>5 DEF StaleCleanup, ForgetDevices
<1>6. ASSUME NEW t \in Probes, ProbeReports(t) \/ ProbeProceeds(t)
      PROVE  StraysOK'
  <2>1. /\ ProbeStep(t) \/ ProbeTimeout(t)
        /\ UNCHANGED strays
    BY <1>6 DEF ProbeReports, ProbeProceeds, SilentStep, ProbeStep, ProbeTimeout
  <2> QED BY <1>1, <2>1, ProbesLeavePolls
<1>7. ASSUME NEW p \in Polls, DevicePoll(p)
      PROVE  StraysOK'
  BY <1>7 DEF DevicePoll
<1>8. ASSUME NEW a \in Addrs, UnloadDeviceEntry(a)
      PROVE  StraysOK'
  BY <1>8 DEF UnloadDeviceEntry, ForgetDevices
<1>9. ASSUME NEW a \in Addrs,
             ConfirmDevice(a) \/ SetupDeviceEntry(a) \/ RemoveDeviceEntry(a)
      PROVE  StraysOK'
  BY <1>2, <1>9 DEF ConfirmDevice, EntryAdded, SetupDeviceEntry,
                    RemoveDeviceEntry, EntryRemoved, vars
<1>10. CASE CoordinatorStops \/ CoordinatorStopped
  BY <1>2, <1>10 DEF CoordinatorStops, CoordinatorStopped, StopBegins, StopReturns
<1>11. CASE UNCHANGED discoveryVars
  BY <1>2, <1>11 DEF discoveryVars, vars
<1> QED
  BY <1>3, <1>4, <1>5, <1>6, <1>7, <1>8, <1>9, <1>10, <1>11 DEF DiscoveryNext

-----------------------------------------------------------------------------
(* The theorems.                                                           *)

DInv ==
  /\ ManagerInv /\ RejectedNotPending /\ SeenOK /\ RejectedOK /\ OfferedOK
  /\ StraysOK

LEMMA DInvHolds == DiscoverySpec => []DInv
<1>1. DiscoveryInit => DInv
  <2>1. DiscoveryInit => BInv
    BY InitIInv, InitBooks DEF DiscoveryInit, BInv
  <2>2. DiscoveryInit => LineInv
    BY DEF DiscoveryInit, Init, LineInv, LineIsSuspended, NoLostWakeup
  <2>3. DiscoveryInit => RejectedNotPending /\ OfferedOK
    BY DEF DiscoveryInit, Init, RejectedNotPending, OfferedOK
  <2>4. DiscoveryInit => SeenOK /\ RejectedOK
    BY FS_EmptySet, CapsAssumption
       DEF DiscoveryInit, SeenOK, RejectedOK, TimesOrdered, KeysOf
  <2>5. DiscoveryInit => StraysOK
    BY DEF DiscoveryInit, StraysOK
  <2> QED BY <2>1, <2>2, <2>3, <2>4, <2>5 DEF DInv, ManagerInv
<1>2. DInv /\ [DiscoveryNext]_discoveryVars => DInv'
  <2> SUFFICES ASSUME DInv, [DiscoveryNext]_discoveryVars PROVE DInv'
    OBVIOUS
  <2>1. seen \subseteq Addrs
    BY DEF DInv, SeenOK, Heard, KeysOf
  <2>2. TargetsOK
    BY RestParts DEF DInv, ManagerInv, BInv, IInv
  <2>3. ManagerInv'
    BY <2>1, DiscoveryDrives, ManagerKeeps, ForgetKeeps DEF DInv
  <2>4. RejectedNotPending' /\ SeenOK' /\ RejectedOK' /\ OfferedOK'
    BY <2>2, RejectedStep, SeenOKStep, RejectedOKStep, OfferedOKStep DEF DInv
  <2>5. StraysOK'
    BY StraysOKStep DEF DInv, ManagerInv
  <2> QED BY <2>3, <2>4, <2>5 DEF DInv
<1> QED
  BY <1>1, <1>2, PTL DEF DiscoverySpec

(* The slots of the semaphore add up also when devices are evicted and     *)
(* forgotten, confirmed and removed while their probes and polls run       *)
(* (record_sighting, async_cleanup_stale_devices, remove_device).          *)
THEOREM DiscoveryConservesSlots == DiscoverySpec => []SlotConservation
<1>1. DInv => SlotConservation
  BY DEF DInv, ManagerInv, BInv, IInv, PoolOK
<1> QED
  BY <1>1, DInvHolds, PTL

(* Whoever is evicted or forgotten in its own time, an address in          *)
(* pending_probes has a task at work that will take it out again.          *)
THEOREM DiscoveryTracksPending == DiscoverySpec => []PendingIsTracked
<1>1. DInv => PendingIsTracked
  BY DEF DInv, ManagerInv, BInv, Books
<1> QED
  BY <1>1, DInvHolds, PTL

(* A device is not given up while a probe of it is at work in the table,   *)
(* and none is started once it was: only a probe that another task's       *)
(* finally block took out of the table (gatt_manager.py:477) can be        *)
(* connecting to a rejected device.                                        *)
THEOREM GivenUpStayAtRest == DiscoverySpec => []GivenUpAtRest
<1>1. DInv => GivenUpAtRest
  <2> SUFFICES ASSUME DInv, NEW t \in Probes, Working(t),
                      target[t] \in rejected, probeTasks[target[t]] = t
               PROVE  FALSE
    BY DEF GivenUpAtRest
  <2>1. target[t] \in Addrs /\ t # NoTask
    BY NoTaskAssumption DEF DInv, RejectedOK
  <2>2. target[t] \in pending
    BY <2>1 DEF DInv, ManagerInv, BInv, Books, ListedIsPending
  <2> QED
    BY <2>2 DEF DInv, RejectedNotPending
<1> QED
  BY <1>1, DInvHolds, PTL

(* A confirmed device is never rejected, also when its entry was added     *)
(* while its last probe was failing (handle_probe_failure).                *)
THEOREM ConfirmedStay == DiscoverySpec => ConfirmedNeverRejected
<1>1. DInv /\ [DiscoveryNext]_discoveryVars
        => [(rejected' \ rejected) \cap confirmed = {}]_discoveryVars
  BY RejectedStep DEF DInv
<1> QED
  BY <1>1, DInvHolds, PTL DEF DiscoverySpec, ConfirmedNeverRejected

(* However many addresses are heard, at most MAX_SEEN_DEVICES are kept, at *)
(* most MAX_REJECTED_DEVICES are rejected, and what is kept has a time, so *)
(* that the stale cleanup can let go of it (_evict_oldest_seen).           *)
THEOREM TrackingStaysBounded == DiscoverySpec => []TrackingBounded
<1>1. DInv => TrackingBounded
  BY DEF DInv, SeenOK, RejectedOK, TrackingBounded
<1> QED
  BY <1>1, DInvHolds, PTL

(* The tracker's sets hold addresses, its times order all that were heard, *)
(* and no flow offers a confirmed device (handle_probe_success).           *)
THEOREM TrackerTyped == DiscoverySpec => []TrackerTypeOK
<1>1. DInv => TrackerTypeOK
  <2> SUFFICES ASSUME DInv PROVE TrackerTypeOK
    OBVIOUS
  <2>1. seen \subseteq Addrs
    BY DEF DInv, SeenOK, Heard, KeysOf
  <2> QED
    BY <2>1 DEF DInv, SeenOK, RejectedOK, OfferedOK, StraysOK, TrackerTypeOK
<1> QED
  BY <1>1, DInvHolds, PTL

(* Whoever is evicted, nobody who was heard earlier is kept                *)
(* (_evict_oldest_seen).                                                   *)
THEOREM OldestGoFirst == DiscoverySpec => OldestEvicted
<1>1. DInv /\ [DiscoveryNext]_discoveryVars
        => [routing' # routing /\ routing' # <<>> =>
              \A a \in seen \cap seen', b \in seen \ seen' :
                <<a, b>> \notin recency]_discoveryVars
  <2> SUFFICES ASSUME DInv, DiscoveryNext, routing' # routing, routing' # <<>>
               PROVE  \A a \in seen \cap seen', b \in seen \ seen' :
                        <<a, b>> \notin recency
    OBVIOUS
  <2>1. PICK a \in Addrs, kind \in Kinds : Sighting(a, kind)
    BY DEF DiscoveryNext, Route, StaleCleanup, ProbeReports, ProbeProceeds,
           DevicePoll, ConfirmDevice, SetupDeviceEntry, UnloadDeviceEntry,
           RemoveDeviceEntry, CoordinatorStops, CoordinatorStopped
  <2> QED
    BY <2>1, SightingSeen DEF DInv, Sighting
<1> QED
  BY <1>1, DInvHolds, PTL DEF DiscoverySpec, OldestEvicted

(* The semaphore stays a slot pool under discovery: a device that eviction *)
(* or cleanup forgets keeps its place until its task runs again, and       *)
(* nobody is handed a slot out of turn.                                    *)
THEOREM DiscoveryServesPool == DiscoverySpec => PoolImplemented
<1>1. DiscoveryInit => Pool!PoolInit
  BY PoolStartsEmpty DEF DiscoveryInit
<1>2. DInv /\ DInv' /\ [DiscoveryNext]_discoveryVars => PoolMoves
  <2> SUFFICES ASSUME DInv, DInv', [DiscoveryNext]_discoveryVars
               PROVE  PoolMoves
    OBVIOUS
  <2>1. InvL /\ IInv' /\ seen \subseteq Addrs
    BY DEF DInv, ManagerInv, BInv, InvL, SeenOK, Heard, KeysOf
  <2>2. ASSUME NEW S \in SUBSET Addrs, ForgetDevices(S) PROVE PoolMoves
    BY <2>1, <2>2, PoolUntouched DEF ForgetDevices
  <2> QED BY <2>1, <2>2, DiscoveryDrives, StepServes
<1> QED
  BY <1>1, <1>2, DInvHolds, PTL
     DEF DiscoverySpec, PoolImplemented, Pool!PoolSpec, PoolMoves

(* A probe that was told to stop stays silent also when it was eviction or *)
(* the cleanup that told it (_evict_oldest_seen, cleanup_stale_devices).   *)
THEOREM DiscoveryCancelsSilently == DiscoverySpec => CancelledNeverReports
<1>1. DInv /\ [DiscoveryNext]_discoveryVars
        => [\A t \in Probes :
              (t \in cancelReq \/ outcome[t] = "cancelled") /\ pc[t] # "cooldown"
                => pc'[t] # "cooldown"]_vars
  <2> SUFFICES ASSUME DInv, [DiscoveryNext]_discoveryVars, NEW t \in Probes,
                      t \in cancelReq \/ outcome[t] = "cancelled",
                      pc[t] # "cooldown", pc'[t] = "cooldown"
               PROVE  FALSE
    OBVIOUS
  <2>1. BInv /\ seen \subseteq Addrs
    BY DEF DInv, ManagerInv, SeenOK, Heard, KeysOf
  <2>2. ~ \E S \in SUBSET Addrs : ForgetDevices(S)
    BY DEF ForgetDevices
  <2> QED BY <2>1, <2>2, DiscoveryDrives, CancelledStaysSilent
<1> QED
  BY <1>1, DInvHolds, PTL DEF DiscoverySpec, CancelledNeverReports

(* Eviction and cleanup, too, take a probe at work out of the table only   *)
(* by telling it to stop.                                                  *)
THEOREM DiscoveryKeepsReach == DiscoverySpec => ReachableUntilStopped
<1>1. ASSUME DInv, [DiscoveryNext]_discoveryVars,
             NEW t \in Probes, NEW a \in Addrs,
             probeTasks[a] = t, Working(t), probeTasks'[a] # t, Working(t)'
      PROVE  \E u \in Probes \ {t} : target[u] = a /\ RunsFinally(u)
  <2>1. BInv /\ seen \subseteq Addrs
    BY <1>1 DEF DInv, ManagerInv, SeenOK, Heard, KeysOf
  <2>2. ASSUME NEW S \in SUBSET Addrs, ForgetDevices(S) PROVE FALSE
    BY <1>1, <2>1, <2>2, TaskTypes, NoTaskAssumption
       DEF ForgetDevices, TasksOf, Working, BInv
  <2> QED
    BY <1>1, <2>1, <2>2, DiscoveryDrives, ProbeStepReaches, OthersReach
<1>2. DInv /\ [DiscoveryNext]_discoveryVars
        => [\A t \in Probes, a \in Addrs :
              probeTasks[a] = t /\ Working(t) /\ probeTasks'[a] # t =>
                \/ ~Working(t)'
                \/ \E u \in Probes \ {t} : target[u] = a /\ RunsFinally(u)]_vars
  BY <1>1
<1> QED
  BY <1>2, DInvHolds, PTL DEF DiscoverySpec, ReachableUntilStopped
=============================================================================
