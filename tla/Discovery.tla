----------------------------- MODULE Discovery -----------------------------
(***************************************************************************)
(* Discovery of unconfirmed devices: the coordinator's advertisement       *)
(* callback, the tracker (discovery_tracker.py), the orchestrator          *)
(* (discovery_orchestrator.py) and the lifecycle of device entries, on top *)
(* of the GATT manager, whose callbacks they implement.                    *)
(*                                                                         *)
(* The advertisement callback is one step of the event loop.  It is        *)
(* written as two, Sighting and then Route, with routing naming the        *)
(* advertisement being handled: nothing else runs in between.              *)
(***************************************************************************)
EXTENDS GattManager

CONSTANTS
  Sends,        \* what the advertisements of an address may look like
  MaxSeen,      \* MAX_SEEN_DEVICES
  MaxRejected   \* MAX_REJECTED_DEVICES

(* Parseable data; none, but connectable; none and not connectable.        *)
Kinds == {"data", "connectable", "plain"}

ASSUME SendsAssumption == Sends \in [Addrs -> SUBSET Kinds]
ASSUME CapsAssumption  == MaxSeen \in Nat \ {0} /\ MaxRejected \in Nat

VARIABLES
  seen,        \* seen_devices
  triggered,   \* discovery_triggered
  rejected,    \* rejected_devices
  recency,     \* last_seen_time: <<a, b>> if a was heard no later than b
  flows,       \* discovery flows that wait for the user
  processors,  \* keys of _processor_coordinators
  strays,      \* polls under way whose poll coordinator was stopped
  routing      \* the advertisement between Sighting and Route, or none

trackerVars == <<seen, triggered, rejected, recency, flows>>
entryVars == <<processors, strays>>
discoveryVars == <<vars, trackerVars, entryVars, routing>>

NotRouting == routing = <<>>

-----------------------------------------------------------------------------
(* The tracker.                                                            *)

(* mark_discovery_triggered, and the flow is created with it; one that is  *)
(* already open for the address takes its place.                           *)
MarkTriggered(a) ==
  /\ triggered' = triggered \cup {a} /\ flows' = flows \cup {a}
  /\ UNCHANGED <<seen, rejected, recency>>

MarkRejected(a) ==
  /\ rejected' = IF Cardinality(rejected) < MaxRejected
                 THEN rejected \cup {a} ELSE rejected
  /\ UNCHANGED <<seen, triggered, recency, flows>>

(* Mutant: the quarter of a small set is nothing.                          *)
EvictQuarter == Cardinality(seen) \div 4

(* The least recently seen quarter of seen_devices, at least one.          *)
EvictCount == IF Cardinality(seen) \div 4 > 1 THEN Cardinality(seen) \div 4
                                              ELSE 1
(* Mutant: sorted the wrong way round.                                     *)
Newest(order) ==
  {a \in seen :
     Cardinality({b \in seen \ {a} : <<a, b>> \in order}) < EvictCount}

Oldest(order) ==
  {a \in seen :
     Cardinality({b \in seen \ {a} : <<b, a>> \in order}) < EvictCount}

(* The keys of last_seen_time.                                             *)
KeysOf(order) == {a \in Addrs : <<a, a>> \in order}
Heard == KeysOf(recency)

Drop(S, order) == {p \in order : p[1] \notin S /\ p[2] \notin S}

(* Address a is heard now.                                                 *)
HeardLast(a) == Drop({a}, recency) \cup ((Heard \cup {a}) \X {a})

(* record_sighting: the eviction, when it is due, clears every trace of    *)
(* the evicted, device cache and GATT state included.                      *)
RecordSighting(a) ==
  LET order == HeardLast(a)
      evict == IF a \notin seen /\ Cardinality(seen) >= MaxSeen
               THEN Oldest(order) ELSE {}
  IN  /\ seen' = (seen \ evict) \cup {a}
      /\ triggered' = triggered \ evict
      /\ rejected' = rejected \ evict
      /\ recency' = Drop(evict, order)
      /\ ForgetDevices(evict) /\ UNCHANGED flows

(* async_cleanup_stale_devices, when the addresses of S have not been      *)
(* heard for longer than the timeout.                                      *)
StaleCleanup(S) ==
  /\ NotRouting /\ phase # "stopped"
  /\ S # {} /\ S \subseteq Heard \ (processors \cup confirmed)
  /\ seen' = seen \ S
  /\ triggered' = triggered \ S
  /\ rejected' = rejected \ S
  /\ recency' = Drop(S, recency)
  /\ ForgetDevices(S)
  /\ UNCHANGED <<flows, entryVars, routing>>

-----------------------------------------------------------------------------
(* The advertisement callback.                                             *)

(* The bound of the model: an advertisement that may lead to a probe comes *)
(* while there is an identity left for the task.                           *)
TaskLeft(kind) == kind # "connectable" \/ \E t \in Probes : pc[t] = "idle"

Sighting(a, kind) ==
  /\ NotRouting /\ phase # "stopped" /\ kind \in Sends[a] /\ TaskLeft(kind)
  /\ RecordSighting(a)
  /\ routing' = <<a, kind>>
  /\ UNCHANGED entryVars

(* ensure_device_processor and _handle_unconfirmed_device: who is not      *)
(* looked at any further.                                                  *)
Settled(a) == a \in processors \cup confirmed \cup rejected \cup triggered

(* has_supported_data: parseable in the advertisement, or found by GATT.   *)
HasSupportedData(a, kind) == kind = "data" \/ result[a] = "support"

RouteNowhere(a, kind) ==
  /\ \/ Settled(a)
     \/ /\ ~HasSupportedData(a, kind)
        /\ \/ result[a] # "none" \/ a \in pending
           \/ kind = "connectable" /\ ~ProbeExhausted(a) /\ ~MaySchedule(a)
  /\ UNCHANGED <<vars, trackerVars>>

RouteToFlow(a, kind) ==
  /\ ~Settled(a) /\ HasSupportedData(a, kind)
  /\ MarkTriggered(a) /\ UNCHANGED vars

(* Mutant: no check for a probe in flight.                                 *)
UnprobedOrPending(a, kind) ==
  /\ ~Settled(a) /\ ~HasSupportedData(a, kind)
  /\ result[a] = "none"

(* _try_gatt_probe_or_reject past the check for a probe done or in flight. *)
Unprobed(a, kind) ==
  /\ ~Settled(a) /\ ~HasSupportedData(a, kind)
  /\ result[a] = "none" /\ a \notin pending

RouteToRejection(a, kind) ==
  /\ Unprobed(a, kind)
  /\ kind = "plain" \/ ProbeExhausted(a)
  /\ MarkRejected(a) /\ UNCHANGED vars

(* Mutant: the entry is not looked up.                                     *)
RejectExhausted(a) ==
  IF failures'[a] >= MaxRetries THEN MarkRejected(a) ELSE UNCHANGED trackerVars

(* handle_probe_failure                                                    *)
HandleProbeFailure(a) ==
  IF a \notin confirmed /\ failures'[a] >= MaxRetries
  THEN MarkRejected(a) ELSE UNCHANGED trackerVars

(* Mutant: the entry that came meanwhile is not looked up.                 *)
FlowThoughConfirmed(a) == MarkTriggered(a)

(* handle_probe_success                                                    *)
HandleProbeSuccess(a) ==
  IF a \in confirmed THEN UNCHANGED trackerVars ELSE MarkTriggered(a)

RouteToProbe(a, kind) ==
  /\ Unprobed(a, kind)
  /\ kind = "connectable" /\ ~ProbeExhausted(a)
  /\ \E t \in Probes :
       \/ ScheduleProbe(t, a) /\ UNCHANGED trackerVars
       \/ ScheduleProbeFailsAtOnce(t, a) /\ HandleProbeFailure(a)

Route(a, kind) ==
  /\ routing = <<a, kind>> /\ routing' = <<>> /\ UNCHANGED entryVars
  /\ \/ RouteNowhere(a, kind) \/ RouteToFlow(a, kind)
     \/ RouteToRejection(a, kind) \/ RouteToProbe(a, kind)

-----------------------------------------------------------------------------
(* The callbacks of a probe that settles, and the steps that have none.    *)

ProbeReports(t) ==
  /\ NotRouting /\ UNCHANGED <<entryVars, routing>>
  /\ \/ ProbeSupported(t) /\ HandleProbeSuccess(target[t])
     \/ ProbeErrored(t) /\ HandleProbeFailure(target[t])
     \/ ProbeTimedOut(t) /\ HandleProbeFailure(target[t])

SilentStep(t) ==
  \/ ProbeStarts(t) \/ ConnectSucceeds(t) \/ ConnectFails(t) \/ ReadDone(t)
  \/ ProbeUnsupported(t) \/ CooldownDone(t) \/ TimeoutFires(t)
  \/ CancelledInLine(t) \/ CancelledConnected(t) \/ CancelledUnwinds(t)
  \/ CancelledInCooldown(t)

ProbeProceeds(t) ==
  /\ NotRouting /\ SilentStep(t)
  /\ UNCHANGED <<trackerVars, entryVars, routing>>

(* A poll that the device's present poll coordinator has under way.        *)
PollUnderWay(a) == \E p \in Polls \ strays : PollOf[p] = a /\ pc[p] # "idle"

(* A device is polled through its processor coordinator, by one poll at a  *)
(* time; those that a stopped coordinator began go on beside it.           *)
DevicePoll(p) ==
  /\ NotRouting
  /\ \/ PollStep(p)
     \/ /\ PollOf[p] \in processors /\ ~PollUnderWay(PollOf[p])
        /\ PollBegins(p)
  /\ strays' = {q \in strays : pc'[q] # "idle"}
  /\ UNCHANGED <<trackerVars, processors, routing>>

-----------------------------------------------------------------------------
(* Device entries: a flow is confirmed, or ignored, which leaves an entry  *)
(* that is never set up; the entry is set up, unloaded for a reload or a   *)
(* removal, and removed.                                                   *)

ConfirmDevice(a) ==
  /\ NotRouting /\ a \in flows /\ EntryAdded(a)
  /\ flows' = flows \ {a}
  /\ UNCHANGED <<seen, triggered, rejected, recency, entryVars, routing>>

SetupDeviceEntry(a) ==
  /\ NotRouting /\ phase # "stopped"
  /\ a \in confirmed \ processors /\ processors' = processors \cup {a}
  /\ UNCHANGED <<vars, trackerVars, strays, routing>>

(* async_unload_entry and coordinator.remove_device: the entry is still    *)
(* listed while this runs.  The poll coordinator stops its timer and its   *)
(* debouncer, not a poll that is under way.                                *)
UnloadDeviceEntry(a) ==
  /\ NotRouting /\ phase # "stopped"
  /\ a \in processors /\ processors' = processors \ {a}
  /\ strays' = strays \cup {p \in Polls : PollOf[p] = a /\ pc[p] # "idle"}
  /\ ForgetDevices({a})
  /\ triggered' = triggered \ {a}
  /\ UNCHANGED <<seen, rejected, recency, flows, routing>>

RemoveDeviceEntry(a) ==
  /\ NotRouting /\ a \notin processors /\ EntryRemoved(a)
  /\ UNCHANGED <<trackerVars, entryVars, routing>>

-----------------------------------------------------------------------------
(* coordinator.async_stop: the manager's tasks are awaited first, with the *)
(* callback still registered; then the tracker is cleared and the callback *)
(* cancelled.                                                              *)
ClearTracker ==
  /\ seen' = {} /\ triggered' = {} /\ rejected' = {} /\ recency' = {}
  /\ UNCHANGED flows

CoordinatorStops ==
  /\ NotRouting /\ StopBegins
  /\ IF phase' = "stopped" THEN ClearTracker ELSE UNCHANGED trackerVars
  /\ UNCHANGED <<entryVars, routing>>

CoordinatorStopped ==
  /\ NotRouting /\ StopReturns /\ ClearTracker
  /\ UNCHANGED <<entryVars, routing>>

-----------------------------------------------------------------------------
DiscoveryInit ==
  /\ Init /\ processors = {} /\ strays = {}
  /\ seen = {} /\ triggered = {} /\ rejected = {} /\ recency = {}
  /\ flows = {} /\ routing = <<>>

DiscoveryNext ==
  \/ \E a \in Addrs, kind \in Kinds : Sighting(a, kind) \/ Route(a, kind)
  \/ \E S \in SUBSET Addrs : StaleCleanup(S)
  \/ \E t \in Probes : ProbeReports(t) \/ ProbeProceeds(t)
  \/ \E p \in Polls : DevicePoll(p)
  \/ \E a \in Addrs : \/ ConfirmDevice(a) \/ RemoveDeviceEntry(a)
                      \/ SetupDeviceEntry(a) \/ UnloadDeviceEntry(a)
  \/ CoordinatorStops \/ CoordinatorStopped

DiscoverySpec == DiscoveryInit /\ [][DiscoveryNext]_discoveryVars

=============================================================================
