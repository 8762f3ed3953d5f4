------------------------ MODULE HubLifecycleProofs ------------------------
(***************************************************************************)
(* Set-up, unload and reload of the hub and of device entries, for every   *)
(* set of devices and every number of hubs.                                *)
(***************************************************************************)
EXTENDS HubLifecycleProps, TLAPS

(* hass.data holds a coordinator from the end of the hub's set-up to the   *)
(* end of its unload.                                                      *)
HubHasCoordinator ==
  /\ hub \in {"unloaded", "retry", "setup"} => current = NoHub
  /\ hub \in {"loaded", "unloading"} => current # NoHub
  /\ hub = "setup" => made < MaxHubs

(* A coordinator that is yet to be created knows no device.                *)
FreshCoordinators == \A h \in Hubs : h > made => processors[h] = {}

(* The coordinator that a set-up has found does not know the device yet.   *)
SetupUnknown ==
  \A d \in Devices : entry[d] = "setup" =>
    runtime[d] # NoHub /\ d \notin processors[runtime[d]]

(* The served parts, which lean on one another: a set-up finds the device  *)
(* unknown because only what is served is active.                          *)
Served == LoadedIsServed /\ TimersServed /\ ActiveIsServed /\ SetupUnknown

LifecycleInv ==
  /\ LifecycleTypeOK /\ HubHasCoordinator /\ FreshCoordinators
  /\ OneListener /\ Served

-----------------------------------------------------------------------------
(* A hub and device entries that are not set up satisfy the invariant.     *)
LEMMA LifecycleInitInv == LifecycleInit => LifecycleInv
<1> SUFFICES ASSUME LifecycleInit PROVE LifecycleInv OBVIOUS
<1> USE MaxHubsAssumption DEF LifecycleInit, NoHub, Hubs
<1>1. LifecycleTypeOK BY DEF LifecycleTypeOK
<1>2. HubHasCoordinator /\ FreshCoordinators /\ OneListener
  BY DEF HubHasCoordinator, FreshCoordinators, OneListener
<1>3. Served
  BY DEF Served, LoadedIsServed, TimersServed, ActiveIsServed, SetupUnknown,
         IsDeviceActive
<1> QED BY <1>1, <1>2, <1>3 DEF LifecycleInv

(* Every step keeps the types.                                             *)
LEMMA LifecycleTypeStep ==
  ASSUME LifecycleInv, [LifecycleNext]_lifecycleVars
  PROVE  LifecycleTypeOK'
<1> USE MaxHubsAssumption DEF LifecycleInv, LifecycleTypeOK, NoHub, Hubs, hubVars, deviceVars
<1>1. CASE SetupHubBegins BY <1>1 DEF SetupHubBegins
<1>2. CASE SetupHubEnds
  <2>1. /\ made' = made + 1 /\ current' = made + 1 /\ made' \in 0..MaxHubs
        /\ hub' = "loaded" /\ UNCHANGED <<core, scanner, deviceVars>>
    BY <1>2 DEF SetupHubEnds, HubHasCoordinator
  <2>2. waiting' \subseteq 1..made' /\ listening' \subseteq 1..made'
    <3>1. made \in Nat /\ 1..made \subseteq 1..made' /\ made' \in 1..made'
      BY <2>1
    <3>2. /\ waiting' \subseteq waiting \cup {made'}
          /\ listening' \subseteq listening \cup {made'}
      BY <1>2 DEF SetupHubEnds
    <3> QED BY <3>1, <3>2
  <2>3. /\ runtime \in [Devices -> 0..made'] /\ serving \in [Devices -> 0..made']
    BY <2>1
  <2> QED BY <2>1, <2>2, <2>3
<1>3. CASE HomeAssistantStarting BY <1>3 DEF HomeAssistantStarting
<1>4. CASE HomeAssistantStarted BY <1>4 DEF HomeAssistantStarted
<1>5. CASE UnloadHub BY <1>5 DEF UnloadHub, StopCoordinator
<1>6. CASE UnloadHubBegins BY <1>6 DEF UnloadHubBegins
<1>7. CASE UnloadHubEnds BY <1>7 DEF UnloadHubEnds, StopCoordinator
<1>8. ASSUME NEW d \in Devices, SetupDeviceBegins(d) PROVE LifecycleTypeOK'
  BY <1>8 DEF SetupDeviceBegins
<1>9. ASSUME NEW d \in Devices, SetupDeviceEnds(d) PROVE LifecycleTypeOK'
  <2>1. runtime[d] \in Hubs /\ runtime[d] \in 0..made
    BY <1>9 DEF SetupDeviceEnds, Served, SetupUnknown
  <2>2. /\ processors' \in [Hubs -> SUBSET Devices]
        /\ serving' \in [Devices -> 0..made] /\ timers' \subseteq Devices
    <3>1. CASE d \in processors[runtime[d]]
      BY <1>9, <3>1 DEF SetupDeviceEnds, CreateDeviceProcessor
    <3>2. CASE d \notin processors[runtime[d]]
      <4>1. /\ processors' = [processors EXCEPT ![runtime[d]] = @ \cup {d}]
            /\ serving' = [serving EXCEPT ![d] = runtime[d]]
            /\ timers' = timers \cup {d}
        BY <1>9, <3>2 DEF SetupDeviceEnds, CreateDeviceProcessor
      <4>2. processors[runtime[d]] \cup {d} \in SUBSET Devices BY <2>1
      <4> QED BY <2>1, <4>1, <4>2
    <3> QED BY <3>1, <3>2
  <2> QED BY <1>9, <2>2 DEF SetupDeviceEnds
<1>10. ASSUME NEW d \in Devices, UnloadDevice(d) PROVE LifecycleTypeOK'
  BY <1>10 DEF UnloadDevice
<1>11. ASSUME NEW d \in Devices, AddDevice(d) \/ RemoveDevice(d)
       PROVE LifecycleTypeOK'
  BY <1>11 DEF AddDevice, RemoveDevice
<1>12. CASE ScannerChanges BY <1>12 DEF ScannerChanges
<1>13. CASE UNCHANGED lifecycleVars BY <1>13 DEF lifecycleVars
<1> QED BY <1>1, <1>2, <1>3, <1>4, <1>5, <1>6, <1>7, <1>8, <1>9, <1>10,
           <1>11, <1>12, <1>13 DEF LifecycleNext

(* Only the hub's own steps change what is said of its coordinators, and   *)
(* they start one only after the last was stopped.                         *)
LEMMA HubStep ==
  ASSUME LifecycleInv, [LifecycleNext]_lifecycleVars
  PROVE  HubHasCoordinator' /\ FreshCoordinators' /\ OneListener'
<1> USE MaxHubsAssumption
    DEF LifecycleInv, LifecycleTypeOK, HubHasCoordinator, FreshCoordinators, OneListener,
        NoHub, Hubs, hubVars, deviceVars
<1>1. CASE SetupHubBegins BY <1>1 DEF SetupHubBegins
<1>2. CASE SetupHubEnds
  <2>1. /\ made' = made + 1 /\ current' = made + 1 /\ made' \in 0..MaxHubs
        /\ hub' = "loaded" /\ processors' = processors
    BY <1>2 DEF SetupHubEnds
  <2>2. waiting = {} /\ listening = {} BY <1>2 DEF SetupHubEnds
  <2>3. waiting' \cup listening' = {current'}
    BY <1>2, <2>1, <2>2 DEF SetupHubEnds
  <2> QED BY <2>1, <2>3
<1>3. CASE HomeAssistantStarting BY <1>3 DEF HomeAssistantStarting
<1>4. CASE HomeAssistantStarted BY <1>4 DEF HomeAssistantStarted
<1>5. CASE UnloadHub BY <1>5 DEF UnloadHub, StopCoordinator
<1>6. CASE UnloadHubBegins BY <1>6 DEF UnloadHubBegins
<1>7. CASE UnloadHubEnds BY <1>7 DEF UnloadHubEnds, StopCoordinator
<1>8. ASSUME NEW d \in Devices, SetupDeviceBegins(d)
      PROVE  HubHasCoordinator' /\ FreshCoordinators' /\ OneListener'
  BY <1>8 DEF SetupDeviceBegins
<1>9. ASSUME NEW d \in Devices, SetupDeviceEnds(d)
      PROVE  HubHasCoordinator' /\ FreshCoordinators' /\ OneListener'
  BY <1>9 DEF SetupDeviceEnds, CreateDeviceProcessor, Served, SetupUnknown
<1>10. ASSUME NEW d \in Devices, UnloadDevice(d)
       PROVE  HubHasCoordinator' /\ FreshCoordinators' /\ OneListener'
  BY <1>10 DEF UnloadDevice
<1>11. ASSUME NEW d \in Devices, AddDevice(d) \/ RemoveDevice(d)
       PROVE  HubHasCoordinator' /\ FreshCoordinators' /\ OneListener'
  BY <1>11 DEF AddDevice, RemoveDevice
<1>12. CASE ScannerChanges BY <1>12 DEF ScannerChanges
<1>13. CASE UNCHANGED lifecycleVars BY <1>13 DEF lifecycleVars
<1> QED BY <1>1, <1>2, <1>3, <1>4, <1>5, <1>6, <1>7, <1>8, <1>9, <1>10,
           <1>11, <1>12, <1>13 DEF LifecycleNext

(* Every step keeps the devices served: a new coordinator is fresh, a      *)
(* stopped one is nobody's current, and a set-up ends on a coordinator     *)
(* that did not know the device.                                           *)
LEMMA ServedStep ==
  ASSUME LifecycleInv, [LifecycleNext]_lifecycleVars
  PROVE  Served'
<1> USE MaxHubsAssumption
    DEF LifecycleInv, LifecycleTypeOK, Served, LoadedIsServed, TimersServed,
        ActiveIsServed, IsDeviceActive, SetupUnknown, NoHub, Hubs, hubVars,
        deviceVars
<1>1. CASE SetupHubBegins BY <1>1 DEF SetupHubBegins
<1>2. CASE SetupHubEnds
  BY <1>2 DEF SetupHubEnds, HubHasCoordinator, FreshCoordinators
<1>3. CASE HomeAssistantStarting BY <1>3 DEF HomeAssistantStarting
<1>4. CASE HomeAssistantStarted BY <1>4 DEF HomeAssistantStarted
<1>5. CASE UnloadHub BY <1>5 DEF UnloadHub, StopCoordinator
<1>6. CASE UnloadHubBegins BY <1>6 DEF UnloadHubBegins
<1>7. CASE UnloadHubEnds BY <1>7 DEF UnloadHubEnds, StopCoordinator
<1>8. ASSUME NEW d \in Devices, SetupDeviceBegins(d) PROVE Served'
  BY <1>8 DEF SetupDeviceBegins
<1>9. ASSUME NEW d \in Devices, SetupDeviceEnds(d) PROVE Served'
  <2>1. /\ d \notin processors[runtime[d]] /\ runtime[d] \in Hubs
        /\ serving[d] = NoHub
    BY <1>9 DEF SetupDeviceEnds
  <2>2. /\ entry' = [entry EXCEPT ![d] = "loaded"]
        /\ serving' = [serving EXCEPT ![d] = runtime[d]]
        /\ processors' = [processors EXCEPT ![runtime[d]] = @ \cup {d}]
        /\ timers' = timers \cup {d} /\ UNCHANGED <<runtime, current, made>>
    BY <1>9, <2>1 DEF SetupDeviceEnds, CreateDeviceProcessor
  <2>3. LoadedIsServed' BY <2>1, <2>2
  <2>4. TimersServed' BY <2>1, <2>2
  <2>5. ActiveIsServed'
    <3> SUFFICES ASSUME current # NoHub, NEW e \in processors'[current]
                 PROVE  serving'[e] = current
      BY <2>2
    <3>1. CASE e = d BY <1>9, <2>1, <2>2, <3>1 DEF SetupDeviceEnds
    <3>2. CASE e # d BY <2>1, <2>2, <3>2
    <3> QED BY <3>1, <3>2
  <2>6. SetupUnknown' BY <2>1, <2>2
  <2> QED BY <2>3, <2>4, <2>5, <2>6
<1>10. ASSUME NEW d \in Devices, UnloadDevice(d) PROVE Served'
  BY <1>10 DEF UnloadDevice
<1>11. ASSUME NEW d \in Devices, AddDevice(d) \/ RemoveDevice(d)
       PROVE Served'
  BY <1>11 DEF AddDevice, RemoveDevice
<1>12. CASE ScannerChanges BY <1>12 DEF ScannerChanges
<1>13. CASE UNCHANGED lifecycleVars BY <1>13 DEF lifecycleVars
<1> QED BY <1>1, <1>2, <1>3, <1>4, <1>5, <1>6, <1>7, <1>8, <1>9, <1>10,
           <1>11, <1>12, <1>13 DEF LifecycleNext

-----------------------------------------------------------------------------
(* Set-up, unload and reload in any order keep the invariant.              *)
LEMMA LifecycleInvariant == LifecycleSpec => []LifecycleInv
<1>1. LifecycleInv /\ [LifecycleNext]_lifecycleVars => LifecycleInv'
  BY LifecycleTypeStep, HubStep, ServedStep DEF LifecycleInv
<1> QED BY LifecycleInitInv, <1>1, PTL DEF LifecycleSpec

(* The state of the hub and of the device entries always has its type: no  *)
(* entry refers to a coordinator that was never made.                      *)
THEOREM LifecycleTyped == LifecycleSpec => []LifecycleTypeOK
<1>1. LifecycleInv => LifecycleTypeOK BY DEF LifecycleInv
<1> QED BY LifecycleInvariant, <1>1, PTL

(* However often the hub is reloaded, before and after Home Assistant has  *)
(* started, no coordinator but the one in hass.data hears advertisements   *)
(* (_async_setup_hub_entry, async_unload_entry).                           *)
THEOREM ListenersReplaced == LifecycleSpec => []OneListener
<1>1. LifecycleInv => OneListener BY DEF LifecycleInv
<1> QED BY LifecycleInvariant, <1>1, PTL

(* A device entry that is loaded has a processor, also when its set-up     *)
(* straddles a reload of the hub (create_device_processor).                *)
THEOREM LoadedServed == LifecycleSpec => []LoadedIsServed
<1>1. LifecycleInv => LoadedIsServed BY DEF LifecycleInv, Served
<1> QED BY LifecycleInvariant, <1>1, PTL

(* The poll timers are those of devices that are served, and of all that   *)
(* the coordinator in hass.data serves (async_stop, async_on_unload).      *)
THEOREM TimersAreServed == LifecycleSpec => []TimersServed
<1>1. LifecycleInv => TimersServed BY DEF LifecycleInv, Served
<1> QED BY LifecycleInvariant, <1>1, PTL

(* What the coordinator calls active it serves (is_device_active).         *)
THEOREM ActiveServed == LifecycleSpec => []ActiveIsServed
<1>1. LifecycleInv => ActiveIsServed BY DEF LifecycleInv, Served
<1> QED BY LifecycleInvariant, <1>1, PTL
=============================================================================
