------------------------- MODULE HubLifecycleProps -------------------------
(***************************************************************************)
(* What set-up, unload and reload guarantee, and what the docs claim.      *)
(***************************************************************************)
EXTENDS HubLifecycle

LifecycleTypeOK ==
  /\ core \in {"not_running", "starting", "running"} /\ scanner \in BOOLEAN
  /\ hub \in {"unloaded", "retry", "setup", "loaded", "unloading"}
  /\ made \in 0..MaxHubs /\ current \in 0..made
  /\ waiting \subseteq 1..made /\ listening \subseteq 1..made
  /\ entry \in [Devices -> {"none", "unloaded", "retry", "setup", "loaded"}]
  /\ processors \in [Hubs -> SUBSET Devices] /\ timers \subseteq Devices
  /\ runtime \in [Devices -> 0..made] /\ serving \in [Devices -> 0..made]

(* However often the hub is reloaded, before and after Home Assistant has  *)
(* started: no coordinator but the one in hass.data hears advertisements,  *)
(* or will once Home Assistant has started.                                *)
OneListener == waiting \cup listening \subseteq {current} \ {NoHub}

(* A device entry that is loaded has a processor, and only such an entry   *)
(* has one: create_device_processor never skips a device because of what   *)
(* an earlier set-up left behind.                                          *)
LoadedIsServed == \A d \in Devices : entry[d] = "loaded" <=> serving[d] # NoHub

(* No timer polls a device whose entry was unloaded, and a device that the *)
(* coordinator in hass.data serves has its timer.                          *)
TimersServed ==
  \A d \in Devices :
    /\ d \in timers => serving[d] # NoHub
    /\ serving[d] = current /\ current # NoHub => d \in timers

(* The coordinator in hass.data takes a device for active, which forbids   *)
(* its removal from the registry, only while it serves the device.         *)
ActiveIsServed == \A d \in Devices : IsDeviceActive(d) => serving[d] = current

-----------------------------------------------------------------------------
(* Home Assistant sets up an entry that is not loaded and retries one that *)
(* was not ready, and what was begun ends.                                 *)
LifecycleFairness ==
  /\ WF_lifecycleVars(SetupHubEnds)
  /\ \A d \in Devices : WF_lifecycleVars(SetupDeviceBegins(d))
                        /\ WF_lifecycleVars(SetupDeviceEnds(d))

FairLifecycleSpec == LifecycleSpec /\ LifecycleFairness

(* A device entry that had to wait for the hub is loaded in the end,       *)
(* unless hub or scanner never come to stay, or it is removed.             *)
RetrySucceeds ==
  \A d \in Devices :
    <>[](hub = "loaded" /\ scanner) =>
      (entry[d] = "retry" ~> entry[d] \in {"loaded", "none"})

(* "The change takes effect immediately" (configure-poll-interval.md:20),  *)
(* by a reload of the hub: a device entry that is loaded beside the hub is *)
(* served by the hub's coordinator in the end, unless either is unloaded.  *)
ServedByHub ==
  \A d \in Devices :
    hub = "loaded" /\ entry[d] = "loaded" ~>
      serving[d] = current \/ hub # "loaded" \/ entry[d] # "loaded"
=============================================================================
