---------------------------- MODULE HubLifecycle ----------------------------
(***************************************************************************)
(* Config entries and the coordinators they use (__init__.py): the hub     *)
(* entry creates a coordinator each time it is set up and leaves it in     *)
(* hass.data; a device entry takes the one it finds there and keeps the    *)
(* processor that coordinator made for it.  Hub and device entries are set *)
(* up, unloaded and reloaded independently, and Home Assistant may still   *)
(* be starting.                                                            *)
(***************************************************************************)
EXTENDS Integers, FiniteSets

CONSTANTS
  Devices,   \* addresses that may get a device entry
  MaxHubs    \* bound on how many coordinators are created

ASSUME MaxHubsAssumption == MaxHubs \in Nat

NoHub == 0
Hubs == 1..MaxHubs

VARIABLES
  core,        \* start of Home Assistant: "not_running", "starting", "running"
  scanner,     \* a Bluetooth scanner is available
  hub,         \* state of the hub entry
  made,        \* coordinators created so far
  current,     \* hass.data[DOMAIN]["coordinator"]
  waiting,     \* coordinators that start when EVENT_HOMEASSISTANT_STARTED fires
  listening,   \* coordinators whose advertisement callback is registered
  entry,       \* state of the entry of each device
  runtime,     \* entry.runtime_data: the coordinator a device entry found
  processors,  \* _processor_coordinators of each coordinator
  serving,     \* the coordinator whose processor serves a device
  timers       \* devices whose poll timer runs

hubVars    == <<hub, made, current, waiting, listening>>
deviceVars == <<entry, runtime, processors, serving, timers>>
lifecycleVars == <<core, scanner, hubVars, deviceVars>>

-----------------------------------------------------------------------------
(* async_setup_entry: the scanner is looked for first; the registries are  *)
(* warmed up in an executor before the coordinator exists.                 *)
SetupHubBegins ==
  /\ hub \in {"unloaded", "retry"} /\ made < MaxHubs
  /\ hub' = IF scanner THEN "setup" ELSE "retry"
  /\ UNCHANGED <<core, scanner, made, current, waiting, listening, deviceVars>>

(* Mutant: the count of coordinators is not kept.                          *)
SetupHubUncounted ==
  /\ hub = "setup" /\ hub' = "loaded" /\ current' = made + 1
  /\ listening' = listening \cup {made + 1}
  /\ UNCHANGED <<core, scanner, made, waiting, deviceVars>>

(* async_start at once, or by a listener for the start of Home Assistant.  *)
SetupHubEnds ==
  /\ hub = "setup" /\ hub' = "loaded"
  /\ made' = made + 1 /\ current' = made'
  /\ \/ core # "not_running" /\ listening' = listening \cup {made'}
        /\ UNCHANGED waiting
     \/ core = "not_running" /\ waiting' = waiting \cup {made'}
        /\ UNCHANGED listening
  /\ UNCHANGED <<core, scanner, deviceVars>>

(* hass.is_running turns true before EVENT_HOMEASSISTANT_STARTED.          *)
HomeAssistantStarting ==
  /\ core = "not_running" /\ core' = "starting"
  /\ UNCHANGED <<scanner, hubVars, deviceVars>>

HomeAssistantStarted ==
  /\ core = "starting" /\ core' = "running"
  /\ listening' = listening \cup waiting /\ waiting' = {}
  /\ UNCHANGED <<scanner, hub, made, current, deviceVars>>

(* Mutant: the listener for the start is not removed with the entry.       *)
StopCoordinatorOnly ==
  /\ listening' = listening \ {current} /\ UNCHANGED waiting
  /\ timers' = timers \ processors[current]
  /\ current' = NoHub /\ hub' = "unloaded"

(* async_stop behind its await, hass.data.pop and the callbacks of         *)
(* async_on_unload.                                                        *)
StopCoordinator ==
  /\ listening' = listening \ {current} /\ waiting' = waiting \ {current}
  /\ timers' = timers \ processors[current]
  /\ current' = NoHub /\ hub' = "unloaded"

(* async_unload_entry for the hub: async_stop suspends only if there are   *)
(* probe tasks to await, and so only once the coordinator was started.     *)
UnloadHub ==
  /\ hub = "loaded" /\ StopCoordinator
  /\ UNCHANGED <<core, scanner, made, entry, runtime, processors, serving>>

UnloadHubBegins ==
  /\ hub = "loaded" /\ current \in listening /\ hub' = "unloading"
  /\ UNCHANGED <<core, scanner, made, current, waiting, listening,
                 deviceVars>>

UnloadHubEnds ==
  /\ hub = "unloading" /\ StopCoordinator
  /\ UNCHANGED <<core, scanner, made, entry, runtime, processors, serving>>

-----------------------------------------------------------------------------
(* Mutant: an entry whose set-up found no hub is not set up again.         *)
SetupDeviceOnce(d) ==
  /\ entry[d] = "unloaded"
  /\ entry' = [entry EXCEPT ![d] =
                 IF scanner /\ current # NoHub THEN "setup" ELSE "retry"]
  /\ runtime' = [runtime EXCEPT ![d] = IF scanner THEN current ELSE @]
  /\ UNCHANGED <<core, scanner, hubVars, processors, serving, timers>>

(* _async_setup_device_entry finds the coordinator in hass.data and awaits *)
(* the set-up of the sensor platform, or asks for a retry.                 *)
SetupDeviceBegins(d) ==
  /\ entry[d] \in {"unloaded", "retry"}
  /\ \/ /\ scanner /\ current # NoHub
        /\ entry' = [entry EXCEPT ![d] = "setup"]
        /\ runtime' = [runtime EXCEPT ![d] = current]
     \/ /\ ~scanner \/ current = NoHub
        /\ entry' = [entry EXCEPT ![d] = "retry"] /\ UNCHANGED runtime
  /\ UNCHANGED <<core, scanner, hubVars, processors, serving, timers>>

(* create_device_processor of the coordinator h: nothing if it has one.    *)
CreateDeviceProcessor(d, h) ==
  IF d \in processors[h]
  THEN UNCHANGED <<processors, serving, timers>>
  ELSE /\ processors' = [processors EXCEPT ![h] = @ \cup {d}]
       /\ serving' = [serving EXCEPT ![d] = h]
       /\ timers' = timers \cup {d}

(* The sensor platform asks the coordinator that the entry found, which    *)
(* the hub may have left behind in the meantime.                           *)
SetupDeviceEnds(d) ==
  /\ entry[d] = "setup" /\ entry' = [entry EXCEPT ![d] = "loaded"]
  /\ CreateDeviceProcessor(d, runtime[d])
  /\ UNCHANGED <<core, scanner, hubVars, runtime>>

(* Mutants: coordinator.remove_device is not called; the timer of the      *)
(* processor is not cancelled when it stops.                               *)
UnloadDeviceKeepsProcessor(d) ==
  /\ entry[d] = "loaded" /\ entry' = [entry EXCEPT ![d] = "unloaded"]
  /\ serving' = [serving EXCEPT ![d] = NoHub] /\ timers' = timers \ {d}
  /\ UNCHANGED <<core, scanner, hubVars, runtime, processors>>

UnloadDeviceKeepsTimer(d) ==
  /\ entry[d] = "loaded" /\ entry' = [entry EXCEPT ![d] = "unloaded"]
  /\ processors' = IF current = NoHub THEN processors
                   ELSE [processors EXCEPT ![current] = @ \ {d}]
  /\ serving' = [serving EXCEPT ![d] = NoHub]
  /\ UNCHANGED <<core, scanner, hubVars, runtime, timers>>

(* async_unload_entry for a device: the coordinator now in hass.data, if   *)
(* any, forgets it; the processor stops.                                   *)
UnloadDevice(d) ==
  /\ entry[d] = "loaded" /\ entry' = [entry EXCEPT ![d] = "unloaded"]
  /\ processors' = IF current = NoHub THEN processors
                   ELSE [processors EXCEPT ![current] = @ \ {d}]
  /\ serving' = [serving EXCEPT ![d] = NoHub] /\ timers' = timers \ {d}
  /\ UNCHANGED <<core, scanner, hubVars, runtime>>

(* async_remove_config_entry_device refuses the removal of such a device.  *)
IsDeviceActive(d) == current # NoHub /\ d \in processors[current]

AddDevice(d) ==
  /\ entry[d] = "none" /\ entry' = [entry EXCEPT ![d] = "unloaded"]
  /\ UNCHANGED <<core, scanner, hubVars, runtime, processors, serving, timers>>

RemoveDevice(d) ==
  /\ entry[d] \in {"unloaded", "retry"} /\ entry' = [entry EXCEPT ![d] = "none"]
  /\ UNCHANGED <<core, scanner, hubVars, runtime, processors, serving, timers>>

(* Adapters are plugged in and out.                                        *)
ScannerChanges ==
  /\ scanner' = ~scanner
  /\ UNCHANGED <<core, hubVars, deviceVars>>

-----------------------------------------------------------------------------
LifecycleInit ==
  /\ core \in {"not_running", "starting", "running"} /\ scanner \in BOOLEAN
  /\ hub = "unloaded" /\ made = 0 /\ current = NoHub
  /\ waiting = {} /\ listening = {}
  /\ entry \in [Devices -> {"none", "unloaded"}]
  /\ runtime = [d \in Devices |-> NoHub] /\ processors = [h \in Hubs |-> {}]
  /\ serving = [d \in Devices |-> NoHub] /\ timers = {}

LifecycleNext ==
  \/ SetupHubBegins \/ SetupHubEnds
  \/ HomeAssistantStarting \/ HomeAssistantStarted
  \/ UnloadHub \/ UnloadHubBegins \/ UnloadHubEnds
  \/ \E d \in Devices :
       \/ SetupDeviceBegins(d) \/ SetupDeviceEnds(d) \/ UnloadDevice(d)
       \/ AddDevice(d) \/ RemoveDevice(d)
  \/ ScannerChanges

LifecycleSpec == LifecycleInit /\ [][LifecycleNext]_lifecycleVars

=============================================================================
