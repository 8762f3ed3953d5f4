# A formal model of Bluetooth SIG Devices for Home Assistant

This directory holds TLA+ modules about the integration in
`src/custom_components/bluetooth_sig_devices/`, TLC configurations that check
them on small instances, and proofs that TLAPS checks for every instance. All
paths of the code below are relative to that directory.

## 1. Inventory

The integration hears BLE advertisements, decides whether a device carries data
it can parse (in the advertisement, or over a GATT connection), offers such a
device to the user as a discovery flow, and, once the user has confirmed it,
shows its values and polls it. All of it runs on one asyncio event loop: a step
runs without interruption from one `await` to the next, and everything else may
happen at an `await`.

| Component | State | Operations | Interacts with | What makes it correct |
|---|---|---|---|---|
| GATT manager (`gatt_manager.py`) | semaphore of connection slots, `pending_probes`, `_probe_tasks`, `probe_results`, `probe_failures`, `_last_probe_error`, `_initial_gatt_cache` | `schedule_probe`, `async_probe_and_setup`, `async_probe_device`, `async_poll_gatt_with_semaphore`, `remove_device`, `async_stop` | callbacks into the orchestrator; asks the coordinator which devices are confirmed; adapter for connections | no slot leaks or is minted; no wake-up is lost; a pending address has a task at work; a probe at work can be reached by those who stop it; polls are served; a cancelled probe stays silent; stop returns |
| GATT poller (`gatt_poller.py`) | none of its own | `build_gatt_entities`, `read_chars_connected`, `poll_gatt_characteristics` | called by the manager, while connected | a failed or empty read never loses a connection |
| Discovery tracker (`discovery_tracker.py`) | `seen_devices`, `discovery_triggered`, `rejected_devices`, `last_seen_time` | `record_sighting` with eviction, `mark_*`, stale cleanup, `remove_device`, `async_stop` | eviction and cleanup call `cleanup_cached_device` of the coordinator, which clears the manager | the sets stay bounded; the oldest make room; every tracked address can be forgotten |
| Orchestrator (`discovery_orchestrator.py`) | none of its own | `ensure_device_processor`, `handle_probe_success`, `handle_probe_failure` | tracker, manager, support detector, flows | a device is rejected only when it was given up, not while the manager knows of a probe of it, never when confirmed |
| Support detector (`support_detector.py`) | none | `has_supported_data` | reads `probe_results` | |
| Coordinator (`coordinator.py`) | `devices`, `_processor_coordinators`, the advertisement callback, one poll timer per device | `async_start`, `_async_device_discovered`, `create_device_processor`, `_needs_poll`, `_poll_gatt`, `remove_device`, `cleanup_cached_device`, `async_stop` | owns all of the above | after `async_stop` nothing is at work; a device is polled neither more often than its interval nor much less |
| Entries (`__init__.py`, `config_flow.py`) | hub entry, device entries, `hass.data`, flows | set-up, unload, reload, remove; confirm, ignore | coordinator, start of Home Assistant | one coordinator hears advertisements; a loaded device entry is served, by the coordinator in use; a removed device can be found again |
| Device adapter (`device_adapter.py`), one per entry of the coordinator's `devices` | the client of its connection | `connect`, `disconnect`, `_on_disconnect`, reads | shared by the probes and polls of a device; bleak | every link that is opened is closed; a job does not work over, close or forget the link of another |
| Data pipeline (`data_pipeline.py`), advertisement converter | none | `update_device`, `build_passive_bluetooth_update` | called by the processors for each advertisement | |
| Entity builder (`entity_builder.py`), sensor platform (`sensor.py`) | none of their own; the framework's processor merges what they build | keys, descriptions and values of a reading; `native_value` | data pipeline and GATT poller | a sensor shows the last reading it has an entity in; every value has a description |
| Device validator (`device_validator.py`) | none | classify an address | coordinator | private addresses are filtered, others are not |
| Diagnostics, constants, advertisement manager | none | | framework | |

Hard behaviours: cancellation delivered at any `await` (in the queue of the
semaphore, at the moment a slot was handed over, while connected, in the
disconnect, in the delay afterwards); a deadline that passes in the disconnect
of a probe whose outcome is already recorded; bookkeeping by address while two
tasks for one address overlap; entries that come and go while a probe or a poll
is under way; a poll that outlives the coordinator it was begun by; a shutdown that
awaits with its callbacks still registered;
eviction at the caps; hub and device entries reloaded independently while Home
Assistant starts; a timer whose period is the interval it asks about; two jobs
that use one adapter, whose client is whatever was assigned last; readings of one
characteristic that arrive over several paths, partly, late, or in another shape.
`PROJECT.json` lists each hazard with its line and the property that covers it.

## 2. Modules

* `SlotPool` - the abstract specification: a first come first served pool of
  slots with jobs that wait, give up waiting, are granted a slot, and release it.
  Its line is an order, the set of the pairs of those who wait of which the first
  came no later than the second; a slot goes only to jobs at the front of it.
* `GattManager` - the manager in detail, with asyncio's semaphore.
* `GattManagerProps` - its invariants, action properties, liveness and the
  refinement of `SlotPool`.
* `Discovery` - extends `GattManager` with the advertisement callback, tracker,
  orchestrator and the lifecycle of device entries; the callbacks of the manager
  are actions of this module.
* `DiscoveryProps` - its properties.
* `Links` - extends `GattManager`: each of its steps joined with what it does to
  the device adapters and their BLE links, and the awaits inside `connect()`.
* `Entities` - the readings of one device, from advertisements, its probe and its
  polls, to the values its sensors show.
* `LinksProps`, `EntitiesProps` - their properties.
* `MCGattManager`, `MCDiscovery`, `MCLinks`, `MCEntities` - constraints, symmetry
  and constants for TLC.
* `HubLifecycle` - the hub entry, the coordinators it creates one after the
  other, and the device entries that use them.
* `PollTimer` - the polls of one device in discrete time.
* `HubLifecycleProps`, `PollTimerProps` - their properties; the runs need no
  module of their own.
* `GattManagerProofs`, `GattTaskProofs`, `GattLineProofs`, `DiscoveryProofs`,
  `LinksProofs`, `HubLifecycleProofs`, `PollTimerProofs`, `EntitiesProofs` - the
  theorems.

### Correspondence: GattManager

A *job* is an asyncio task. `Probes` are identities of tasks of
`async_probe_and_setup`, `Polls` of polls, each of the device `PollOf` names. A
device may have several: the framework runs those of one poll coordinator one at a
time, but a reload of the entry makes another coordinator and cancels no poll of
the old one (`coordinator.py:409-417`). `pc` says at which `await` a job is suspended:

| `pc` | suspended in |
|---|---|
| `queued` | `acquire()`, future not resolved |
| `granted` | `acquire()`, future resolved: the slot is already its own |
| `connecting` | the connection and service discovery of `async_probe_device` |
| `reading` | `build_gatt_entities` and `read_chars_connected`, result stored |
| `closing` | the `disconnect()` of its `finally`; `outcome` holds what it will report |
| `cooldown` | `asyncio.sleep(0.5)`, still inside `async with` |
| `polling` | `poll_gatt_characteristics` |

The semaphore is modelled as CPython implements it: `free` is `_value`,
`waiters` is `_waiters` in which a cancelled or woken future stays until its task
runs (`LeaveLine`), `locked()` counts those who wait and were not cancelled, a
release hands its slot to the first waiter, and a task that leaves `acquire()`
hands on what is left. Tasks are started eagerly, as Home Assistant does:
`ScheduleProbe` runs to the first `await` before the table learns of the task.

Data are abstracted as follows. A probe result is `none`, `support` or
`nosupport`. Failures are counted up to `MaxRetries`, all that is ever asked of
them. A finished task in `_probe_tasks` behaves like no entry and is removed; what
`async_stop` does with it, await a task that is over, is a choice in `StopBegins`
(there may be one once a probe has failed at its start).
A connection that fails without an `await` is possible at scheduling
(`ScheduleProbeFailsAtOnce`); later in a task it is a failure like any other.
Timeouts are nondeterministic: the deadline may pass at any `await` under
`wait_for`. Polls are not cancelled from outside.

`ReachableUntilStopped` names the one way in which a probe at work gets out of reach
of `remove_device`, of a poll's preemption and of `async_stop`: the `finally` block of
another task of its address, which drops the entries by address
(`gatt_manager.py:477`). `GivenUpAtRest` therefore speaks of probes that the table
lists: a probe that was dropped so may still be connecting to a device that is
rejected.

Not modelled: the `except Exception` branch of `async_probe_and_setup` (lines
464-475), reached only if a callback or a constructor raises; log throttling.

### Correspondence: Discovery

The advertisement callback is one step of the event loop. It is written as
`Sighting` (validation and `record_sighting`, eviction and the cleanup it calls
included) followed by `Route`; every other action waits while `routing` is set,
so nothing comes between the two. `recency` is the order of `last_seen_time`,
as the set of the pairs of addresses of which the first was heard no later than
the second; no other aspect of time matters to eviction. `StaleCleanup` may take any set of
addresses without an entry, as timeouts and silence are not timed. `flows` are
the flows that wait for the user. `ConfirmDevice` creates an entry,
`SetupDeviceEntry` its processor, `UnloadDeviceEntry` is `async_unload_entry` with
`coordinator.remove_device` (the entry is still listed while it runs), and
`RemoveDeviceEntry` takes it off the list; an unload with a later set-up is a
reload. `strays` are the polls that coordinators of earlier set-ups began and that
still go on; beside them the present one may have one poll (`DevicePoll`).
`CoordinatorStops` and `CoordinatorStopped` are `async_stop` before and after the
gather. `devices` of the coordinator is a variable of `Links`: discovery
does not depend on it. The first advertisements replayed at start-up are ordinary
sightings. An ignored flow leaves an entry without a device address; such entries
are not modelled.

### Correspondence: Links

`devices` is `coordinator.devices`, `user[j]` the adapter a job found there and
keeps, `client` the adapter's `_client` (the number of its link, 0 for `None`),
`up` the links in use and `ending` those that were asked to disconnect and still
stand. `stage` says where a job is suspended inside the adapter, which the
manager's `pc` does not tell:

| `stage` | suspended in |
|---|---|
| `stale` | `close_stale_connections_by_address` in `connect()` |
| `establish` | `establish_connection` in `connect()` |
| `online` | the service discovery or a read, over whatever client the adapter has |
| `close` | the client's `disconnect()` |

Each action is an action of `GattManager` joined with its effect on the links, so
that a deadline, a cancellation, a preemption, a removal or a shutdown meets the
adapter at every one of its awaits. `connect()` sets the client to `None` when the
attempt raises a `BleakError`, whoever's client that is (`DisconnectAfterFailure`);
`disconnect()` reads the client before it awaits and drops the client the adapter
has afterwards (`ClientsAfterClose`); `_on_disconnect` forgets the client whichever
link ended (`LinkEnds`). `cleanup_cached_device` drops the Device and
`remove_device` keeps it, neither looks at its link (`Forgets`); a confirmed device
gets a Device from its next advertisement (`Advertised`).

External, and assumed: `close_stale_connections_by_address` closes all links to
the address or, through a proxy, none; an `establish_connection` that fails or is
cancelled leaves no link; a link that was asked to disconnect ends at any later
time, also after the `disconnect()` that asked gave up waiting; a link may be lost
at any time.

`tangled` is a history variable: the addresses for which two jobs used the device at
once, or a job connected while an earlier link was standing, until no job uses the
device and no link to it stands any more. The invariants speak of the other
addresses, because for tangled ones the code gives no guarantee, as
`v_OpenOnlyWhileUsed` shows; once a tangle has resolved they speak of the address
again, and of whatever the tangle left behind in `devices`, in the adapters' clients
and in the table of probes. `MaxAdapters` and `MaxLinks` bound how many adapters of
an address, and links of an adapter, are alive at a time; numbers
are used again when nothing refers to them any more.

### Correspondence: Entities

A *reading* of a characteristic is a version and a body; the body is a scalar, a
structure or a special value ("value is not known"). A key is `<<path, characteristic,
name>>` as the code builds it: the three paths (`interpreted` and `service` data of
advertisements, `gatt`) have keys of their own, the fields of a structure and the
elements of a sequence have names. `described` and `data` are the processor's
`entity_descriptions` and `entity_data`, which the framework merges by
`dict.update`, so that no key is ever taken away. `cache` is `_initial_gatt_cache`.
`latest`, a history variable, keeps the readings published last on each path.

A probe and a poll read one characteristic at a time (`ReadOne`), each of which may
fail on its own (`SkipOne`), while the device changes (`Changes`). The probe leaves
what it read in the cache, which the first poll returns without connecting
(`PollFromCache`); a poll of a device without a probe result probes first, inside
the poll (`ServicesFound`, `PollDiscovered`); `Cleanup` may clear result and cache
at any time. A probe is scheduled only for a device without an entry
(`ProbeScheduled`), but may wait for its slot until the entry is set up
(`ProbeConnects`), and leave its read in the cache then. Semaphore and links are
left to the other modules. External, and assumed: the readings in an advertisement
are the device's current ones, and the framework runs one poll of a coordinator at
a time. Removal and reload of the entry, with which the processor goes, are not in
this module: a poll that outlives its processor publishes to nobody. Roles, units,
names and the diagnostic category of an entity do not decide on keys or values and
are left out.

### Correspondence: HubLifecycle

Coordinators are numbered in the order of their creation. `current` is
`hass.data[DOMAIN]["coordinator"]`, `runtime` the one a device entry found,
`serving` the one whose processor it got, `processors` each coordinator's
`_processor_coordinators`. The hub's set-up looks for a scanner, awaits the
registries and creates its coordinator (`SetupHubBegins`, `SetupHubEnds`); a
device's set-up finds a coordinator, awaits its platform and asks for a processor
(`SetupDeviceBegins`, `SetupDeviceEnds`), and the hub may be reloaded in between.
`hass.is_running` is true from `starting` on, `EVENT_HOMEASSISTANT_STARTED` comes
later. `async_stop` suspends only if there are probe tasks to await, hence two
ways to unload the hub. An unload with a later set-up is a reload. Home
Assistant serialises the steps of one entry, which the states of `hub` and
`entry` express. `async_unload_platforms` is taken to succeed. `MaxHubs` bounds
the number of coordinators, `Devices` the device entries. The scanner may come
and go at any time.

### Correspondence: PollTimer

Time passes in steps of `Tick`, which is held back while a timer is due. `timer`
is the interval timer of `GattDevicePollCoordinator`, `age` what `_last_poll` of
the framework measures (from the end of a poll, failed or not), `quiet` how long
ago `service_info.time` was, so `age - quiet` is the number `_needs_poll` is
given. The debouncer (external: 10 s, immediate) ignores a call while a poll is
under way and defers one in its cooldown. `HeardUnchanged` is an advertisement
that Home Assistant deduplicates, `HeardChanged` one that reaches `_needs_poll`.
`ReloadDeviceEntry` is the reload that new device options cause: another timer,
another debouncer, no memory of polls, a forced first poll. A poll that the old
coordinator has under way goes on, also with GATT disabled (`leftover` counts those
polls, `LeftoverEnds` ends one); it tells the new coordinator nothing, so that
`PolledWithinTwo` and `PollsSpaced` speak of the new one's polls, and
`NoneBeginsDisabled` of all: when GATT is disabled what is under way only ends, which
is as far as "The integration **stops** periodically connecting"
(`docs/how-to/configure-device-options.md:37`) goes. Polls take any time. A poll
served from the initial cache takes none. `Horizon` bounds what ages are told
apart, `MaxQuiet` how long a device in range stays unheard.

## 3. Runs

| Run | Instance | Shows |
|---|---|---|
| `gatt_contention` | 2 devices, one confirmed and polled, 3 probe tasks, 2 slots, 1 retry | type, slot conservation, no lost wake-up, line, pending addresses, silent cancellation, probes within reach, FIFO pool |
| `gatt_live` | 2 devices, one confirmed and polled, 2 probe tasks, 2 slots, 1 retry | polls served while probes keep coming, pending clears, stop returns |
| `disc_device` | 1 device, 2 tasks, 2 polls, 2 slots, 2 retries, all kinds of advertisement | tracker types; the whole life of a device: none given up while a probe in the table is at work, none when confirmed, slots and pending addresses under forgetting and overlapping polls |
| `disc_crowd` | 3 devices, cap 2, rejection cap 1 | bounded sets, eviction of the oldest |
| `disc_live` | 2 advertisers, one of them perhaps confirmed and polled, 1 task, 2 slots, 2 retries | every candidate gets a verdict, free slots do not idle over a candidate that the cap allows |
| `hub_lifecycle` | 2 device entries, 3 coordinators | one listener, loaded entries are served, timers, what counts as active, retries succeed |
| `links` | 1 device, 1 probe task and 2 polls, 2 slots, 1 retry, 2 adapters with 1 link each at a time | types; no link left open, none borrowed, while the jobs of a device come one after another and again after a tangle; 0.9 million states |
| `entities` | a broadcast characteristic that can be read, too, with special values; a structure with a sequence of one or two elements; one change each | every value is described; sensors lag behind in the named cases only; those of what is read converge to what the device says |
| `poll_timer` | interval 3, overrides 0, 1 and 5, cooldown 4, silence 1, 2 polls left over | polled within two intervals, never early, no poll begins when disabled |

The bounds are named: `MaxConcurrent`, `MaxRetries`, `MaxSeen` and `MaxRejected`
are constants of the code; the sizes of `Addrs` and `Probes` bound the model.
Three tasks and two addresses are what it takes for a cancelled task, its
replacement and a third for the same address to overlap while a poll of another
device preempts them; the poll that preempts is one, since a second would find
nothing left to preempt. In `gatt_live` two tasks and a poll over two slots are what
it takes for a poll to stand in line while discovery, whose cap is one, schedules
probe after probe, and for `async_stop` to await a task that stands in line behind
another task, or a poll that nobody cancels. Two polls of a device are those of two
coordinators, before and after a reload (`disc_device`, `links`). `TaskLeft` in
`Discovery` keeps a sighting from arriving when every task identity is used up, so
that a probe the code would start is never refused for want of a name. With at most three addresses the quarter that is evicted
is always one address (`max(1, n // 4)`). `disc_live` has one probe task, which
keeps the graph its liveness is checked on small: the competition of several is in
`gatt_live`. `NoneConfirmed` restricts `disc_crowd` to the states in which no device
has an entry. `OneConfirmed` restricts `gatt_contention`: one device is discovered
first, by a probe that goes well, is confirmed when the probe is over, and keeps its
entry while the other is discovered, until the shutdown is over; entries come and go
at any time, and the shutdown is followed to its end, in `disc_device`. Deadlock is checked except where
the system may stop for good after `async_stop` or where `NoneConfirmed` cuts
the only way on. Three coordinators are one before, one during and one after a
reload that a device's set-up straddles. The intervals of `poll_timer` are one
below the hub's, one above it, and one short of the cooldown, which device
options allow (`config_flow.py:297` takes any number of seconds, where
`docs/reference/configuration.md:41` says 30 at least). In `links` two adapters are
what a cleanup in the middle of a job leads to, the one the job keeps and the one
the next job makes; one retry keeps the bookkeeping of failures, which links do not
depend on, small. Any two of the three jobs meet in every order, also around
cancellations and the shutdown. `ThirdWhileCalm` keeps the third out until one of
them holds its slot without working with the device (a probe in the delay after it,
or a job that was just handed the slot) and at most one link stands: what it takes
for a job to come to the device out of the line. One change of each
characteristic, from either body to either, is what the difference between a cached,
a partly failed and a fresh read takes.

Three more runs each refute something a comment or a document says. `PresentSpec`,
used by `v_RediscoverableAfterRemoval`, excludes that a device falls silent and is
forgotten, so that the disagreement is not due to the cleanup.

| Run | The code | The claim |
|---|---|---|
| `v_RediscoverableAfterRemoval` | `remove_device` leaves `rejected_devices` (`discovery_tracker.py:218`) | "Allow re-discovery" (`discovery_tracker.py:217`) |
| `v_ServedByHub` | new hub options reload the hub only; device entries keep the stopped coordinator, without timers, with the old interval and semaphore (`__init__.py:205`) | "The change takes effect immediately" (`docs/how-to/configure-poll-interval.md:20`) |
| `v_OpenOnlyWhileUsed` | `connect()` of one job takes away the client of another when it fails; the `disconnect()` of that one then does nothing, and its link stays open (`device_adapter.py:370`) | each poll "Disconnects" (`docs/explanation/data-paths.md:56`) |

As a consequence of `v_ServedByHub`, `async_remove_config_entry_device` lets the user
remove a device that is still served, and polls of old and new coordinators share
no semaphore.

More disagreements were met that no run is spent on:

* a failure is counted when a connection fails and again when the deadline passes
  in the disconnect (`gatt_manager.py:385, 453`), while
  `docs/reference/diagnostics.md:41` speaks of the "Number of failed probe
  attempts";
* advertisements are handled while `async_stop` awaits its tasks
  (`coordinator.py:625`, the callback goes at 633), so a probe may be started that
  is at work after it returned, while `gatt_manager.py:623` says "Cancel all
  in-flight probe tasks and await their completion"; a replacement that a cancelled
  probe dropped from the table (`gatt_manager.py:477`) is left at work as well;
* the `finally` block of a cancelled probe drops the entries of its replacement
  (`gatt_manager.py:477`), after which a third may start beside it, while
  `pending_probes` is there "to avoid duplicate probe attempts"
  (`gatt_manager.py:119`);
* a deadline that passes after the result was stored counts as a failure and may
  reject a supported device (`gatt_manager.py:453`), while `rejected_devices` holds
  what was "fully evaluated with no support" (`discovery_tracker.py:81`);
* the tick after a poll that took any time comes too early and is skipped, so a
  quiet device is polled at every second tick (`coordinator.py:453`), while
  `docs/how-to/configure-device-options.md:29` says "Polls this device every 60
  seconds"; `PolledWithinTwo` is what does hold;
* with one slot, which `docs/reference/configuration.md:23` allows, and a confirmed
  device the cap on discovery probes is zero (`gatt_manager.py:155`) and discovery
  stops for good, while `docs/explanation/limitations.md:46` says that "Discovery
  resumes when slots are available"; `DiscoveryResumes` is what holds, as long as
  the cap is above zero;
* a device that answers its probe and has nothing parseable is logged but not
  marked rejected (`gatt_manager.py:447`), while
  `docs/explanation/discovery.md:72` says it is;
* `docs/explanation/limitations.md:40` says that a device whose probes failed is
  not probed again until Home Assistant restarts, while the stale cleanup, and the
  same `discovery.md:72`, let it be probed again after the timeout;
* without metadata about the type of an address, its first byte decides and half
  of all public addresses are filtered (`device_validator.py:117-131`), while
  `docs/explanation/discovery.md:43` says "If the integration cannot determine the
  address type, it assumes the address is stable";
* `docs/explanation/data-paths.md:66` says that "the most recent value is used" when
  both paths provide a characteristic; the keys of the paths differ, so there are
  two sensors, and the first poll publishes the cached read of the probe, however
  old it is by then;
* a special value in service data leaves the old value in place, because the merge
  keeps keys that an update does not have, while `entity_builder.py:500` says
  "leave entity_data unset so HA reports unknown"; likewise a sequence that became
  shorter, and a structure in whose place a special value came, leave their old
  entities with old values (`StaleOnlyIfReshaped` says that nothing else does);
* links that were left open (`v_OpenOnlyWhileUsed`) count in no semaphore, while
  `docs/reference/configuration.md:29` speaks of the "maximum simultaneous BLE
  connections".

## 4. Fairness

`Fairness` in `GattManagerProps` is weak fairness of the steps of each task: a
connection attempt, a read and a disconnect end or raise, the deadline of a probe
passes at the latest, a sleep ends, and the event loop delivers a cancellation
and resumes a task whose future is resolved. Nothing is assumed about scheduling
of probes, polls or entries. In `DiscoveryFairness` the same steps have strong
fairness, because a step of a task is disabled between `Sighting` and `Route`,
which are one step of the event loop; devices are assumed to advertise again and
again. The `SteadySpec` of `MCGattManager` and that of `DiscoveryProps` state what
else a liveness run assumes: that entries stay as they are; that what is known of the
polled device is not forgotten, in the one, and that nobody falls silent for as long
as the stale timeout, in the other. How often probes are scheduled and cancelled and
polls begin is left open. `LifecycleFairness` says that a set-up that began
ends and that Home Assistant sets up, and retries, an entry that is not loaded;
`RetrySucceeds` assumes in its own statement that hub and scanner are there to
stay. `PollTimer` needs no fairness: its bound is a safety property of time.
`PollFairness` of `Entities` says that a loaded device keeps being polled and a
poll goes on (`poll_timer` shows how often), that connections do not fail for ever
and that no characteristic's reads do; `FairEntitiesSpec` adds that the entry is set
up. `Converges` assumes no more of the device than that it stops changing, which
`MaxVersion` brings about. `Links` is checked for
safety only.

## 5. What is proved

### The semaphore

`GattManagerProofs` proves, for every finite set of addresses and of tasks, every
number of slots and of retries (the assumptions named in `GattManager`):

* `TypeCorrect`: `Spec => []TypeOK`;
* `SlotsConserved`: `Spec => []SlotConservation`.

Neither formula is inductive alone. That a free slot is there to be taken needs
the type of `free`; that `free` never exceeds the capacity needs conservation; and
that a release does not hand out more than it has needs the number of waiters it
wakes to be at most the number of wake-ups, and all of them to be jobs that own
no slot yet. `IInv` is the conjunction of `PoolOK` (types of the semaphore and
conservation) and `RestOK` (the other types). The argument in short:

1. `FirstFew` counts: of the positions of a sequence that satisfy a condition,
   at most `n` have fewer than `n` such positions before them, because their
   ranks are distinct numbers in `1..n`. Hence `WokenFacts`.
2. `MoveAndWakeOK`: when one job moves and others are woken, `Holders` changes by
   disjoint sets, and the sum is kept if it was right once the moving job is
   counted at its new place. `ResumeOK`, `ResumeAndReleaseOK`,
   `EndAndReleaseOK`, `TakeSlotOK` and `JoinLineOK` are its uses.
3. One case per action for each of the three parts (`PoolStep`, `TargetsStep`,
   `CachesStep`).

### Tasks, and the line of the semaphore

* `GattTaskProofs`: `PendingTracked` (`PendingIsTracked`) and `CancelledSilent`
  (`CancelledNeverReports`). `BInv` adds the books to `IInv`: what stands in the
  table is a task with that target that is not finished
  (`TableOK`, which also says that it was not told to stop); a task told to stop
  while connected is in its disconnect (`CancelsOK`). A cancelled task that
  unwinds clears the pending mark of its replacement together with the table entry,
  which is why pending addresses stay tracked. Conversely a task in the table that is
  at work keeps its address pending (`ListedIsPending`), so that `schedule_probe`
  never puts another over it: with that, `StaysReachable` (`ReachableUntilStopped`)
  follows action by action.
* `GattLineProofs`: `LineSuspended` (`LineIsSuspended`) and `NoWakeupLost`
  (`NoLostWakeup`), under `InvL`. A release with `n` slots wakes the waiters of rank
  at most `n`; so either all that wait were woken, or as many were as there are
  slots, and of those who are left each has one of them ahead (`AllWoken`,
  `EnoughBefore`).

### The semaphore is a slot pool

`GattLineProofs` also proves the refinement, `SlotPoolImplemented`: `Spec =>
PoolImplemented`, which is `SlotPool`'s specification with the jobs that own a slot
for its holders and `LineOrder` for its line, the order in which those of the
queue stand whose futures are neither resolved nor cancelled. Three things make a
step of the manager one of the pool, or none:

1. what the queue keeps of jobs that no longer wait does not show
   (`OrderRemoved`, `OrderAppended`), and whoever joins comes last
   (`OrderJoined`);
2. those whom a release wakes stand at the front (`WokenAtFront`), and there are
   never more holders than slots, which is conservation (`NeverTooMany`);
3. a job takes a slot without waiting only when nobody waits (`Seated`); one that
   is cancelled in line gives up its place, and one that was cancelled after it was
   handed a slot releases it (`Served`, `Withdrawn`).

One case per action of the manager follows (`StepServes`).

### Discovery

`DiscoveryProofs` takes these invariants over to the composed system: a step of
`DiscoveryNext` is a step of the manager, or `ForgetDevices` of the whole set that
eviction or cleanup takes, or leaves the manager alone. `DiscoveryConservesSlots`
and `DiscoveryTracksPending` are the result, and the action property and the
refinement follow in the same way: `DiscoveryCancelsSilently`
(`CancelledNeverReports`) and `DiscoveryServesPool` (`PoolImplemented`), since a
device that is forgotten keeps its place in the queue until its cancelled task
runs; `DiscoveryKeepsReach` (`ReachableUntilStopped`) likewise, since everything that
forgets a device tells its task to stop. On top of them `GivenUpStayAtRest`
(`GivenUpAtRest`): a device is rejected by its own advertisement only when it is not
pending, by a failed probe only in the step that takes it out of `pending_probes`, and
a rejected device is never scheduled, so no rejected address is pending
(`RejectedNotPending`, a part of the invariant), while that of a probe at work in the
table is. `ConfirmedStay`
(`ConfirmedNeverRejected`) follows the guards through both callbacks and the
routing.

The tracker's own results are `TrackerTyped` (`TrackerTypeOK`),
`TrackingStaysBounded` (`TrackingBounded`) and `OldestGoFirst` (`OldestEvicted`),
for every number of addresses and both caps. The invariant behind them is `SeenOK`:
whoever is seen has a time, the times are a total order (`TimesOrdered`), and the
cap holds. Hearing an address keeps the order (`DropOrdered`, `LastOrdered`); an
eviction takes those that few were heard before, at least one of them when the cap
is reached, since one was heard first (`FirstHeard`), and nobody who was heard
later than one that stays (`OldestFirst`).

### The links

`LinksProofs` proves `LinksTyped` (`LinksTypeOK`), `LinksGetClosed`
(`NoLinkLeftOpen`) and `ClientsNotBorrowed` (`NoBorrowedLink`) for every set of
addresses and of tasks, every number of slots, and any number of adapters and of
links of one, and `ManagerAboveLinks` (`LinksSpec => Spec`): joined with its
adapters the manager takes no step that it could not take without, so what is
proved of it holds there too. The invariant `LInv` adds to the manager's books

* `StagesFit`: where a job stands in the adapter fits its `pc`, and it has an adapter
  just as long as it is in one of its methods;
* `CrowdedSeen`: an address that is crowded now is in `tangled`;
* `OneLink`: an address that is not there has at most one link standing. Without it the
  end of an old link could take the client of a new one away, which is what
  `_on_disconnect` does to tangled addresses.

An address leaves `tangled` when no link to it stands, so nothing is to be shown
of its links then (`Recorded`). What the adapter's methods do is proved once each
(`PassesKeeps`, `CloseStaleKeeps`, `EstablishKeeps`, `DisconnectKeeps`,
`FailureKeeps`, `LinkEndsKeeps`), whatever the manager does at the same moment;
the step lemmas put the two together.

### Hub and device entries

`HubLifecycleProofs` proves `LifecycleTyped`, `ListenersReplaced` (`OneListener`),
`LoadedServed`, `TimersAreServed` and `ActiveServed` for every set of devices and
every number of coordinators. `LoadedIsServed` and `ActiveIsServed` need each other:
a set-up finds the device unknown to its coordinator (`SetupUnknown`) because what
is active is served and what is served is loaded; and it stays unknown, because
only the device's own set-up adds it. `HubHasCoordinator` and `FreshCoordinators`
say that a coordinator is created after the last one was stopped and knows
nothing. `LifecycleInv` is the conjunction.

### The poll timer

`PollTimerProofs` proves `TimerTyped`, `PolledInTime` (`PolledWithinTwo`),
`NothingBeginsDisabled` (`NoneBeginsDisabled`) and `SpacedPolls` (`PollsSpaced`)
for every interval, set of overrides, cooldown and rate of advertisements
(`IntervalAssumption`, which besides types says that `Horizon` is beyond all that
is told apart). The bound of two intervals is not inductive; `FiredInVain` is:
when the timer last fired with the device in range, the age was below one interval
and `MaxQuiet`, and since then it has grown with the time since the timer fired,
which is at most an interval; or the poll was deferred, and `DebouncerInv` relates
the cooldown to the age. `NothingBeginsDisabled` needs of it that a call is
deferred only with GATT enabled: a new debouncer forgets what the old one had
deferred.

### What the sensors show

`EntitiesProofs` proves `EntitiesTyped` and `StaleOnlyReshaped` for every sequence of
characteristics, all bodies and any number of changes. `PublishKeeps` is the heart:
an update that has a characteristic renews its `latest` reading and every key the
reading has a value for, so a key of it that keeps its old value is one the reading
does not describe, or that of a special value in service data. That lookups are in
their domains (`ViewOK`), and that caches and unfinished reads hold readable
characteristics only (`JobsOK`), makes it inductive.

### Only model-checked

* Liveness (`PollServed`, `PendingClears`, `StopTerminates`, `VerdictReached`,
  `DiscoveryResumes`, `RetrySucceeds`, `Converges`): out of the prover's reach. Every
  other property of a passing run is stated by a theorem.
* What the runs that refute something show.

## 6. Not modelled, and the plan

In order of importance, what a continuation would take up:

1. Ignored flows, which count as confirmed when a device is routed but not when
   capacity is reserved (`gatt_manager.py:132-141`).
2. The replay of known devices in `async_start`, and an entry's removal in
   `Entities`.

The classification of addresses (`device_validator.py`) is a pure function that the
unit tests enumerate class by class; discovery is modelled behind it. The
advertisement manager reads the framework's caches and keeps nothing. Outside the
scope for good: rendering of values, diagnostics, logging, the conversion between
the data classes of two libraries, entity metadata, and the fixture script.
