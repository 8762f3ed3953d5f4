----------------------------- MODULE PollTimer -----------------------------
(***************************************************************************)
(* The polls of one confirmed device in discrete time (coordinator.py,     *)
(* GattDevicePollCoordinator and _needs_poll).  A timer fires at the poll  *)
(* interval itself; each of its ticks, and each advertisement that brings  *)
(* new data, asks whether a poll is due.  The framework counts the age of  *)
(* the last poll from its end up to the last advertisement heard, and its  *)
(* debouncer keeps a cooldown after each poll.                             *)
(***************************************************************************)
EXTENDS Integers

CONSTANTS
  HubInterval,  \* poll_interval of the hub
  Overrides,    \* values of CONF_DEVICE_POLL_INTERVAL; 0 stands for the hub's
  Cooldown,     \* of the framework's debouncer
  MaxQuiet,     \* in range, an advertisement is heard at least this often
  Horizon,      \* bound: ages above it are not told apart
  MaxLeftover   \* bound: polls of earlier coordinators under way at a time

Intervals == {HubInterval} \cup (Overrides \ {0})

ASSUME IntervalAssumption ==
  /\ HubInterval \in Nat \ {0} /\ Overrides \subseteq Nat
  /\ Cooldown \in Nat /\ MaxQuiet \in Nat /\ Horizon \in Nat
  /\ \A i \in Intervals : 2 * i + MaxQuiet + Cooldown < Horizon

ASSUME LeftoverAssumption == MaxLeftover \in Nat

Off   == -1
Never == -1

VARIABLES
  override,  \* entry.options[CONF_DEVICE_POLL_INTERVAL]
  gatt,      \* entry.options[CONF_GATT_ENABLED]
  timer,     \* time until the poll timer fires, or Off
  polling,   \* a poll is under way, which holds the debouncer's lock
  cooldown,  \* time until the debouncer's cooldown is over, or Off
  deferred,  \* a poll starts at the end of the cooldown
  leftover,  \* polls under way that an earlier coordinator began
  age,       \* time since the last poll ended, or Never
  quiet,     \* time since an advertisement was heard, in range
  steady     \* how long a connectable device has been in range, or Off

debouncer == <<polling, cooldown, deferred>>
timerVars == <<override, gatt, timer, debouncer, leftover, age, quiet, steady>>

-----------------------------------------------------------------------------
EffectivePollInterval(o) == IF o = 0 THEN HubInterval ELSE o

(* Mutant: the timer is built from the hub's interval.                     *)
HubPeriod(o) == HubInterval

TimerPeriod(o) == EffectivePollInterval(o)

(* Mutant: the age is compared with the hub's interval.                    *)
PollDueOfHub(q) ==
  gatt /\ (age = Never \/ age - q >= HubInterval)

(* _needs_poll of a connectable device, asked with the time of the last    *)
(* advertisement, which was heard q ago, less the time of the last poll.   *)
PollDue(q) ==
  gatt /\ (age = Never \/ age - q >= EffectivePollInterval(override))

(* async_schedule_call of the debouncer: at once, or at the end of the     *)
(* cooldown, or not at all while a poll is under way.                      *)
ScheduleCall ==
  \/ polling /\ UNCHANGED debouncer
  \/ ~polling /\ cooldown # Off /\ deferred' = TRUE
     /\ UNCHANGED <<polling, cooldown>>
  \/ ~polling /\ cooldown = Off /\ polling' = TRUE
     /\ UNCHANGED <<cooldown, deferred>>

ScheduleIf(due) == IF due THEN ScheduleCall ELSE UNCHANGED debouncer

-----------------------------------------------------------------------------
Capped(t) == IF t < Horizon THEN t + 1 ELSE Horizon

(* Time passes when no timer is due and, in range, an advertisement was    *)
(* heard recently.                                                         *)
Tick ==
  /\ timer # 0 /\ cooldown # 0 /\ (steady # Off => quiet < MaxQuiet)
  /\ timer'    = IF timer = Off THEN Off ELSE timer - 1
  /\ cooldown' = IF cooldown = Off THEN Off ELSE cooldown - 1
  /\ age'      = IF age = Never THEN Never ELSE Capped(age)
  /\ quiet'    = IF steady = Off THEN quiet ELSE quiet + 1
  /\ steady'   = IF steady = Off THEN Off ELSE Capped(steady)
  /\ UNCHANGED <<override, gatt, polling, deferred, leftover>>

(* _async_gatt_poll_timer                                                  *)
TimerFires ==
  /\ timer = 0 /\ timer' = TimerPeriod(override)
  /\ ScheduleIf(steady # Off /\ PollDue(quiet))
  /\ UNCHANGED <<override, gatt, leftover, age, quiet, steady>>

(* An advertisement is heard, from a device in range or one that returns.  *)
(* If its data is that of the last, the framework's caches learn of it and *)
(* no callback runs.                                                       *)
Heard ==
  quiet' = 0 /\ steady' = IF steady = Off THEN 0 ELSE steady

HeardUnchanged ==
  /\ Heard /\ UNCHANGED <<override, gatt, timer, debouncer, leftover, age>>

HeardChanged ==
  /\ Heard /\ ScheduleIf(PollDue(0))
  /\ UNCHANGED <<override, gatt, timer, leftover, age>>

LeavesRange ==
  /\ steady # Off /\ steady' = Off /\ quiet' = 0
  /\ UNCHANGED <<override, gatt, timer, debouncer, leftover, age>>

(* Failed or not, a poll that ends sets _last_poll.                        *)
PollEnds ==
  /\ polling /\ polling' = FALSE /\ age' = 0 /\ cooldown' = Cooldown
  /\ UNCHANGED <<override, gatt, timer, deferred, leftover, quiet, steady>>

CooldownEnds ==
  /\ cooldown = 0 /\ cooldown' = Off
  /\ polling' = deferred /\ deferred' = FALSE
  /\ UNCHANGED <<override, gatt, timer, leftover, age, quiet, steady>>

(* Mutant: the call that the old debouncer deferred is not cancelled.      *)
FirstPollKeepsDeferred(on, known) ==
  /\ polling' = (on /\ known) /\ UNCHANGED deferred
  /\ cooldown' = IF known /\ ~on THEN Cooldown ELSE Off
  /\ age' = IF known /\ ~on THEN 0 ELSE Never

(* The forced poll at the start needs to know an advertisement and asks    *)
(* nothing else; with GATT disabled it raises at once.                     *)
FirstPoll(on, known) ==
  /\ polling' = (on /\ known) /\ deferred' = FALSE
  /\ cooldown' = IF known /\ ~on THEN Cooldown ELSE Off
  /\ age' = IF known /\ ~on THEN 0 ELSE Never

(* New options reload the device entry: another GattDevicePollCoordinator, *)
(* with a timer and a debouncer of its own, that knows of no earlier poll. *)
(* Nobody cancels the poll that the old one has under way.                 *)
ReloadDeviceEntry ==
  \E o \in Overrides, on \in BOOLEAN, known \in BOOLEAN :
    /\ steady # Off => known
    /\ override' = o /\ gatt' = on /\ timer' = TimerPeriod(o)
    /\ leftover' = (IF polling THEN leftover + 1 ELSE leftover)
    /\ leftover' <= MaxLeftover
    /\ FirstPoll(on, known)
    /\ UNCHANGED <<quiet, steady>>

(* Its end tells the coordinator that polls now nothing.                   *)
LeftoverEnds ==
  /\ leftover > 0 /\ leftover' = leftover - 1
  /\ UNCHANGED <<override, gatt, timer, debouncer, age, quiet, steady>>

(* async_stop of the hub cancels the timer; the device entry stays loaded. *)
HubStops ==
  /\ timer # Off /\ timer' = Off
  /\ UNCHANGED <<override, gatt, debouncer, leftover, age, quiet, steady>>

-----------------------------------------------------------------------------
(* The device entry was just set up, in range.                             *)
TimerInit ==
  /\ override \in Overrides /\ gatt \in BOOLEAN
  /\ timer = TimerPeriod(override)
  /\ polling = gatt /\ deferred = FALSE /\ leftover = 0
  /\ cooldown = IF gatt THEN Off ELSE Cooldown
  /\ age = IF gatt THEN Never ELSE 0
  /\ quiet = 0 /\ steady = 0

TimerNext ==
  \/ Tick \/ TimerFires \/ HeardUnchanged \/ HeardChanged \/ LeavesRange
  \/ PollEnds \/ CooldownEnds \/ ReloadDeviceEntry \/ LeftoverEnds
  \/ HubStops

TimerSpec == TimerInit /\ [][TimerNext]_timerVars

=============================================================================
