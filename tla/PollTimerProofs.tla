-------------------------- MODULE PollTimerProofs --------------------------
(***************************************************************************)
(* What the poll timer promises, for every interval, cooldown and rate of  *)
(* advertisements.                                                         *)
(***************************************************************************)
EXTENDS PollTimerProps, TLAPS

TimerTypes ==
  /\ override \in Overrides /\ gatt \in BOOLEAN /\ polling \in BOOLEAN
  /\ timer \in -1..EffectiveInterval
  /\ cooldown \in -1..Cooldown /\ deferred \in BOOLEAN
  /\ leftover \in 0..MaxLeftover
  /\ age \in -1..Horizon /\ quiet \in 0..MaxQuiet /\ steady \in -1..Horizon

(* A cooldown began with the end of the last poll; a call is deferred only *)
(* during one, with GATT enabled and the interval over.                    *)
DebouncerInv ==
  /\ polling => cooldown = Off /\ ~deferred /\ gatt
  /\ cooldown # Off => age = Cooldown - cooldown
  /\ deferred => cooldown # Off /\ gatt /\ age >= EffectiveInterval

(* The time since the timer fired last.                                    *)
SinceFired == EffectiveInterval - timer

(* When the timer fired last, with the device in range, either no poll was *)
(* due, the last one being less than an interval and MaxQuiet old, or it   *)
(* was deferred and the cooldown still runs.                               *)
FiredInVain ==
  gatt /\ timer # Off /\ ~polling /\ steady > SinceFired =>
    /\ age # Never
    /\ age < EffectiveInterval + MaxQuiet + SinceFired \/ deferred

TimerInv == TimerTypes /\ DebouncerInv /\ FiredInVain

(* An interval is positive and well below the horizon.                     *)
LEMMA IntervalFacts ==
  ASSUME NEW o \in Overrides
  PROVE  /\ EffectivePollInterval(o) \in Nat /\ EffectivePollInterval(o) > 0
         /\ 2 * EffectivePollInterval(o) + MaxQuiet + Cooldown < Horizon
         /\ Cooldown \in Nat /\ MaxQuiet \in Nat /\ Horizon \in Nat
BY IntervalAssumption DEF EffectivePollInterval, Intervals

LEMMA TimerInitInv == TimerInit => TimerInv
<1> SUFFICES ASSUME TimerInit PROVE TimerInv OBVIOUS
<1> DEFINE I == EffectivePollInterval(override)
<1>1. /\ I \in Nat /\ I > 0 /\ 2 * I + MaxQuiet + Cooldown < Horizon
      /\ Cooldown \in Nat /\ MaxQuiet \in Nat /\ Horizon \in Nat
      /\ EffectiveInterval = I
  BY IntervalFacts DEF TimerInit, EffectiveInterval
<1> HIDE DEF I
<1>2. timer = I /\ quiet = 0 /\ steady = 0 BY DEF TimerInit, TimerPeriod, I
<1>3. TimerTypes
  <2>1. polling \in BOOLEAN /\ deferred \in BOOLEAN /\ gatt \in BOOLEAN
    BY DEF TimerInit
  <2>2. /\ override \in Overrides /\ cooldown \in -1..Cooldown
        /\ age \in -1..Horizon
    BY <1>1 DEF TimerInit, Off, Never
  <2>3. leftover \in 0..MaxLeftover
    BY LeftoverAssumption DEF TimerInit
  <2> QED BY <1>1, <1>2, <2>1, <2>2, <2>3 DEF TimerTypes
<1>4. DebouncerInv BY <1>1, <1>2 DEF TimerInit, DebouncerInv, Off, Never
<1>5. FiredInVain BY <1>1, <1>2 DEF FiredInVain, SinceFired
<1> QED BY <1>3, <1>4, <1>5 DEF TimerInv

-----------------------------------------------------------------------------
(* A call of the debouncer starts a poll or defers one, and only when it   *)
(* is due: it can only help the invariant.                                 *)
LEMMA ScheduleKeeps ==
  ASSUME TimerInv, NEW q \in 0..MaxQuiet, NEW due \in BOOLEAN,
         due => PollDue(q), ScheduleIf(due),
         UNCHANGED <<override, gatt, age>>
  PROVE  /\ polling' \in BOOLEAN /\ deferred' \in BOOLEAN
         /\ cooldown' = cooldown /\ DebouncerInv'
         /\ (polling \/ deferred) => (polling' \/ deferred')
         /\ due => (polling' \/ deferred')
<1> DEFINE I == EffectivePollInterval(override)
<1>1. /\ I \in Nat /\ I > 0 /\ Cooldown \in Nat /\ MaxQuiet \in Nat
      /\ EffectiveInterval = I /\ EffectiveInterval' = I
  BY IntervalFacts DEF EffectiveInterval, TimerInv, TimerTypes
<1> HIDE DEF I
<1>2. CASE UNCHANGED debouncer /\ (polling \/ ~due)
  BY <1>1, <1>2 DEF TimerInv, TimerTypes, DebouncerInv, debouncer
<1>3. CASE due /\ ~polling /\ cooldown # Off /\ deferred' = TRUE
           /\ UNCHANGED <<polling, cooldown>>
  <2>1. gatt /\ age # Never /\ age >= I
    BY <1>1, <1>3 DEF TimerInv, TimerTypes, DebouncerInv, PollDue, Off, Never, I
  <2> QED BY <1>1, <1>3, <2>1 DEF TimerInv, TimerTypes, DebouncerInv
<1>4. CASE due /\ ~polling /\ cooldown = Off /\ polling' = TRUE
           /\ UNCHANGED <<cooldown, deferred>>
  BY <1>1, <1>4 DEF TimerInv, TimerTypes, DebouncerInv, PollDue
<1> QED BY <1>2, <1>3, <1>4 DEF ScheduleIf, ScheduleCall

LEMMA TickStep == TimerInv /\ Tick => TimerInv'
<1> SUFFICES ASSUME TimerInv, Tick PROVE TimerInv' OBVIOUS
<1> DEFINE I == EffectivePollInterval(override)
<1>1. /\ I \in Nat /\ I > 0 /\ 2 * I + MaxQuiet + Cooldown < Horizon
      /\ Cooldown \in Nat /\ MaxQuiet \in Nat /\ Horizon \in Nat
      /\ EffectiveInterval = I /\ EffectiveInterval' = I
  BY IntervalFacts DEF EffectiveInterval, TimerInv, TimerTypes, Tick
<1> HIDE DEF I
<1> USE DEF TimerInv, TimerTypes, Tick, Capped, Off, Never
<1>2. TimerTypes' BY <1>1
<1>3. DebouncerInv' BY <1>1 DEF DebouncerInv
<1>4. FiredInVain' BY <1>1 DEF DebouncerInv, FiredInVain, SinceFired
<1> QED BY <1>2, <1>3, <1>4

LEMMA TimerFiresStep == TimerInv /\ TimerFires => TimerInv'
<1> SUFFICES ASSUME TimerInv, TimerFires PROVE TimerInv' OBVIOUS
<1> DEFINE I == EffectivePollInterval(override)
           due == steady # Off /\ PollDue(quiet)
<1>1. /\ I \in Nat /\ I > 0 /\ 2 * I + MaxQuiet + Cooldown < Horizon
      /\ Cooldown \in Nat /\ MaxQuiet \in Nat /\ Horizon \in Nat
      /\ EffectiveInterval = I /\ EffectiveInterval' = I /\ timer' = I
  BY IntervalFacts
  DEF EffectiveInterval, TimerInv, TimerTypes, TimerFires, TimerPeriod
<1>2. /\ polling' \in BOOLEAN /\ deferred' \in BOOLEAN /\ cooldown' = cooldown
      /\ DebouncerInv' /\ (due => (polling' \/ deferred'))
  <2>1. due \in BOOLEAN /\ (due => PollDue(quiet)) /\ ScheduleIf(due)
        /\ quiet \in 0..MaxQuiet
    BY DEF TimerFires, PollDue, TimerInv, TimerTypes
  <2> QED BY <2>1, ScheduleKeeps DEF TimerFires
<1>3. TimerTypes'
  BY <1>1, <1>2 DEF TimerInv, TimerTypes, TimerFires
<1>4. FiredInVain'
  <2>1. gatt /\ ~polling' /\ ~deferred' /\ steady > 0 =>
          age # Never /\ age < I + MaxQuiet
    <3> SUFFICES ASSUME gatt, ~polling', ~deferred', steady > 0
                 PROVE  age # Never /\ age < I + MaxQuiet
      OBVIOUS
    <3>1. ~due
      <4>1. due => polling' \/ deferred' BY <1>2
      <4> HIDE DEF due
      <4> QED BY <4>1
    <3>2. ~PollDue(quiet)
      <4>1. steady # Off BY DEF Off
      <4> QED BY <3>1, <4>1
    <3> QED BY <1>1, <3>2 DEF PollDue, TimerInv, TimerTypes, I, Never
  <2>2. UNCHANGED <<gatt, age, steady>> /\ steady \in -1..Horizon
    BY DEF TimerFires, TimerInv, TimerTypes
  <2>3. SinceFired' = 0 BY <1>1 DEF SinceFired
  <2>4. age < I + MaxQuiet =>
          age' < EffectiveInterval' + MaxQuiet + SinceFired'
    BY <1>1, <2>2, <2>3
  <2>5. steady' > SinceFired' => steady > 0 BY <2>2, <2>3
  <2>6. (age # Never => age' # Never) /\ (gatt' => gatt) BY <2>2
  <2>7. deferred' => age' # Never
    BY <1>1, <1>2, <2>2 DEF DebouncerInv, Never
  <2> QED BY <2>1, <2>4, <2>5, <2>6, <2>7 DEF FiredInVain
<1> HIDE DEF due
<1> QED BY <1>2, <1>3, <1>4 DEF TimerInv

LEMMA HeardStep == TimerInv /\ (HeardUnchanged \/ HeardChanged) => TimerInv'
<1> SUFFICES ASSUME TimerInv, HeardUnchanged \/ HeardChanged PROVE TimerInv'
  OBVIOUS
<1> DEFINE I == EffectivePollInterval(override)
<1>1. /\ I \in Nat /\ I > 0 /\ MaxQuiet \in Nat /\ Horizon \in Nat
      /\ EffectiveInterval = I /\ EffectiveInterval' = I
      /\ UNCHANGED <<override, gatt, timer, leftover, age>> /\ Heard
  BY IntervalFacts
  DEF EffectiveInterval, TimerInv, TimerTypes, HeardUnchanged, HeardChanged
<1> HIDE DEF I
<1>2. /\ polling' \in BOOLEAN /\ deferred' \in BOOLEAN /\ cooldown' = cooldown
      /\ DebouncerInv' /\ ((polling \/ deferred) => (polling' \/ deferred'))
  <2>1. CASE HeardUnchanged
    BY <1>1, <2>1 DEF HeardUnchanged, TimerInv, TimerTypes, DebouncerInv, debouncer
  <2>2. CASE HeardChanged
    <3>1. PollDue(0) \in BOOLEAN /\ ScheduleIf(PollDue(0)) /\ 0 \in 0..MaxQuiet
      BY <1>1, <2>2 DEF HeardChanged, PollDue, TimerInv, TimerTypes
    <3> QED BY <1>1, <3>1, ScheduleKeeps
  <2> QED BY <2>1, <2>2
<1>3. TimerTypes'
  BY <1>1, <1>2 DEF TimerInv, TimerTypes, Heard, Off
<1>4. FiredInVain'
  BY <1>1, <1>2 DEF TimerInv, TimerTypes, FiredInVain, SinceFired, DebouncerInv, Heard, Off
<1> QED BY <1>2, <1>3, <1>4 DEF TimerInv

LEMMA PollStep ==
  TimerInv /\ (\/ LeavesRange \/ PollEnds \/ CooldownEnds \/ LeftoverEnds
               \/ HubStops) => TimerInv'
<1> SUFFICES ASSUME TimerInv,
                    \/ LeavesRange \/ PollEnds \/ CooldownEnds \/ LeftoverEnds
                    \/ HubStops
             PROVE  TimerInv'
  OBVIOUS
<1> DEFINE I == EffectivePollInterval(override)
<1>1. /\ I \in Nat /\ I > 0 /\ MaxQuiet \in Nat /\ Horizon \in Nat /\ Cooldown \in Nat
      /\ EffectiveInterval = I /\ EffectiveInterval' = I
  BY IntervalFacts DEF EffectiveInterval, TimerInv, TimerTypes,
                       LeavesRange, PollEnds, CooldownEnds, LeftoverEnds,
                       HubStops
<1> HIDE DEF I
<1> USE DEF TimerInv, TimerTypes, DebouncerInv, FiredInVain, SinceFired, Off, Never
<1>2. CASE LeavesRange BY <1>1, <1>2 DEF LeavesRange, debouncer
<1>3. CASE PollEnds
  <2>1. /\ ~polling' /\ ~deferred' /\ gatt' = gatt
        /\ polling' \in BOOLEAN /\ deferred' \in BOOLEAN
    BY <1>3 DEF PollEnds
  <2>2. /\ age' = 0 /\ cooldown' = Cooldown
        /\ UNCHANGED <<override, timer, leftover, quiet, steady>>
    BY <1>3 DEF PollEnds
  <2> QED BY <1>1, <2>1, <2>2
<1>4. CASE CooldownEnds
  <2>1. /\ polling' = deferred /\ ~deferred' /\ gatt' = gatt
        /\ polling' \in BOOLEAN /\ deferred' \in BOOLEAN
        /\ deferred => gatt
    BY <1>4 DEF CooldownEnds
  <2>2. /\ cooldown' = Off /\ ~polling
        /\ UNCHANGED <<override, timer, leftover, age, quiet, steady>>
    BY <1>4 DEF CooldownEnds
  <2> QED BY <1>1, <2>1, <2>2
<1>5. CASE HubStops BY <1>1, <1>5 DEF HubStops, debouncer
<1>6. CASE LeftoverEnds
  <2>1. leftover' \in 0..MaxLeftover
    BY <1>6, LeftoverAssumption DEF LeftoverEnds
  <2> QED BY <1>1, <1>6, <2>1 DEF LeftoverEnds, debouncer
<1> QED BY <1>2, <1>3, <1>4, <1>5, <1>6

LEMMA ReloadStep == TimerInv /\ ReloadDeviceEntry => TimerInv'
<1> SUFFICES ASSUME TimerInv, NEW o \in Overrides, NEW on \in BOOLEAN,
                    NEW known \in BOOLEAN, steady # Off => known,
                    override' = o, gatt' = on, timer' = TimerPeriod(o),
                    leftover' = (IF polling THEN leftover + 1 ELSE leftover),
                    leftover' <= MaxLeftover, FirstPoll(on, known), UNCHANGED <<quiet, steady>>
             PROVE  TimerInv'
  BY DEF ReloadDeviceEntry
<1> DEFINE I == EffectivePollInterval(o)
<1>1. /\ I \in Nat /\ I > 0 /\ MaxQuiet \in Nat /\ Horizon \in Nat /\ Cooldown \in Nat
      /\ EffectiveInterval' = I /\ timer' = I
  BY IntervalFacts DEF EffectiveInterval, TimerPeriod
<1> HIDE DEF I
<1> USE DEF FirstPoll, Off, Never
<1>2. TimerTypes'
  <2>1. polling' \in BOOLEAN /\ deferred' \in BOOLEAN /\ gatt' \in BOOLEAN
    OBVIOUS
  <2>2. cooldown' \in -1..Cooldown /\ age' \in -1..Horizon BY <1>1
  <2>3. leftover' \in 0..MaxLeftover
    BY LeftoverAssumption DEF TimerInv, TimerTypes
  <2> QED BY <1>1, <2>1, <2>2, <2>3 DEF TimerInv, TimerTypes
<1>3. DebouncerInv' BY <1>1 DEF DebouncerInv
<1>4. FiredInVain'
  BY <1>1 DEF FiredInVain, SinceFired, TimerInv, TimerTypes
<1> QED BY <1>2, <1>3, <1>4 DEF TimerInv

(* Every step keeps the invariant.                                         *)
LEMMA TimerStep == TimerInv /\ [TimerNext]_timerVars => TimerInv'
<1> SUFFICES ASSUME TimerInv, [TimerNext]_timerVars PROVE TimerInv' OBVIOUS
<1>1. CASE UNCHANGED timerVars
  BY <1>1 DEF timerVars, debouncer, TimerInv, TimerTypes, DebouncerInv,
              FiredInVain, SinceFired, EffectiveInterval
<1> QED BY <1>1, TickStep, TimerFiresStep, HeardStep, PollStep, ReloadStep
        DEF TimerNext

-----------------------------------------------------------------------------
(* The invariant gives what the runs check.                                *)
LEMMA TimerInvSuffices ==
  TimerInv => TimerTypeOK /\ PolledWithinTwo
<1> SUFFICES ASSUME TimerInv PROVE TimerTypeOK /\ PolledWithinTwo
  OBVIOUS
<1> DEFINE I == EffectivePollInterval(override)
<1>1. /\ I \in Nat /\ I > 0 /\ 2 * I + MaxQuiet + Cooldown < Horizon
      /\ Cooldown \in Nat /\ MaxQuiet \in Nat /\ Horizon \in Nat
      /\ EffectiveInterval = I
  BY IntervalFacts DEF EffectiveInterval, TimerInv, TimerTypes
<1> HIDE DEF I
<1> USE DEF TimerInv, TimerTypes, DebouncerInv, Off, Never
<1>2. TimerTypeOK BY <1>1 DEF TimerTypeOK
<1>3. PolledWithinTwo BY <1>1 DEF PolledWithinTwo, FiredInVain, SinceFired
<1> QED BY <1>2, <1>3

(* The timer's state always has its type: a poll is deferred only within a *)
(* cooldown of the debouncer (GattDevicePollCoordinator).                  *)
THEOREM TimerTyped == TimerSpec => []TimerTypeOK
BY TimerInitInv, TimerStep, TimerInvSuffices, PTL DEF TimerSpec

(* For every interval, override, cooldown and rate of advertisements: a    *)
(* device that stays in range is polled within two intervals               *)
(* (GattDevicePollCoordinator, _needs_poll).                               *)
THEOREM PolledInTime == TimerSpec => []PolledWithinTwo
BY TimerInitInv, TimerStep, TimerInvSuffices, PTL DEF TimerSpec

(* With GATT disabled a step may end polls, hand them from a coordinator   *)
(* to the past, or leave them alone.                                       *)
LEMMA DisabledStep ==
  ASSUME TimerInv, TimerNext, ~gatt'
  PROVE  PollsUnderWay' <= PollsUnderWay
<1>1. leftover \in Nat /\ polling \in BOOLEAN /\ PollsUnderWay \in Nat
  BY LeftoverAssumption DEF TimerInv, TimerTypes, PollsUnderWay
<1>2. CASE UNCHANGED <<polling, leftover>>
  BY <1>1, <1>2 DEF PollsUnderWay
<1>3. CASE Tick \/ HeardUnchanged \/ LeavesRange \/ HubStops
  BY <1>2, <1>3 DEF Tick, HeardUnchanged, LeavesRange, HubStops, debouncer
(* A poll is due, or deferred, only with GATT enabled.                     *)
<1>4. CASE TimerFires \/ HeardChanged
  <2>1. \E due \in {PollDue(quiet), PollDue(0), steady # Off /\ PollDue(quiet)} :
          ScheduleIf(due) /\ (due => gatt)
    BY <1>4 DEF TimerFires, HeardChanged, PollDue
  <2>2. UNCHANGED <<gatt, leftover>>
    BY <1>4 DEF TimerFires, HeardChanged
  <2>3. UNCHANGED debouncer
    BY <2>1, <2>2 DEF ScheduleIf
  <2> QED BY <1>2, <2>2, <2>3 DEF debouncer
(* What was deferred comes due while GATT is still enabled, or not at all. *)
<1>5. CASE CooldownEnds
  <2>1. leftover' = leftover /\ (polling' => deferred) /\ gatt' = gatt
    BY <1>5 DEF CooldownEnds
  <2>2. deferred => gatt
    BY DEF TimerInv, DebouncerInv
  <2>3. ~polling'
    BY <2>1, <2>2
  <2> QED BY <1>1, <2>1, <2>3 DEF PollsUnderWay
<1>6. CASE PollEnds
  <2>1. polling /\ ~polling' /\ leftover' = leftover
    BY <1>6 DEF PollEnds
  <2> QED BY <1>1, <2>1 DEF PollsUnderWay
<1>7. CASE ReloadDeviceEntry
  <2>1. /\ leftover' = (IF polling THEN leftover + 1 ELSE leftover)
        /\ ~polling'
    BY <1>7 DEF ReloadDeviceEntry, FirstPoll
  <2> QED BY <1>1, <2>1 DEF PollsUnderWay
<1>8. CASE LeftoverEnds
  <2>1. leftover' = leftover - 1 /\ polling' = polling
    BY <1>8 DEF LeftoverEnds, debouncer
  <2> QED BY <1>1, <2>1 DEF PollsUnderWay
<1> QED
  BY <1>3, <1>4, <1>5, <1>6, <1>7, <1>8 DEF TimerNext

(* However often the entry is reloaded and whatever was deferred while     *)
(* GATT was enabled, no poll begins once it is disabled; those left under  *)
(* way by earlier coordinators only grow fewer (_needs_poll).              *)
THEOREM NothingBeginsDisabled == TimerSpec => NoneBeginsDisabled
<1>1. TimerInv /\ [TimerNext]_timerVars =>
        [~gatt' => PollsUnderWay' <= PollsUnderWay]_timerVars
  BY DisabledStep
<1> QED BY TimerInitInv, TimerStep, <1>1, PTL DEF TimerSpec, NoneBeginsDisabled

(* One step starts a poll only when the interval has passed since the last *)
(* one ended, or for a device entry that was just set up.                  *)
LEMMA SpacedStep ==
  ASSUME TimerInv, [TimerNext]_timerVars
  PROVE  ~polling /\ polling' /\ age' # Never => age >= EffectiveInterval
<1> SUFFICES ASSUME ~polling, polling', age' # Never
             PROVE  age >= EffectiveInterval
  OBVIOUS
<1>1. /\ EffectiveInterval \in Nat /\ MaxQuiet \in Nat
      /\ EffectiveInterval = EffectivePollInterval(override)
  BY IntervalFacts DEF EffectiveInterval, TimerInv, TimerTypes
<1>2. CASE TimerFires
  <2>1. PollDue(quiet) /\ age' = age
    BY <1>2 DEF TimerFires, ScheduleIf, debouncer
  <2> QED BY <1>1, <2>1 DEF PollDue, TimerInv, TimerTypes
<1>3. CASE HeardChanged
  <2>1. PollDue(0) /\ age' = age
    BY <1>3 DEF HeardChanged, ScheduleIf, debouncer
  <2> QED BY <1>1, <2>1 DEF PollDue, TimerInv, TimerTypes
<1>4. CASE CooldownEnds
  BY <1>4 DEF CooldownEnds, TimerInv, DebouncerInv
<1>5. CASE ReloadDeviceEntry
  BY <1>5 DEF ReloadDeviceEntry, FirstPoll
<1>6. CASE \/ Tick \/ HeardUnchanged \/ LeavesRange \/ PollEnds \/ HubStops
           \/ LeftoverEnds \/ UNCHANGED timerVars
  BY <1>6 DEF Tick, HeardUnchanged, LeavesRange, PollEnds, HubStops,
              LeftoverEnds, timerVars, debouncer
<1> QED BY <1>2, <1>3, <1>4, <1>5, <1>6 DEF TimerNext

(* Timer, advertisement and cooldown together never poll a device more     *)
(* often than its interval, whatever override it has (_needs_poll).        *)
THEOREM SpacedPolls == TimerSpec => PollsSpaced
<1>1. TimerInv /\ [TimerNext]_timerVars =>
        [~polling /\ polling' /\ age' # Never => age >= EffectiveInterval]_timerVars
  BY SpacedStep
<1> QED BY TimerInitInv, TimerStep, <1>1, PTL DEF TimerSpec, PollsSpaced
=============================================================================
