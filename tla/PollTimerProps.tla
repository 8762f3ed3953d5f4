--------------------------- MODULE PollTimerProps ---------------------------
(***************************************************************************)
(* How often a device is polled.                                           *)
(***************************************************************************)
EXTENDS PollTimer

TimerTypeOK ==
  /\ override \in Overrides /\ gatt \in BOOLEAN
  /\ timer \in -1..Horizon /\ polling \in BOOLEAN
  /\ cooldown \in -1..Cooldown /\ deferred \in BOOLEAN
  /\ deferred => cooldown # Off
  /\ leftover \in 0..MaxLeftover
  /\ age \in -1..Horizon /\ quiet \in 0..MaxQuiet /\ steady \in -1..Horizon

EffectiveInterval == EffectivePollInterval(override)

(* A device that stays in range while its timer runs waits for its next    *)
(* poll for less than two intervals (and the time since its last           *)
(* advertisement), or for the cooldown if that is longer: a tick that      *)
(* comes too early is made good by the next one.                           *)
PolledWithinTwo ==
  gatt /\ timer # Off /\ ~polling /\ steady > EffectiveInterval =>
    /\ age # Never
    /\ age < 2 * EffectiveInterval + MaxQuiet \/ age <= Cooldown

(* Whichever of timer, advertisement and cooldown starts it: no poll of a  *)
(* device set up earlier comes before the interval has passed.             *)
PollsSpaced ==
  [][~polling /\ polling' /\ age' # Never => age >= EffectiveInterval]_timerVars

PollsUnderWay == leftover + (IF polling THEN 1 ELSE 0)

(* Once GATT is disabled no poll begins: not by the timer, by an           *)
(* advertisement, by the forced first poll (which asks nobody whether it   *)
(* is needed), nor by a call that was deferred while it was enabled.  What *)
(* is under way from before goes on.                                       *)
NoneBeginsDisabled ==
  [][~gatt' => PollsUnderWay' <= PollsUnderWay]_timerVars

=============================================================================
