---------------------------- MODULE GattManager ----------------------------
(***************************************************************************)
(* The GATT manager (gatt_manager.py): discovery probes and device polls   *)
(* that share one asyncio.Semaphore of BLE connection slots.               *)
(*                                                                         *)
(* A JOB is an asyncio task that runs one of the manager's coroutines.     *)
(* A member of Probes is one task of async_probe_and_setup, a member of    *)
(* Polls one of async_poll_gatt_with_semaphore for the device PollOf names.*)
(* The framework runs the polls of one poll coordinator one at a time, but *)
(* an entry that is reloaded gets another coordinator, and the poll of the *)
(* old one goes on: two polls of a device may overlap.  A step of this     *)
(* module is what the event loop runs between two awaits.                  *)
(***************************************************************************)
EXTENDS Integers, FiniteSets, SequencesExt

CONSTANTS
  Addrs,          \* device addresses
  Probes,         \* identities of probe tasks, reused once a task has ended
  Polls,          \* identities of polls, likewise
  PollOf,         \* the address of each
  NoTask,         \* "no entry" in the task table
  NoAddr,         \* the address of a task that does not exist
  MaxConcurrent,  \* max_concurrent_probes: the slots of the semaphore
  MaxRetries      \* max_probe_retries

ASSUME AddrsAssumption   == IsFiniteSet(Addrs)
ASSUME ProbesAssumption  == IsFiniteSet(Probes) /\ Probes \cap Polls = {}
ASSUME PollsAssumption   == IsFiniteSet(Polls) /\ PollOf \in [Polls -> Addrs]
ASSUME NoTaskAssumption  == NoTask \notin Probes /\ NoAddr \notin Addrs
ASSUME SlotsAssumption   == MaxConcurrent \in Nat \ {0}
ASSUME RetriesAssumption == MaxRetries \in Nat \ {0}

Jobs == Probes \cup Polls

VARIABLES
  free,          \* Semaphore._value
  waiters,       \* Semaphore._waiters, FIFO
  pc,            \* where each job is suspended
  target,        \* the address a probe task was created for
  outcome,       \* what a job that is disconnecting will report
  cancelReq,     \* tasks cancelled, CancelledError not yet delivered
  pending,       \* pending_probes
  probeTasks,    \* _probe_tasks; a finished task reads like no entry
  result,        \* probe_results: none, or has_support() true or false
  failures,      \* probe_failures, counted up to MaxRetries
  lastError,     \* keys of _last_probe_error
  initialCache,  \* keys of _initial_gatt_cache
  confirmed,     \* addresses with a config entry
  phase,         \* async_stop not called, awaiting tasks, returned
  awaited        \* the tasks async_stop gathers

poolVars  == <<free, waiters>>
cacheVars == <<result, failures, lastError, initialCache>>
trackVars == <<pending, probeTasks>>
stopVars  == <<phase, awaited>>
vars == <<poolVars, pc, target, outcome, cancelReq, trackVars, cacheVars,
          confirmed, stopVars>>

Results  == {"none", "support", "nosupport"}
Outcomes == {"none", "support", "nosupport", "fail", "timeout", "cancelled"}
HoldingPC == {"granted", "connecting", "reading", "closing", "cooldown",
              "polling"}
PCs == HoldingPC \cup {"idle", "queued"}

(* The jobs a semaphore slot is accounted to.  A waiter that was woken     *)
(* owns its slot from the release on, before it runs.                      *)
Holders == {j \in Jobs : pc[j] \in HoldingPC}

(* A probe that has not run its finally block and was not told to stop.    *)
Working(t) == /\ pc[t] \in {"queued", "granted", "connecting", "reading",
                            "closing"}
              /\ t \notin cancelReq
              /\ outcome[t] # "cancelled"

AddressOf(j) == IF j \in Polls THEN PollOf[j] ELSE target[j]

-----------------------------------------------------------------------------
(* asyncio.Semaphore.                                                      *)

(* A waiter whose future is still unresolved.                              *)
Waiting(i) == pc[waiters[i]] = "queued" /\ waiters[i] \notin cancelReq

(* The waiters that n wake-ups reach, oldest first.                        *)
Woken(n) ==
  {waiters[i] : i \in {k \in DOMAIN waiters :
     Waiting(k) /\ Cardinality({h \in 1..(k - 1) : Waiting(h)}) < n}}

(* locked(): no value left, or a waiter that was not cancelled.  cr is the *)
(* set of tasks already told to stop when the question is asked.           *)
Locked(cr) == \/ free = 0
              \/ \E i \in DOMAIN waiters :
                   ~(pc[waiters[i]] = "queued" /\ waiters[i] \in cr)

(* Job j moves to where and n wake-ups are handed out of value slots.      *)
MoveAndWake(j, where, value, n) ==
  /\ pc' = [k \in Jobs |-> IF k = j THEN where
                           ELSE IF k \in Woken(n) THEN "granted" ELSE pc[k]]
  /\ free' = value - Cardinality(Woken(n))

(* release() by a job that ends: one wake-up.                              *)
EndAndRelease(j) == MoveAndWake(j, "idle", free + 1, 1)

(* Mutant: whoever leaves the line pops its head.                          *)
LeaveLineAtHead(j) == waiters # <<>> /\ waiters' = Tail(waiters)

(* Job j, resumed inside acquire(), takes its future off the queue and     *)
(* wakes as many as the value allows: waiters may have come while j had    *)
(* been woken and had not run.                                             *)
LeaveLine(j) ==
  \E i \in DOMAIN waiters :
    waiters[i] = j /\ waiters' = RemoveAt(waiters, i)

(* Mutant: and wakes nobody.                                               *)
ResumeWithoutWaking(j, where) == LeaveLine(j) /\ MoveAndWake(j, where, free, 0)

Resume(j, where) == LeaveLine(j) /\ MoveAndWake(j, where, free, free)

(* The same when the slot that j was handed goes straight back.            *)
ResumeAndRelease(j) ==
  LeaveLine(j) /\ MoveAndWake(j, "idle", free + 1, free + 1)

(* Acquire when the semaphore is not locked, and when it is.               *)
TakeSlot(j, where) ==
  /\ free' = free - 1
  /\ pc' = [pc EXCEPT ![j] = where]
  /\ UNCHANGED waiters

JoinLine(j) ==
  /\ pc' = [pc EXCEPT ![j] = "queued"]
  /\ waiters' = Append(waiters, j)
  /\ UNCHANGED free

-----------------------------------------------------------------------------
(* Pieces of handlers.                                                     *)

(* One failed attempt is counted and remembered.                           *)
RecordFailure(a) ==
  /\ failures' = [failures EXCEPT ![a] = IF @ < MaxRetries THEN @ + 1 ELSE @]
  /\ lastError' = lastError \cup {a}

(* The task is done: a gather stops waiting for it.                        *)
TaskEnds(t) ==
  /\ awaited' = awaited \ {t}
  /\ target' = [target EXCEPT ![t] = NoAddr]

(* Mutant: the finally block forgets pending_probes.                       *)
UntrackTaskOnly(t) ==
  /\ pending' = pending
  /\ probeTasks' = [probeTasks EXCEPT ![target[t]] = NoTask]

(* The finally block of async_probe_and_setup: by address, whichever task  *)
(* the table names by now.                                                 *)
Untrack(t) ==
  /\ pending' = pending \ {target[t]}
  /\ probeTasks' = [probeTasks EXCEPT ![target[t]] = NoTask]

Unconfirmed == Addrs \ confirmed
TasksOf(S) == {probeTasks[a] : a \in S} \ {NoTask}

(* _max_concurrent_unconfirmed_probes *)
UnconfirmedProbeCap ==
  IF confirmed = {} THEN MaxConcurrent ELSE MaxConcurrent - 1

(* Mutant: one probe fewer than the cap allows.                            *)
MayScheduleOffByOne(a) ==
  /\ result[a] = "none" /\ a \notin pending
  /\ pending \cap confirmed = {}
  /\ Cardinality(pending \ confirmed) + 1 < UnconfirmedProbeCap

(* The guards of schedule_probe.                                           *)
MaySchedule(a) ==
  /\ result[a] = "none" /\ a \notin pending
  /\ pending \cap confirmed = {}
  /\ Cardinality(pending \ confirmed) < UnconfirmedProbeCap

ProbeExhausted(a) == failures[a] >= MaxRetries

(* Mutant: remove_device forgets pending_probes.                           *)
ForgetDevicesKeepsPending(S) ==
  /\ result' = [a \in Addrs |-> IF a \in S THEN "none" ELSE result[a]]
  /\ failures' = [a \in Addrs |-> IF a \in S THEN 0 ELSE failures[a]]
  /\ initialCache' = initialCache \ S
  /\ lastError' = lastError \ S
  /\ probeTasks' = [a \in Addrs |-> IF a \in S THEN NoTask ELSE probeTasks[a]]
  /\ cancelReq' = cancelReq \cup TasksOf(S)
  /\ UNCHANGED <<poolVars, pc, target, outcome, pending, confirmed, stopVars>>

(* remove_device, for each address of S.                                   *)
ForgetDevices(S) ==
  /\ result' = [a \in Addrs |-> IF a \in S THEN "none" ELSE result[a]]
  /\ failures' = [a \in Addrs |-> IF a \in S THEN 0 ELSE failures[a]]
  /\ pending' = pending \ S
  /\ initialCache' = initialCache \ S
  /\ lastError' = lastError \ S
  /\ probeTasks' = [a \in Addrs |-> IF a \in S THEN NoTask ELSE probeTasks[a]]
  /\ cancelReq' = cancelReq \cup TasksOf(S)
  /\ UNCHANGED <<poolVars, pc, target, outcome, confirmed, stopVars>>

-----------------------------------------------------------------------------
(* Discovery probes.                                                       *)

(* schedule_probe and _create_probe_task.  The task is started eagerly: it *)
(* runs to its first await, inside acquire() or inside connect(), before   *)
(* the table learns of it.  A connect that raises before its first await   *)
(* has run the finally block by then, and the table keeps a task that only *)
(* sleeps.                                                                 *)
ScheduleProbe(t, a) ==
  /\ pc[t] = "idle" /\ a \notin confirmed
  /\ MaySchedule(a)
  /\ \/ /\ ~Locked(cancelReq) /\ TakeSlot(t, "connecting")
        /\ lastError' = lastError \ {a}
     \/ /\ Locked(cancelReq) /\ JoinLine(t)
        /\ UNCHANGED lastError
  /\ target' = [target EXCEPT ![t] = a]
  /\ pending' = pending \cup {a}
  /\ probeTasks' = [probeTasks EXCEPT ![a] = t]
  /\ UNCHANGED <<outcome, cancelReq, result, failures, initialCache,
                 confirmed, stopVars>>

ScheduleProbeFailsAtOnce(t, a) ==
  /\ pc[t] = "idle" /\ a \notin confirmed
  /\ MaySchedule(a)
  /\ ~Locked(cancelReq) /\ TakeSlot(t, "cooldown")
  /\ RecordFailure(a)
  /\ target' = [target EXCEPT ![t] = a]
  /\ probeTasks' = [probeTasks EXCEPT ![a] = t]
  /\ UNCHANGED <<outcome, cancelReq, pending, result, initialCache,
                 confirmed, stopVars>>

(* A woken probe enters async_probe_device with no cached result.          *)
ProbeStarts(t) ==
  /\ pc[t] = "granted" /\ t \notin cancelReq
  /\ result[target[t]] = "none"
  /\ Resume(t, "connecting")
  /\ lastError' = lastError \ {target[t]}
  /\ UNCHANGED <<target, outcome, cancelReq, trackVars, result,
                 failures, initialCache, confirmed, stopVars>>

(* async_probe_device, for a probe or for the poll of an unprobed device.  *)
ConnectSucceeds(j) ==
  /\ pc[j] = "connecting" /\ j \notin cancelReq
  /\ \/ /\ pc' = [pc EXCEPT ![j] = "reading"]
        /\ result' = [result EXCEPT ![AddressOf(j)] = "support"]
        /\ UNCHANGED outcome
     \/ /\ pc' = [pc EXCEPT ![j] = "closing"]
        /\ result' = [result EXCEPT ![AddressOf(j)] = "nosupport"]
        /\ outcome' = [outcome EXCEPT ![j] = "nosupport"]
  /\ UNCHANGED <<poolVars, target, cancelReq, trackVars, failures, lastError,
                 initialCache, confirmed, stopVars>>

ConnectFails(j) ==
  /\ pc[j] = "connecting" /\ j \notin cancelReq
  /\ pc' = [pc EXCEPT ![j] = "closing"]
  /\ outcome' = [outcome EXCEPT ![j] = "fail"]
  /\ RecordFailure(AddressOf(j))
  /\ UNCHANGED <<poolVars, target, cancelReq, trackVars, result,
                 initialCache, confirmed, stopVars>>

(* The characteristics are read while connected; the update is kept for    *)
(* the first poll unless every read came back empty.                       *)
ReadDone(j) ==
  /\ pc[j] = "reading" /\ j \notin cancelReq
  /\ pc' = [pc EXCEPT ![j] = "closing"]
  /\ outcome' = [outcome EXCEPT ![j] = "support"]
  /\ initialCache' \in {initialCache, initialCache \cup {AddressOf(j)}}
  /\ UNCHANGED <<poolVars, target, cancelReq, trackVars, result, failures,
                 lastError, confirmed, stopVars>>

(* wait_for's deadline passes while the probe is connecting or reading:    *)
(* it unwinds through the disconnect.                                      *)
TimeoutFires(t) ==
  /\ pc[t] \in {"connecting", "reading"} /\ t \notin cancelReq
  /\ pc' = [pc EXCEPT ![t] = "closing"]
  /\ outcome' = [outcome EXCEPT ![t] = "timeout"]
  /\ UNCHANGED <<poolVars, target, cancelReq, trackVars, cacheVars,
                 confirmed, stopVars>>

(* The tail of async_probe_and_setup: one callback, the finally block and  *)
(* the delay that still holds the slot.                                    *)
Settle(t) ==
  /\ outcome' = [outcome EXCEPT ![t] = "none"]
  /\ Untrack(t)
  /\ UNCHANGED <<target, cancelReq, result, initialCache, confirmed,
                 stopVars>>

(* Mutant: the slot is released before the delay, and after it.            *)
CloseAndRelease(t) ==
  /\ pc[t] = "closing" /\ t \notin cancelReq
  /\ MoveAndWake(t, "cooldown", free + 1, 1) /\ UNCHANGED waiters

(* Mutant: a cancellation that arrives in the disconnect is swallowed.     *)
CloseThoughCancelled(t) ==
  /\ pc[t] = "closing"
  /\ pc' = [pc EXCEPT ![t] = "cooldown"] /\ UNCHANGED poolVars

(* The connection was open: nothing happens to the line.                   *)
CloseAndCool(t) ==
  /\ pc[t] = "closing" /\ t \notin cancelReq
  /\ pc' = [pc EXCEPT ![t] = "cooldown"] /\ UNCHANGED poolVars

(* The result o of async_probe_device is at hand: a closed connection, or  *)
(* a woken probe that finds the address already probed.                    *)
Returned(t, o) ==
  \/ outcome[t] = o /\ CloseAndCool(t)
  \/ /\ pc[t] = "granted" /\ t \notin cancelReq
     /\ result[target[t]] = o /\ Resume(t, "cooldown")

(* on_probe_success is called.                                             *)
ProbeSupported(t) ==
  /\ Returned(t, "support")
  /\ lastError' = lastError \ {target[t]}
  /\ Settle(t) /\ UNCHANGED failures

(* on_probe_failure is called: an error is on record for the address, or   *)
(* the deadline passed, now in the disconnect or before it.                *)
ProbeErrored(t) ==
  /\ \E o \in {"fail", "nosupport"} : Returned(t, o)
  /\ target[t] \in lastError
  /\ Settle(t) /\ UNCHANGED <<failures, lastError>>

ProbeTimedOut(t) ==
  /\ CloseAndCool(t) /\ outcome[t] # "cancelled"
  /\ RecordFailure(target[t])
  /\ Settle(t)

(* No parseable characteristic: a log line and no callback.                *)
ProbeUnsupported(t) ==
  /\ \E o \in {"fail", "nosupport"} : Returned(t, o)
  /\ target[t] \notin lastError
  /\ Settle(t) /\ UNCHANGED <<failures, lastError>>

CooldownDone(t) ==
  /\ pc[t] = "cooldown" /\ t \notin cancelReq
  /\ EndAndRelease(t) /\ TaskEnds(t)
  /\ probeTasks' = [a \in Addrs |->
                      IF probeTasks[a] = t THEN NoTask ELSE probeTasks[a]]
  /\ UNCHANGED <<waiters, outcome, cancelReq, pending, cacheVars,
                 confirmed, phase>>

-----------------------------------------------------------------------------
(* Cancellation of a probe task, delivered where the task is suspended.    *)

(* In acquire(): the finally block of the probe is not entered.  A slot    *)
(* already handed to the task goes to the next in line.                    *)
CancelledInLine(t) ==
  /\ t \in cancelReq
  /\ \/ pc[t] = "granted" /\ ResumeAndRelease(t)
     \/ pc[t] = "queued" /\ Resume(t, "idle")
  /\ cancelReq' = cancelReq \ {t}
  /\ TaskEnds(t)
  /\ UNCHANGED <<outcome, trackVars, cacheVars, confirmed, phase>>

(* While connected: the disconnect is awaited first.                       *)
CancelledConnected(t) ==
  /\ t \in cancelReq /\ pc[t] \in {"connecting", "reading"}
  /\ pc' = [pc EXCEPT ![t] = "closing"]
  /\ outcome' = [outcome EXCEPT ![t] = "cancelled"]
  /\ cancelReq' = cancelReq \ {t}
  /\ UNCHANGED <<poolVars, target, trackVars, cacheVars, confirmed, stopVars>>

(* Mutant: a disconnect that is shielded from cancellation never ends.     *)
CancelledShielded(t) ==
  /\ pc[t] = "closing" /\ outcome[t] = "cancelled"
  /\ EndAndRelease(t) /\ UNCHANGED waiters
  /\ outcome' = [outcome EXCEPT ![t] = "none"]
  /\ cancelReq' = cancelReq \ {t}
  /\ Untrack(t) /\ TaskEnds(t)
  /\ UNCHANGED <<cacheVars, confirmed, phase>>

(* Out of the disconnect, finished or itself cancelled: the finally block  *)
(* runs, then the slot is released without the delay.                      *)
CancelledUnwinds(t) ==
  /\ pc[t] = "closing"
  /\ t \in cancelReq \/ outcome[t] = "cancelled"
  /\ EndAndRelease(t) /\ UNCHANGED waiters
  /\ outcome' = [outcome EXCEPT ![t] = "none"]
  /\ cancelReq' = cancelReq \ {t}
  /\ Untrack(t) /\ TaskEnds(t)
  /\ UNCHANGED <<cacheVars, confirmed, phase>>

(* Mutant: the slot is released at the end, not by leaving async with.     *)
CancelledKeepsSlot(t) ==
  /\ t \in cancelReq /\ pc[t] = "cooldown"
  /\ pc' = [pc EXCEPT ![t] = "idle"] /\ UNCHANGED poolVars
  /\ cancelReq' = cancelReq \ {t}
  /\ TaskEnds(t)
  /\ UNCHANGED <<outcome, trackVars, cacheVars, confirmed, phase>>

CancelledInCooldown(t) ==
  /\ t \in cancelReq /\ pc[t] = "cooldown"
  /\ EndAndRelease(t) /\ UNCHANGED waiters
  /\ cancelReq' = cancelReq \ {t}
  /\ TaskEnds(t)
  /\ UNCHANGED <<outcome, trackVars, cacheVars, confirmed, phase>>

-----------------------------------------------------------------------------
(* Polls: async_poll_gatt_with_semaphore for a confirmed device.           *)

(* What a poll that owns a slot does next, given what is cached.           *)
PollWork(a) ==
  CASE result[a] = "none"      -> "connecting"
    [] result[a] = "support"   -> "polling"
    [] result[a] = "nosupport" -> "idle"

(* Both poll entries that reach async_probe_device drop the last error.    *)
ErrorAfterPollStart(a) ==
  IF result[a] = "none" THEN lastError \ {a} ELSE lastError

PollFromCache(p) ==
  LET a == PollOf[p]
  IN  /\ pc[p] = "idle" /\ a \in confirmed /\ a \in initialCache
      /\ initialCache' = initialCache \ {a}
      /\ UNCHANGED <<poolVars, pc, target, outcome, cancelReq, trackVars,
                     result, failures, lastError, confirmed, stopVars>>

(* Mutant: the probes are taken off the table and go on.                   *)
PreemptUncancelled ==
  /\ UNCHANGED cancelReq
  /\ pending' = pending \ {a \in Unconfirmed : probeTasks[a] # NoTask}
  /\ probeTasks' = [a \in Addrs |->
                      IF a \in Unconfirmed THEN NoTask ELSE probeTasks[a]]

(* _prioritize_confirmed_gatt, then acquire().                             *)
Preempt ==
  /\ cancelReq' = cancelReq \cup TasksOf(Unconfirmed)
  /\ pending' = pending \ {a \in Unconfirmed : probeTasks[a] # NoTask}
  /\ probeTasks' = [a \in Addrs |->
                      IF a \in Unconfirmed THEN NoTask ELSE probeTasks[a]]

PollStarts(p) ==
  LET a == PollOf[p]
  IN  /\ pc[p] = "idle" /\ a \in confirmed /\ a \notin initialCache
      /\ Preempt
      /\ IF Locked(cancelReq')
         THEN JoinLine(p) /\ UNCHANGED lastError
         ELSE /\ lastError' = ErrorAfterPollStart(a)
              /\ IF PollWork(a) = "idle" THEN UNCHANGED <<poolVars, pc>>
                                         ELSE TakeSlot(p, PollWork(a))
      /\ UNCHANGED <<target, outcome, result, failures, initialCache,
                     confirmed, stopVars>>

PollResumes(p) ==
  LET a == PollOf[p]
  IN  /\ pc[p] = "granted"
      /\ lastError' = ErrorAfterPollStart(a)
      /\ IF PollWork(a) = "idle" THEN ResumeAndRelease(p)
                                 ELSE Resume(p, PollWork(a))
      /\ UNCHANGED <<target, outcome, cancelReq, trackVars, result, failures,
                     initialCache, confirmed, stopVars>>

(* The probe inside a poll has disconnected.  It goes on to a second       *)
(* connection only if it found support, read nothing and is still cached.  *)
PollProbeDone(p) ==
  LET a == PollOf[p]
  IN  /\ pc[p] = "closing"
      /\ outcome' = [outcome EXCEPT ![p] = "none"]
      /\ IF /\ outcome[p] = "support"
            /\ a \notin initialCache /\ result[a] = "support"
         THEN pc' = [pc EXCEPT ![p] = "polling"] /\ UNCHANGED free
         ELSE EndAndRelease(p)
      /\ initialCache' = IF outcome[p] = "support" THEN initialCache \ {a}
                                                   ELSE initialCache
      /\ UNCHANGED <<waiters, target, cancelReq, trackVars, result, failures,
                     lastError, confirmed, stopVars>>

PollReadDone(p) ==
  /\ pc[p] = "polling"
  /\ EndAndRelease(p)
  /\ UNCHANGED <<waiters, target, outcome, cancelReq, trackVars, cacheVars,
                 confirmed, stopVars>>

-----------------------------------------------------------------------------
(* Calls from the coordinator, and config entries coming and going.        *)

EntryAdded(a) ==
  /\ a \notin confirmed /\ confirmed' = confirmed \cup {a}
  /\ UNCHANGED <<poolVars, pc, target, outcome, cancelReq, trackVars,
                 cacheVars, stopVars>>

EntryRemoved(a) ==
  /\ a \in confirmed /\ confirmed' = confirmed \ {a}
  /\ UNCHANGED <<poolVars, pc, target, outcome, cancelReq, trackVars,
                 cacheVars, stopVars>>

(* async_stop up to its gather, or to its end when the table is empty, and *)
(* the return of the gather.  A finished task that failed before the table *)
(* learned of it may still stand there, and makes the gather await.        *)
StopBegins ==
  /\ phase = "running"
  /\ awaited' = TasksOf(Addrs)
  /\ \/ phase' = "stopping" /\ (awaited' # {} \/ \E a \in Addrs : failures[a] > 0)
     \/ phase' = "stopped" /\ awaited' = {}
  /\ cancelReq' = cancelReq \cup TasksOf(Addrs)
  /\ pending' = {} /\ probeTasks' = [a \in Addrs |-> NoTask]
  /\ UNCHANGED <<poolVars, pc, target, outcome, cacheVars, confirmed>>

StopReturns ==
  /\ phase = "stopping" /\ awaited = {} /\ phase' = "stopped"
  /\ UNCHANGED <<poolVars, pc, target, outcome, cancelReq, trackVars,
                 cacheVars, confirmed, awaited>>

-----------------------------------------------------------------------------
Init ==
  /\ free = MaxConcurrent /\ waiters = <<>>
  /\ pc = [j \in Jobs |-> "idle"]
  /\ target = [t \in Probes |-> NoAddr]
  /\ outcome = [j \in Jobs |-> "none"]
  /\ cancelReq = {}
  /\ pending = {} /\ probeTasks = [a \in Addrs |-> NoTask]
  /\ result = [a \in Addrs |-> "none"]
  /\ failures = [a \in Addrs |-> 0]
  /\ lastError = {} /\ initialCache = {}
  /\ confirmed \in SUBSET Addrs
  /\ phase = "running" /\ awaited = {}

ProbeStep(t) ==
  \/ ProbeStarts(t) \/ ConnectSucceeds(t) \/ ConnectFails(t) \/ ReadDone(t)
  \/ ProbeSupported(t) \/ ProbeErrored(t) \/ ProbeUnsupported(t)
  \/ CooldownDone(t)
  \/ CancelledInLine(t) \/ CancelledConnected(t) \/ CancelledUnwinds(t)
  \/ CancelledInCooldown(t)

ProbeTimeout(t) == TimeoutFires(t) \/ ProbeTimedOut(t)

PollBegins(p) == PollFromCache(p) \/ PollStarts(p)

PollStep(p) ==
  \/ PollResumes(p) \/ ConnectSucceeds(p) \/ ConnectFails(p) \/ ReadDone(p)
  \/ PollProbeDone(p) \/ PollReadDone(p)

Environment(a) ==
  \/ \E t \in Probes : ScheduleProbe(t, a) \/ ScheduleProbeFailsAtOnce(t, a)
  \/ ForgetDevices({a}) \/ EntryAdded(a)

(* Everything but the removal of an entry.                                 *)
NextButRemoval ==
  \/ \E t \in Probes : ProbeStep(t) \/ ProbeTimeout(t)
  \/ \E p \in Polls : PollStep(p) \/ PollBegins(p)
  \/ \E a \in Addrs : Environment(a)
  \/ StopBegins \/ StopReturns

Next == NextButRemoval \/ \E a \in Addrs : EntryRemoved(a)

Spec == Init /\ [][Next]_vars

=============================================================================
