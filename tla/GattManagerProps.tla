-------------------------- MODULE GattManagerProps --------------------------
(***************************************************************************)
(* What the GATT manager guarantees.                                       *)
(***************************************************************************)
EXTENDS GattManager

(* Every variable has its type; an idle task has no address, and only      *)
(* tasks that exist can be told to stop, tracked or awaited.               *)
TypeOK ==
  /\ free \in 0..MaxConcurrent /\ waiters \in Seq(Jobs)
  /\ pc \in [Jobs -> PCs]
  /\ target \in [Probes -> Addrs \cup {NoAddr}]
  /\ \A t \in Probes : pc[t] # "idle" => target[t] \in Addrs
  /\ outcome \in [Jobs -> Outcomes]
  /\ cancelReq \subseteq Probes
  /\ pending \subseteq Addrs /\ probeTasks \in [Addrs -> Probes \cup {NoTask}]
  /\ result \in [Addrs -> Results] /\ failures \in [Addrs -> 0..MaxRetries]
  /\ lastError \subseteq Addrs /\ initialCache \subseteq Addrs
  /\ confirmed \subseteq Addrs
  /\ phase \in {"running", "stopping", "stopped"} /\ awaited \subseteq Probes

(* The semaphore never leaks a slot nor mints one: whatever is cancelled,  *)
(* timed out or preempted, and wherever it was suspended, the free slots   *)
(* and the jobs that own one add up to max_concurrent_probes.              *)
SlotConservation == free + Cardinality(Holders) = MaxConcurrent

(* No wake-up is lost: while a slot is free, a job in line has somebody    *)
(* ahead who was woken, has not run yet, and will wake it.                 *)
NoLostWakeup ==
  free > 0 => \A i \in DOMAIN waiters :
                Waiting(i) => \E k \in 1..(i - 1) : pc[waiters[k]] = "granted"

(* The futures in the semaphore's queue are those of the jobs suspended in *)
(* acquire(), each once.                                                   *)
LineIsSuspended ==
  /\ \A i, k \in DOMAIN waiters : waiters[i] = waiters[k] => i = k
  /\ \A j \in Jobs : pc[j] \in {"queued", "granted"}
                       <=> \E i \in DOMAIN waiters : waiters[i] = j

(* An address in pending_probes, which blocks every further probe of it,   *)
(* always has a task at work that will take it out again.                  *)
PendingIsTracked ==
  \A a \in pending : /\ probeTasks[a] # NoTask
                     /\ target[probeTasks[a]] = a
                     /\ Working(probeTasks[a])

(* A probe that was told to stop never reports to the coordinator, even    *)
(* when its own deadline passes at the same moment: it ends without        *)
(* reaching the callbacks and the delay behind them.                       *)
CancelledNeverReports ==
  [][\A t \in Probes :
       (t \in cancelReq \/ outcome[t] = "cancelled") /\ pc[t] # "cooldown"
         => pc'[t] # "cooldown"]_vars

(* Task u runs the finally block of async_probe_and_setup.                 *)
RunsFinally(u) == \/ pc[u] \in {"granted", "closing"} /\ pc'[u] = "cooldown"
                  \/ pc[u] = "closing" /\ pc'[u] = "idle"

(* A probe at work keeps its place in _probe_tasks, where remove_device, a *)
(* poll's preemption and async_stop reach it, until it is told to stop or  *)
(* has finished.  Only the finally block of another task of its address    *)
(* takes it out of reach (gatt_manager.py:477).                            *)
ReachableUntilStopped ==
  [][\A t \in Probes, a \in Addrs :
       probeTasks[a] = t /\ Working(t) /\ probeTasks'[a] # t =>
         \/ ~Working(t)'
         \/ \E u \in Probes \ {t} : target[u] = a /\ RunsFinally(u)]_vars

-----------------------------------------------------------------------------
(* The semaphore with its queue of futures implements the slot pool: in    *)
(* line are those who still wait, in the order of the queue.               *)
PlacesInLine == {i \in DOMAIN waiters : Waiting(i)}
LineOrder ==
  {<<waiters[p[1]], waiters[p[2]]>> :
     p \in {q \in PlacesInLine \X PlacesInLine : q[1] <= q[2]}}

Pool == INSTANCE SlotPool WITH
          Capacity <- MaxConcurrent, holders <- Holders, line <- LineOrder
PoolImplemented == Pool!PoolSpec

(* Every suspended task is resumed: connects, reads and disconnects end or *)
(* fail, the deadline of a probe passes at the latest, sleeps end, and a   *)
(* cancellation is delivered.                                              *)
Fairness ==
  /\ \A t \in Probes : WF_vars(ProbeStep(t) \/ ProbeTimeout(t))
  /\ \A p \in Polls : WF_vars(PollStep(p))
  /\ WF_vars(StopReturns)

FairSpec == Spec /\ Fairness

(* A poll of a confirmed device gets through, however many discovery       *)
(* probes come and go.                                                     *)
PollServed == \A p \in Polls : pc[p] = "queued" ~> pc[p] = "idle"

(* An address does not stay blocked in pending_probes.                     *)
PendingClears == \A a \in Addrs : a \in pending ~> a \notin pending

(* async_stop returns.                                                     *)
StopTerminates == phase = "stopping" ~> phase = "stopped"
=============================================================================
