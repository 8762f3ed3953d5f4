--------------------------- MODULE GattTaskProofs ---------------------------
(***************************************************************************)
(* The bookkeeping of probe tasks: an address in pending_probes has a task *)
(* at work, and a task that was told to stop never reports, for every set  *)
(* of addresses and of tasks.                                              *)
(***************************************************************************)
EXTENDS GattManagerProofs

(* A task in the table probes the address it is listed under, has not      *)
(* ended and was not told to stop.                                         *)
TableOK ==
  \A a \in Addrs : probeTasks[a] # NoTask =>
    /\ target[probeTasks[a]] = a
    /\ pc[probeTasks[a]] # "idle" /\ probeTasks[a] \notin cancelReq

(* Only a task that exists is told to stop, and one that was stopped while *)
(* connected is in its disconnect.                                         *)
CancelsOK ==
  \A t \in Probes : /\ t \in cancelReq => pc[t] # "idle"
                    /\ outcome[t] = "cancelled" => pc[t] = "closing"

(* A task in the table that is at work keeps its address pending, so that  *)
(* no other is scheduled over it.                                          *)
ListedIsPending ==
  \A a \in Addrs :
    probeTasks[a] # NoTask /\ Working(probeTasks[a]) => a \in pending

Books == TableOK /\ CancelsOK /\ PendingIsTracked /\ ListedIsPending

BInv == IInv /\ Books

WorkPC == {"queued", "granted", "connecting", "reading", "closing"}

(* Jobs other than j stay where they are, or are handed a slot.            *)
OthersWait(j) ==
  \A k \in Jobs : k # j =>
    pc'[k] = pc[k] \/ (pc[k] = "queued" /\ pc'[k] = "granted")

-----------------------------------------------------------------------------
(* What the types say, in the form that is needed here.                    *)
LEMMA TaskTypes ==
  ASSUME IInv
  PROVE  /\ pc \in [Jobs -> PCs] /\ outcome \in [Jobs -> Outcomes]
         /\ target \in [Probes -> Addrs \cup {NoAddr}]
         /\ \A t \in Probes : pc[t] # "idle" => target[t] \in Addrs
         /\ probeTasks \in [Addrs -> Probes \cup {NoTask}]
         /\ pending \subseteq Addrs /\ cancelReq \subseteq Probes
         /\ confirmed \subseteq Addrs
         /\ waiters \in Seq(Jobs) /\ free \in Nat
  BY DEF IInv, PoolOK, RestOK

(* A move with its wake-ups.                                               *)
LEMMA Moved ==
  ASSUME IInv, NEW j \in Jobs, NEW where, NEW value, NEW n \in Nat,
         MoveAndWake(j, where, value, n)
  PROVE  pc'[j] = where /\ OthersWait(j)
<1>1. Woken(n) \subseteq {k \in Jobs : pc[k] = "queued" /\ k \notin cancelReq}
  BY WokenFacts, TaskTypes
<1> QED
  BY <1>1 DEF MoveAndWake, OthersWait

(* The moves of a job that takes or gives back a slot, or does neither.    *)
LEMMA Moves ==
  ASSUME IInv, NEW j \in Jobs, NEW where
  PROVE  /\ pc' = [pc EXCEPT ![j] = where] => pc'[j] = where /\ OthersWait(j)
         /\ Resume(j, where) => pc'[j] = where /\ OthersWait(j)
         /\ ResumeAndRelease(j) => pc'[j] = "idle" /\ OthersWait(j)
         /\ EndAndRelease(j) => pc'[j] = "idle" /\ OthersWait(j)
<1>1. free \in Nat /\ free + 1 \in Nat /\ 1 \in Nat /\ pc \in [Jobs -> PCs]
  BY TaskTypes
<1>2. pc' = [pc EXCEPT ![j] = where] => pc'[j] = where /\ OthersWait(j)
  BY <1>1 DEF OthersWait
<1>3. Resume(j, where) => pc'[j] = where /\ OthersWait(j)
  BY <1>1, Moved DEF Resume
<1>4. ResumeAndRelease(j) => pc'[j] = "idle" /\ OthersWait(j)
  BY <1>1, Moved DEF ResumeAndRelease
<1>5. EndAndRelease(j) => pc'[j] = "idle" /\ OthersWait(j)
  BY <1>1, Moved DEF EndAndRelease
<1> QED
  BY <1>2, <1>3, <1>4, <1>5

(* A probe or a poll goes on, with nobody told to stop.                    *)
LEMMA WorkGoesOn ==
  ASSUME BInv, NEW j \in Jobs, OthersWait(j), pc[j] # "idle",
         j \in Probes => /\ pc[j] \in WorkPC /\ pc'[j] \in WorkPC
                        /\ outcome[j] # "cancelled",
         \E o \in Outcomes \ {"cancelled"} : outcome' = [outcome EXCEPT ![j] = o],
         UNCHANGED <<target, cancelReq, trackVars>>
  PROVE  Books'
<1> USE TaskTypes, JobTypes, ProbesAssumption, NoTaskAssumption
    DEF BInv, Books, WorkPC
<1>1. TableOK'
  BY DEF TableOK, OthersWait, trackVars
<1>2. CancelsOK'
  BY DEF CancelsOK, OthersWait
<1>3. PendingIsTracked'
  BY DEF PendingIsTracked, Working, OthersWait, trackVars
<1>4. ListedIsPending'
  BY DEF TableOK, ListedIsPending, Working, OthersWait, trackVars
<1> QED
  BY <1>1, <1>2, <1>3, <1>4

(* A job that moves without any entry in the books changed.                *)
LEMMA PollMoves ==
  ASSUME BInv, NEW p \in Polls, OthersWait(p),
         \E o \in Outcomes : outcome' = [outcome EXCEPT ![p] = o],
         UNCHANGED <<target, cancelReq, trackVars>>
  PROVE  Books'
<1> USE TaskTypes, JobTypes, ProbesAssumption, NoTaskAssumption
    DEF BInv, Books
<1>1. TableOK'
  BY DEF TableOK, OthersWait, trackVars
<1>2. CancelsOK'
  BY DEF CancelsOK, OthersWait
<1>3. PendingIsTracked'
  BY DEF PendingIsTracked, Working, OthersWait, trackVars
<1>4. ListedIsPending'
  BY DEF TableOK, ListedIsPending, Working, OthersWait, trackVars
<1> QED
  BY <1>1, <1>2, <1>3, <1>4

(* The finally block of a probe: its address is out of the books.          *)
LEMMA ProbeSettles ==
  ASSUME BInv, NEW t \in Probes, OthersWait(t), pc[t] # "idle",
         pc'[t] = "cooldown", Settle(t)
  PROVE  Books'
<1> USE TaskTypes, JobTypes, NoTaskAssumption
    DEF BInv, Books, Settle, Untrack, Outcomes
<1>1. TableOK'
  BY DEF TableOK, OthersWait
<1>2. CancelsOK'
  BY DEF CancelsOK, OthersWait
<1>3. PendingIsTracked'
  BY DEF PendingIsTracked, Working, OthersWait
<1>4. ListedIsPending'
  BY DEF TableOK, ListedIsPending, Working, OthersWait
<1> QED
  BY <1>1, <1>2, <1>3, <1>4

(* A task that ends has left the table.                                    *)
LEMMA TaskLeaves ==
  ASSUME BInv, NEW t \in Probes, OthersWait(t), pc'[t] = "idle", TaskEnds(t),
         cancelReq' = cancelReq \ {t},
         outcome' = [outcome EXCEPT ![t] = "none"]
           \/ (UNCHANGED outcome /\ pc[t] # "closing"),
         pending' \subseteq pending,
         \A a \in pending \ pending' : probeTasks'[a] = NoTask,
         \A a \in pending' : probeTasks[a] # t /\ probeTasks'[a] = probeTasks[a],
         probeTasks' \in [Addrs -> Probes \cup {NoTask}],
         \A a \in Addrs : probeTasks'[a] \in {probeTasks[a], NoTask} \ {t}
  PROVE  Books'
<1> USE TaskTypes, JobTypes, NoTaskAssumption DEF BInv, Books, TaskEnds, Outcomes
<1>1. TableOK'
  BY DEF TableOK, OthersWait
<1>2. CancelsOK'
  BY DEF CancelsOK, OthersWait
<1>3. PendingIsTracked'
  BY DEF PendingIsTracked, Working, OthersWait
<1>4. ListedIsPending'
  BY DEF TableOK, ListedIsPending, Working, OthersWait
<1> QED
  BY <1>1, <1>2, <1>3, <1>4

-----------------------------------------------------------------------------
(* Every step keeps the books.                                             *)

(* The steps inside async_probe_device.                                    *)
LEMMA ProbeDeviceBooks ==
  ASSUME BInv, NEW j \in Jobs,
         ConnectSucceeds(j) \/ ConnectFails(j) \/ ReadDone(j)
  PROVE  Books'
<1> USE TaskTypes, Moves, JobTypes, ProbesAssumption DEF BInv, WorkPC, Outcomes
<1>1. /\ pc'[j] \in WorkPC /\ OthersWait(j) /\ pc[j] \in {"connecting", "reading"}
      /\ UNCHANGED <<target, cancelReq, trackVars>>
  BY DEF ConnectSucceeds, ConnectFails, ReadDone
<1>2. \/ UNCHANGED outcome
      \/ \E o \in Outcomes \ {"cancelled"} : outcome' = [outcome EXCEPT ![j] = o]
  BY DEF ConnectSucceeds, ConnectFails, ReadDone
<1>3. UNCHANGED outcome => outcome' = [outcome EXCEPT ![j] = outcome[j]]
  OBVIOUS
<1>4. CASE j \in Probes
  <2>1. outcome[j] # "cancelled" /\ outcome[j] \in Outcomes
    BY <1>1, <1>4 DEF Books, CancelsOK
  <2> QED BY <1>1, <1>2, <1>3, <1>4, <2>1, WorkGoesOn
<1>5. CASE j \in Polls
  <2>1. \E o \in Outcomes : outcome' = [outcome EXCEPT ![j] = o]
    BY <1>2, <1>3
  <2> QED BY <1>1, <1>5, <2>1, PollMoves
<1> QED
  BY <1>4, <1>5 DEF Jobs

(* The tail of a probe that reports, by whichever callback.                *)
LEMMA ReturnedMoves ==
  ASSUME BInv, NEW t \in Probes,
         CloseAndCool(t) \/ \E o \in Results : Returned(t, o)
  PROVE  /\ pc[t] \in {"closing", "granted"} /\ pc'[t] = "cooldown"
         /\ OthersWait(t) /\ t \notin cancelReq
<1> USE TaskTypes, Moves, JobTypes DEF BInv
<1>1. CASE CloseAndCool(t)
  BY <1>1 DEF CloseAndCool
<1>2. CASE pc[t] = "granted" /\ t \notin cancelReq /\ Resume(t, "cooldown")
  BY <1>2
<1> QED
  BY <1>1, <1>2 DEF Returned

LEMMA ReportBooks ==
  ASSUME BInv, NEW t \in Probes,
         \/ ProbeSupported(t) \/ ProbeErrored(t) \/ ProbeUnsupported(t)
         \/ ProbeTimedOut(t)
  PROVE  Books'
<1>1. Settle(t) /\ (CloseAndCool(t) \/ \E r \in Results : Returned(t, r)
                    \/ \E o \in {"fail", "nosupport"} : Returned(t, o))
  BY DEF ProbeSupported, ProbeErrored, ProbeUnsupported, ProbeTimedOut, Results
<1>2. /\ pc[t] \in {"closing", "granted"} /\ pc'[t] = "cooldown"
      /\ OthersWait(t)
  <2>1. CASE \E o \in {"fail", "nosupport"} : Returned(t, o)
    <3>1. PICK o \in {"fail", "nosupport"} : Returned(t, o)
      BY <2>1
    <3>2. CASE CloseAndCool(t)
      BY <3>2, ReturnedMoves
    <3>3. CASE result[target[t]] = o /\ pc[t] = "granted" /\ t \notin cancelReq
               /\ Resume(t, "cooldown")
      BY <3>3, Moves, JobTypes DEF BInv
    <3> QED BY <3>1, <3>2, <3>3 DEF Returned
  <2> QED BY <1>1, <2>1, ReturnedMoves
<1> QED
  BY <1>1, <1>2, ProbeSettles

(* A probe told to stop is in no row of the table.                         *)
LEMMA StoppedNotListed ==
  ASSUME BInv, NEW t \in cancelReq
  PROVE  \A a \in Addrs : probeTasks[a] # t
  BY NoTaskAssumption, TaskTypes DEF BInv, Books, TableOK

LEMMA CancelledBooks ==
  ASSUME BInv, NEW t \in Probes,
         \/ CancelledInLine(t) \/ CancelledConnected(t) \/ CancelledUnwinds(t)
         \/ CancelledInCooldown(t)
  PROVE  Books'
<1> USE TaskTypes, JobTypes, Moves, NoTaskAssumption DEF BInv
<1>1. CASE CancelledInLine(t)
  <2>1. \A a \in Addrs : probeTasks[a] # t
    BY <1>1, StoppedNotListed DEF CancelledInLine
  <2>2. /\ OthersWait(t) /\ pc'[t] = "idle" /\ TaskEnds(t)
        /\ cancelReq' = cancelReq \ {t} /\ pc[t] # "closing"
        /\ UNCHANGED <<outcome, pending, probeTasks>>
    BY <1>1 DEF CancelledInLine, trackVars
  <2> QED BY <2>1, <2>2, TaskLeaves
<1>2. CASE CancelledConnected(t)
  <2>1. \A a \in Addrs : probeTasks[a] # t
    BY <1>2, StoppedNotListed DEF CancelledConnected
  <2>2. /\ OthersWait(t) /\ pc'[t] = "closing" /\ pc[t] # "idle"
        /\ cancelReq' = cancelReq \ {t}
        /\ outcome' = [outcome EXCEPT ![t] = "cancelled"]
        /\ UNCHANGED <<target, pending, probeTasks>>
    BY <1>2 DEF CancelledConnected, trackVars
  <2>3. TableOK'
    BY <2>1, <2>2 DEF Books, TableOK, OthersWait
  <2>4. CancelsOK'
    BY <2>2 DEF Books, CancelsOK, OthersWait
  <2>5. PendingIsTracked'
    BY <2>1, <2>2 DEF Books, PendingIsTracked, Working, OthersWait
  <2>6. ListedIsPending'
    BY <2>1, <2>2 DEF Books, ListedIsPending, Working, OthersWait
  <2> QED BY <2>3, <2>4, <2>5, <2>6 DEF Books
<1>3. CASE CancelledUnwinds(t)
  <2>1. /\ OthersWait(t) /\ pc'[t] = "idle" /\ TaskEnds(t)
        /\ cancelReq' = cancelReq \ {t} /\ pc[t] = "closing"
        /\ outcome' = [outcome EXCEPT ![t] = "none"] /\ Untrack(t)
        /\ (t \in cancelReq \/ outcome[t] = "cancelled")
        /\ target[t] \in Addrs
    BY <1>3 DEF CancelledUnwinds
  <2>2. \A a \in Addrs : probeTasks[a] = t => a = target[t]
    BY DEF Books, TableOK
  <2>3. /\ pending' \subseteq pending
        /\ \A a \in pending \ pending' : probeTasks'[a] = NoTask
        /\ \A a \in pending' : probeTasks[a] # t /\ probeTasks'[a] = probeTasks[a]
        /\ probeTasks' \in [Addrs -> Probes \cup {NoTask}]
        /\ \A a \in Addrs : probeTasks'[a] \in {probeTasks[a], NoTask} \ {t}
    BY <2>1, <2>2 DEF Untrack
  <2> QED BY <2>1, <2>3, TaskLeaves
<1>4. CASE CancelledInCooldown(t)
  <2>1. \A a \in Addrs : probeTasks[a] # t
    BY <1>4, StoppedNotListed DEF CancelledInCooldown
  <2>2. /\ OthersWait(t) /\ pc'[t] = "idle" /\ TaskEnds(t)
        /\ cancelReq' = cancelReq \ {t} /\ pc[t] # "closing"
        /\ UNCHANGED <<outcome, pending, probeTasks>>
    BY <1>4 DEF CancelledInCooldown, trackVars
  <2> QED BY <2>1, <2>2, TaskLeaves
<1> QED
  BY <1>1, <1>2, <1>3, <1>4

(* The task of a pending address is at work, so one that has only the      *)
(* delay left is not listed for it.                                        *)
LEMMA CooldownBooks ==
  ASSUME BInv, NEW t \in Probes, CooldownDone(t)
  PROVE  Books'
<1> USE TaskTypes, JobTypes, Moves, NoTaskAssumption DEF BInv
<1>1. /\ OthersWait(t) /\ pc'[t] = "idle" /\ TaskEnds(t)
      /\ cancelReq' = cancelReq \ {t} /\ pc[t] = "cooldown"
      /\ UNCHANGED <<outcome, pending>>
      /\ probeTasks' = [a \in Addrs |->
                          IF probeTasks[a] = t THEN NoTask ELSE probeTasks[a]]
  BY DEF CooldownDone
<1>2. \A a \in pending : probeTasks[a] # t
  BY <1>1 DEF Books, PendingIsTracked, Working
<1>3. /\ \A a \in pending' : probeTasks[a] # t /\ probeTasks'[a] = probeTasks[a]
      /\ probeTasks' \in [Addrs -> Probes \cup {NoTask}]
      /\ \A a \in Addrs : probeTasks'[a] \in {probeTasks[a], NoTask} \ {t}
  BY <1>1, <1>2
<1> QED
  BY <1>1, <1>3, TaskLeaves

LEMMA ProbeStepBooks ==
  ASSUME BInv, NEW t \in Probes, ProbeStep(t) \/ ProbeTimeout(t)
  PROVE  Books'
<1> USE TaskTypes, JobTypes, Moves DEF BInv
<1>1. CASE ProbeStarts(t)
  <2>1. /\ OthersWait(t) /\ pc[t] = "granted" /\ pc'[t] \in WorkPC
        /\ UNCHANGED <<outcome, target, cancelReq, trackVars>>
    BY <1>1 DEF ProbeStarts, WorkPC
  <2>2. outcome[t] \in Outcomes \ {"cancelled"}
    BY <2>1 DEF Books, CancelsOK
  <2>3. outcome' = [outcome EXCEPT ![t] = outcome[t]]
    BY <2>1
  <2>4. \E o \in Outcomes \ {"cancelled"} : outcome' = [outcome EXCEPT ![t] = o]
    BY <2>2, <2>3
  <2>5. pc[t] \in WorkPC /\ outcome[t] # "cancelled" /\ pc[t] # "idle"
    BY <2>1, <2>2 DEF WorkPC
  <2> QED BY <2>1, <2>4, <2>5, WorkGoesOn
<1>2. CASE TimeoutFires(t)
  <2>1. /\ OthersWait(t) /\ pc[t] \in {"connecting", "reading"}
        /\ pc'[t] = "closing" /\ outcome' = [outcome EXCEPT ![t] = "timeout"]
        /\ UNCHANGED <<target, cancelReq, trackVars>>
    BY <1>2 DEF TimeoutFires
  <2>2. /\ pc[t] \in WorkPC /\ pc'[t] \in WorkPC /\ pc[t] # "idle"
        /\ outcome[t] # "cancelled"
    BY <2>1 DEF WorkPC, Books, CancelsOK
  <2>3. \E o \in Outcomes \ {"cancelled"} : outcome' = [outcome EXCEPT ![t] = o]
    BY <2>1 DEF Outcomes
  <2> QED BY <2>1, <2>2, <2>3, WorkGoesOn
<1>3. CASE ConnectSucceeds(t) \/ ConnectFails(t) \/ ReadDone(t)
  BY <1>3, ProbeDeviceBooks
<1>4. CASE \/ ProbeSupported(t) \/ ProbeErrored(t) \/ ProbeUnsupported(t)
           \/ ProbeTimedOut(t)
  BY <1>4, ReportBooks
<1>5. CASE CooldownDone(t)
  BY <1>5, CooldownBooks
<1>6. CASE \/ CancelledInLine(t) \/ CancelledConnected(t) \/ CancelledUnwinds(t)
           \/ CancelledInCooldown(t)
  BY <1>6, CancelledBooks
<1> QED
  BY <1>1, <1>2, <1>3, <1>4, <1>5, <1>6 DEF ProbeStep, ProbeTimeout

LEMMA PollStepBooks ==
  ASSUME BInv, NEW p \in Polls, PollStep(p)
  PROVE  Books'
<1> USE TaskTypes, JobTypes, Moves DEF BInv
<1>1. outcome' = outcome => outcome' = [outcome EXCEPT ![p] = outcome[p]]
  OBVIOUS
<1>2. outcome[p] \in Outcomes /\ "none" \in Outcomes
  BY DEF Outcomes
<1>3. CASE PollResumes(p)
  BY <1>1, <1>2, <1>3, PollMoves DEF PollResumes
<1>4. CASE ConnectSucceeds(p) \/ ConnectFails(p) \/ ReadDone(p)
  BY <1>4, ProbeDeviceBooks
<1>5. CASE PollProbeDone(p)
  <2>1. OthersWait(p)
    BY <1>5 DEF PollProbeDone
  <2> QED BY <1>2, <1>5, <2>1, PollMoves DEF PollProbeDone
<1>6. CASE PollReadDone(p)
  BY <1>1, <1>2, <1>6, PollMoves DEF PollReadDone
<1> QED
  BY <1>3, <1>4, <1>5, <1>6 DEF PollStep

(* Tasks are told to stop and their rows are cleared together.             *)
LEMMA TasksToldToStop ==
  ASSUME BInv, NEW S \in SUBSET Addrs,
         cancelReq' = cancelReq \cup TasksOf(S),
         probeTasks' = [a \in Addrs |-> IF a \in S THEN NoTask ELSE probeTasks[a]],
         pending' \subseteq pending, pending \ S \subseteq pending',
         \A a \in pending' \cap S : probeTasks[a] = NoTask,
         UNCHANGED <<target, outcome>>,
         \A t \in Probes : UNCHANGED pc[t]
  PROVE  Books'
<1> USE TaskTypes, NoTaskAssumption DEF BInv, Books
<1>1. \A a \in Addrs : probeTasks'[a] # NoTask
        => /\ probeTasks'[a] = probeTasks[a] /\ probeTasks[a] \in Probes
           /\ a \notin S
  OBVIOUS
(* A task is in the table once, under its own address.                     *)
<1>2. \A a \in Addrs : probeTasks'[a] # NoTask => probeTasks[a] \notin TasksOf(S)
  BY <1>1 DEF TableOK, TasksOf
<1>3. \A t \in cancelReq' : t \in Probes /\ pc'[t] # "idle"
  BY DEF TableOK, CancelsOK, TasksOf
<1>4. TableOK'
  BY <1>1, <1>2 DEF TableOK
<1>5. CancelsOK'
  BY <1>3 DEF CancelsOK
<1>6. \A a \in pending' : a \notin S
  BY DEF PendingIsTracked
<1>7. \A a \in pending' : /\ a \in Addrs /\ probeTasks'[a] = probeTasks[a]
                          /\ probeTasks[a] \in Probes
  BY <1>6 DEF PendingIsTracked
<1>8. PendingIsTracked'
  BY <1>2, <1>7 DEF PendingIsTracked, Working
<1>9. ListedIsPending'
  BY <1>1, <1>2 DEF ListedIsPending, Working
<1> QED
  BY <1>4, <1>5, <1>8, <1>9

(* An idle task is free to be listed for the address it probes.            *)
LEMMA ScheduleBooks ==
  ASSUME BInv, NEW t \in Probes, NEW a \in Addrs,
         ScheduleProbe(t, a) \/ ScheduleProbeFailsAtOnce(t, a)
  PROVE  Books'
<1> USE TaskTypes, JobTypes, NoTaskAssumption DEF BInv
<1>1. /\ pc[t] = "idle" /\ t \notin cancelReq /\ outcome[t] # "cancelled"
      /\ \A b \in Addrs : probeTasks[b] # t
  BY DEF ScheduleProbe, ScheduleProbeFailsAtOnce, Books, TableOK, CancelsOK
<1>2. /\ target' = [target EXCEPT ![t] = a]
      /\ probeTasks' = [probeTasks EXCEPT ![a] = t]
      /\ UNCHANGED <<outcome, cancelReq>>
  BY DEF ScheduleProbe, ScheduleProbeFailsAtOnce
<1>3. /\ \A k \in Jobs : k # t => pc'[k] = pc[k]
      /\ \/ pc'[t] \in WorkPC /\ pending' = pending \cup {a}
         \/ pc'[t] = "cooldown" /\ pending' = pending /\ a \notin pending
  BY DEF ScheduleProbe, ScheduleProbeFailsAtOnce, TakeSlot, JoinLine, WorkPC,
         MaySchedule
<1>4. TableOK'
  BY <1>1, <1>2, <1>3 DEF Books, TableOK, WorkPC
<1>5. CancelsOK'
  BY <1>1, <1>2, <1>3 DEF Books, CancelsOK
<1>6. PendingIsTracked'
  BY <1>1, <1>2, <1>3 DEF Books, PendingIsTracked, Working, WorkPC
<1>7. ListedIsPending'
  BY <1>1, <1>2, <1>3 DEF Books, ListedIsPending, Working, WorkPC
<1> QED
  BY <1>4, <1>5, <1>6, <1>7 DEF Books

(* Nothing in the books changes.                                           *)
LEMMA BooksUntouched ==
  ASSUME BInv, UNCHANGED <<target, outcome, cancelReq, trackVars>>,
         \A t \in Probes : pc'[t] = pc[t]
  PROVE  Books'
<1> USE TaskTypes, NoTaskAssumption DEF BInv, Books, trackVars
<1>1. TableOK'
  BY DEF TableOK
<1>2. CancelsOK'
  BY DEF CancelsOK
<1>3. PendingIsTracked'
  BY DEF PendingIsTracked, Working
<1>4. ListedIsPending'
  BY DEF ListedIsPending, Working
<1> QED
  BY <1>1, <1>2, <1>3, <1>4

LEMMA EnvironmentBooks ==
  ASSUME BInv, NEW a \in Addrs, Environment(a)
  PROVE  Books'
<1> USE TaskTypes, JobTypes, ProbesAssumption DEF BInv
<1>1. ASSUME NEW t \in Probes, ScheduleProbe(t, a) \/ ScheduleProbeFailsAtOnce(t, a)
      PROVE  Books'
  BY <1>1, ScheduleBooks
<1>2. CASE ForgetDevices({a})
  <2> DEFINE S == {a}
  <2>1. /\ cancelReq' = cancelReq \cup TasksOf(S)
        /\ probeTasks' = [b \in Addrs |-> IF b \in S THEN NoTask
                                                     ELSE probeTasks[b]]
        /\ pending' = pending \ S /\ UNCHANGED <<pc, target, outcome>>
    BY <1>2 DEF ForgetDevices
  <2>2. S \subseteq Addrs
    OBVIOUS
  <2> HIDE DEF S
  <2> QED BY <2>1, <2>2, TasksToldToStop
<1>3. CASE EntryAdded(a)
  BY <1>3, BooksUntouched DEF EntryAdded
<1> QED
  BY <1>1, <1>2, <1>3 DEF Environment

LEMMA PollBeginsBooks ==
  ASSUME BInv, NEW p \in Polls, PollBegins(p)
  PROVE  Books'
<1> USE TaskTypes, JobTypes DEF BInv
<1>1. CASE PollFromCache(p)
  BY <1>1, BooksUntouched DEF PollFromCache
<1>2. CASE PollStarts(p)
  <2>1. Preempt /\ UNCHANGED <<target, outcome>> /\ Unconfirmed \subseteq Addrs
    BY <1>2 DEF PollStarts, Unconfirmed
  <2>2. \A t \in Probes : pc'[t] = pc[t]
    BY <1>2 DEF PollStarts, TakeSlot, JoinLine, poolVars
  <2>3. /\ pending' \subseteq pending /\ pending \ Unconfirmed \subseteq pending'
        /\ \A b \in pending' \cap Unconfirmed : probeTasks[b] = NoTask
    BY <2>1 DEF Preempt
  <2> QED BY <2>1, <2>2, <2>3, TasksToldToStop DEF Preempt
<1> QED
  BY <1>1, <1>2 DEF PollBegins

(* The books are kept by every step.                                       *)
LEMMA BooksStep ==
  ASSUME BInv, [Next]_vars
  PROVE  Books'
<1>1. CASE StopBegins
  <2>1. /\ cancelReq' = cancelReq \cup TasksOf(Addrs)
        /\ probeTasks' = [a \in Addrs |-> IF a \in Addrs THEN NoTask
                                                         ELSE probeTasks[a]]
        /\ pending' = {} /\ UNCHANGED <<pc, target, outcome>>
    BY <1>1 DEF StopBegins
  <2>2. pending' \subseteq pending /\ pending \ Addrs \subseteq pending'
    BY <2>1, TaskTypes DEF BInv
  <2> QED BY <2>1, <2>2, TasksToldToStop
<1>2. CASE StopReturns
  BY <1>2, BooksUntouched DEF StopReturns
<1>3. ASSUME NEW a \in Addrs, EntryRemoved(a) PROVE Books'
  BY <1>3, BooksUntouched DEF EntryRemoved
<1>4. CASE UNCHANGED vars
  BY <1>4, BooksUntouched DEF vars
<1> QED
  BY <1>1, <1>2, <1>3, <1>4, ProbeStepBooks, PollStepBooks, PollBeginsBooks,
     EnvironmentBooks DEF Next, NextButRemoval

LEMMA InitBooks == Init => Books
  BY DEF Init, Books, TableOK, CancelsOK, PendingIsTracked, ListedIsPending,
         Jobs

LEMMA BInvStep == BInv /\ [Next]_vars => BInv'
  BY BooksStep, IInvStep DEF BInv

LEMMA BInvHolds == Spec => []BInv
  BY InitIInv, InitBooks, BInvStep, PTL DEF Spec, BInv

-----------------------------------------------------------------------------
(* The theorems.                                                           *)

(* Nobody can leave an address behind in pending_probes: whenever it is    *)
(* there, the task that will take it out is at work and was not told to    *)
(* stop.                                                                   *)
THEOREM PendingTracked == Spec => []PendingIsTracked
<1>1. BInv => PendingIsTracked
  BY DEF BInv, Books
<1> QED
  BY <1>1, BInvHolds, PTL

(* A probe that was told to stop, or is unwinding because it was, does not *)
(* reach the delay that follows the callbacks.                             *)
LEMMA CancelledStaysSilent ==
  ASSUME BInv, [Next]_vars, NEW t \in Probes,
         t \in cancelReq \/ outcome[t] = "cancelled", pc[t] # "cooldown"
  PROVE  pc'[t] # "cooldown"
<1> USE TaskTypes, JobTypes, ProbesAssumption, Moves DEF BInv
<1>1. SUFFICES ASSUME pc'[t] = "cooldown" PROVE FALSE
  OBVIOUS
<1>2. ASSUME NEW j \in Jobs, OthersWait(j) PROVE j = t
  BY <1>1, <1>2 DEF OthersWait
<1>3. ASSUME NEW p \in Probes, ProbeStep(p) \/ ProbeTimeout(p) PROVE FALSE
  <2>1. CASE ProbeStarts(p)
    BY <1>1, <1>2, <2>1 DEF ProbeStarts
  <2>2. CASE TimeoutFires(p) \/ CancelledConnected(p)
    BY <1>1, <1>2, <2>2 DEF TimeoutFires, CancelledConnected
  <2>3. CASE ConnectSucceeds(p) \/ ConnectFails(p) \/ ReadDone(p)
    BY <1>1, <1>2, <2>3 DEF ConnectSucceeds, ConnectFails, ReadDone
  <2>4. CASE CooldownDone(p) \/ CancelledUnwinds(p) \/ CancelledInCooldown(p)
    BY <1>1, <1>2, <2>4 DEF CooldownDone, CancelledUnwinds, CancelledInCooldown
  <2>5. CASE CancelledInLine(p)
    BY <1>1, <1>2, <2>5 DEF CancelledInLine
  <2>6. CASE \/ ProbeSupported(p) \/ ProbeErrored(p) \/ ProbeUnsupported(p)
             \/ ProbeTimedOut(p)
    <3>1. ASSUME CloseAndCool(p), outcome[p] # "cancelled" PROVE FALSE
      BY <1>1, <1>2, <3>1 DEF CloseAndCool
    <3>2. ASSUME pc[p] = "granted", p \notin cancelReq, Resume(p, "cooldown")
          PROVE  FALSE
      BY <1>1, <1>2, <3>2 DEF Books, CancelsOK
    <3>3. ASSUME NEW o \in {"support", "nosupport", "fail"}, Returned(p, o)
          PROVE  FALSE
      BY <3>1, <3>2, <3>3 DEF Returned
    <3> QED
      BY <2>6, <3>1, <3>3
         DEF ProbeSupported, ProbeErrored, ProbeUnsupported, ProbeTimedOut
  <2> QED
    BY <1>3, <2>1, <2>2, <2>3, <2>4, <2>5, <2>6 DEF ProbeStep, ProbeTimeout
<1>4. ASSUME NEW p \in Polls, PollStep(p) \/ PollBegins(p) PROVE FALSE
  <2>1. CASE PollStep(p)
    <3>1. OthersWait(p)
      BY <2>1 DEF PollStep, PollResumes, ConnectSucceeds, ConnectFails,
                  ReadDone, PollProbeDone, PollReadDone
    <3> QED BY <1>2, <3>1
  <2>2. CASE PollStarts(p)
    BY <1>1, <2>2 DEF PollStarts, TakeSlot, JoinLine, poolVars
  <2>3. CASE PollFromCache(p)
    BY <1>1, <2>3 DEF PollFromCache
  <2> QED
    BY <1>4, <2>1, <2>2, <2>3 DEF PollBegins
<1>5. ASSUME NEW a \in Addrs, Environment(a) PROVE FALSE
  <2>1. ASSUME NEW p \in Probes, ScheduleProbe(p, a) PROVE FALSE
    BY <1>1, <2>1 DEF ScheduleProbe, TakeSlot, JoinLine
  <2>2. ASSUME NEW p \in Probes, ScheduleProbeFailsAtOnce(p, a) PROVE FALSE
    BY <1>1, <2>2 DEF ScheduleProbeFailsAtOnce, TakeSlot, Books, CancelsOK
  <2>3. CASE ForgetDevices({a}) \/ EntryAdded(a)
    BY <1>1, <2>3 DEF ForgetDevices, EntryAdded
  <2> QED
    BY <1>5, <2>1, <2>2, <2>3 DEF Environment
<1>6. UNCHANGED pc => FALSE
  BY <1>1
<1>7. StopBegins \/ StopReturns \/ UNCHANGED vars => UNCHANGED pc
  BY DEF StopBegins, StopReturns, vars
<1>8. ASSUME NEW a \in Addrs, EntryRemoved(a) PROVE UNCHANGED pc
  BY <1>8 DEF EntryRemoved
<1> QED
  BY <1>3, <1>4, <1>5, <1>6, <1>7, <1>8 DEF Next, NextButRemoval

(* A probe that was told to stop never reports, whichever task or poll     *)
(* moves next and whatever else happens to its address.                    *)
THEOREM CancelledSilent == Spec => CancelledNeverReports
<1>1. BInv /\ [Next]_vars
        => [\A t \in Probes :
              (t \in cancelReq \/ outcome[t] = "cancelled") /\ pc[t] # "cooldown"
                => pc'[t] # "cooldown"]_vars
  BY CancelledStaysSilent
<1> QED
  BY <1>1, BInvHolds, PTL DEF Spec, CancelledNeverReports

-----------------------------------------------------------------------------
(* What becomes of a task's place in the table.                            *)

(* A probe at work stays where the table has it in a step of another task, *)
(* unless that one runs its finally block for the same address.            *)
LEMMA ProbeStepReaches ==
  ASSUME BInv, NEW u \in Probes, ProbeStep(u) \/ ProbeTimeout(u),
         NEW t \in Probes, NEW a \in Addrs,
         probeTasks[a] = t, Working(t), probeTasks'[a] # t, Working(t)'
  PROVE  u # t /\ target[u] = a /\ RunsFinally(u)
<1> USE TaskTypes, JobTypes, NoTaskAssumption, Moves DEF BInv
<1>1. CASE \/ ProbeSupported(u) \/ ProbeErrored(u) \/ ProbeUnsupported(u)
           \/ ProbeTimedOut(u)
  <2>1. /\ pc[u] \in {"closing", "granted"} /\ pc'[u] = "cooldown"
        /\ Settle(u)
    <3>1. ASSUME CloseAndCool(u)
          PROVE  pc[u] \in {"closing", "granted"} /\ pc'[u] = "cooldown"
      BY <3>1 DEF CloseAndCool
    <3>2. ASSUME NEW o \in {"support", "nosupport", "fail"}, Returned(u, o)
          PROVE  pc[u] \in {"closing", "granted"} /\ pc'[u] = "cooldown"
      BY <3>1, <3>2 DEF Returned
    <3> QED
      BY <1>1, <3>1, <3>2
         DEF ProbeSupported, ProbeErrored, ProbeUnsupported, ProbeTimedOut
  <2> QED
    BY <2>1 DEF Settle, Untrack, Working, RunsFinally
<1>2. CASE CooldownDone(u)
  BY <1>2 DEF CooldownDone, Working
<1>3. CASE CancelledUnwinds(u)
  BY <1>3 DEF CancelledUnwinds, Untrack, Working, RunsFinally
<1>4. CASE \/ ProbeStarts(u) \/ TimeoutFires(u)
           \/ ConnectSucceeds(u) \/ ConnectFails(u) \/ ReadDone(u)
           \/ CancelledInLine(u) \/ CancelledConnected(u)
           \/ CancelledInCooldown(u)
  BY <1>4 DEF ProbeStarts, TimeoutFires, ConnectSucceeds, ConnectFails,
              ReadDone, CancelledInLine, CancelledConnected,
              CancelledInCooldown, trackVars
<1> QED
  BY <1>1, <1>2, <1>3, <1>4 DEF ProbeStep, ProbeTimeout

(* Whatever else takes it out tells it to stop, and nothing is scheduled   *)
(* over it.                                                                *)
LEMMA OthersReach ==
  ASSUME BInv, [Next]_vars, NEW t \in Probes, NEW a \in Addrs,
         probeTasks[a] = t, Working(t), probeTasks'[a] # t, Working(t)',
         \A u \in Probes : ~ProbeStep(u) /\ ~ProbeTimeout(u)
  PROVE  FALSE
<1> USE TaskTypes, JobTypes, NoTaskAssumption DEF BInv
<1>1. trackVars' # trackVars
  BY DEF trackVars
<1>2. ASSUME NEW S \in SUBSET Addrs,
             cancelReq' = cancelReq \cup TasksOf(S),
             a \notin S => probeTasks'[a] = probeTasks[a]
      PROVE  FALSE
  BY <1>2 DEF TasksOf, Working
<1>3. CASE \E p \in Polls : PollStep(p) \/ PollBegins(p)
  <2>1. PICK p \in Polls : PollStep(p) \/ PollBegins(p)
    BY <1>3
  <2>2. CASE PollStarts(p)
    <3>1. Preempt /\ Unconfirmed \subseteq Addrs
      BY <2>2 DEF PollStarts, Unconfirmed
    <3> QED
      BY <1>2, <3>1 DEF Preempt
  <2> QED
    BY <1>1, <2>1, <2>2
       DEF PollStep, PollBegins, PollFromCache, PollResumes, ConnectSucceeds,
           ConnectFails, ReadDone, PollProbeDone, PollReadDone
<1>4. CASE \E b \in Addrs : Environment(b)
  <2>1. PICK b \in Addrs : Environment(b)
    BY <1>4
  <2>2. ASSUME NEW u \in Probes,
               ScheduleProbe(u, b) \/ ScheduleProbeFailsAtOnce(u, b)
        PROVE  FALSE
    <3>1. b \notin pending /\ probeTasks' = [probeTasks EXCEPT ![b] = u]
      BY <2>2 DEF ScheduleProbe, ScheduleProbeFailsAtOnce, MaySchedule
    <3> QED
      BY <3>1 DEF Books, ListedIsPending
  <2>3. CASE ForgetDevices({b})
    BY <1>2, <2>3 DEF ForgetDevices
  <2>4. CASE EntryAdded(b)
    BY <1>1, <2>4 DEF EntryAdded
  <2> QED
    BY <2>1, <2>2, <2>3, <2>4 DEF Environment
<1>5. CASE StopBegins
  BY <1>2, <1>5 DEF StopBegins
<1>6. CASE StopReturns \/ UNCHANGED vars \/ \E b \in Addrs : EntryRemoved(b)
  BY <1>1, <1>6 DEF StopReturns, EntryRemoved, vars
<1> QED
  BY <1>3, <1>4, <1>5, <1>6 DEF Next, NextButRemoval

(* A probe at work leaves the table, and the reach of preemption, removal  *)
(* and shutdown, only if it is told to stop, has finished, or another task *)
(* of its address runs its finally block.                                  *)
THEOREM StaysReachable == Spec => ReachableUntilStopped
<1>1. ASSUME BInv, [Next]_vars, NEW t \in Probes, NEW a \in Addrs,
             probeTasks[a] = t, Working(t), probeTasks'[a] # t, Working(t)'
      PROVE  \E u \in Probes \ {t} : target[u] = a /\ RunsFinally(u)
  BY <1>1, ProbeStepReaches, OthersReach
<1>2. BInv /\ [Next]_vars
        => [\A t \in Probes, a \in Addrs :
              probeTasks[a] = t /\ Working(t) /\ probeTasks'[a] # t =>
                \/ ~Working(t)'
                \/ \E u \in Probes \ {t} : target[u] = a /\ RunsFinally(u)]_vars
  BY <1>1
<1> QED
  BY <1>2, BInvHolds, PTL DEF Spec, ReachableUntilStopped
=============================================================================
